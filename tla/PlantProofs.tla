----------------------------- MODULE PlantProofs ------------------------------
(***************************************************************************)
(* The plant's services, for any number of actors and data: what a         *)
(* consumer group has passed over, with crashes and lost commits; the      *)
(* versions that the ML service answers with; the age of a report's        *)
(* readings and the order of its steps; the decline of a well; the alerts, *)
(* which are open and what they have counted; the phones' queue; the types *)
(* of every service, and that what holds of each holds of them together.   *)
(***************************************************************************)
EXTENDS PlantServices, FieldProofs, SumTheorems, SequenceTheorems

-----------------------------------------------------------------------------
(* KafkaConsumer *)

Offsets == Nat \union {-1}

\* The consumer and librdkafka agree on where they are.
PlacesOK ==
  /\ lowLatency \in BOOLEAN /\ offsetReset \in {"earliest", "latest"}
  /\ topic \in Seq({"readable", "unreadable"})
  /\ committed \in Offsets /\ asked \in Offsets /\ position \in Offsets
  /\ storedOffset \in Offsets /\ inHand \in Offsets
  /\ handled \subseteq Nat /\ abandoned \subseteq Nat
  /\ endedAt \subseteq Nat /\ unseen \subseteq Nat
  /\ inHand # -1 => position = inHand + 1
  /\ storedOffset # -1 => storedOffset = position
  /\ lowLatency => asked = -1

\* Every message below an offset has been tried, or is lost to a commit of
\* librdkafka, or in hand.
Passed(o, hand) ==
  \A m \in Nat : m < o =>
    \/ m \in handled \/ m \in abandoned \/ m \in unseen \/ m = hand
    \/ lowLatency /\ m \in endedAt

\* A commit of the consumer's own covers nothing in hand, and ends with a
\* message that was dealt with.
CommitSound(o) ==
  /\ Passed(o, IF lowLatency THEN inHand ELSE -1)
  /\ ~lowLatency /\ o > 0 => o - 1 \in handled

PassedInv ==
  /\ PlacesOK
  /\ Passed(position, inHand)
  /\ CommitSound(committed)
  /\ CommitSound(asked)

-----------------------------------------------------------------------------
LEMMA InitPassed == ConsumerInit => PassedInv
  BY DEF ConsumerInit, PassedInv, PlacesOK, Passed, CommitSound, Offsets

LEMMA NextPassed == PassedInv /\ [ConsumerNext]_consumerVars => PassedInv'
<1> SUFFICES ASSUME PassedInv, [ConsumerNext]_consumerVars PROVE PassedInv'
  OBVIOUS
<1> USE DEF PassedInv, PlacesOK, Passed, CommitSound, Offsets, Fixed, Consuming, AtPoll
<1>1. ASSUME NEW m \in {"readable", "unreadable"}, Produce(m) PROVE PassedInv'
  BY <1>1 DEF Produce
<1>2. CASE StartConsumer
  <2>1. Beginning \in Nat /\ (committed >= 0 => Beginning = committed)
    BY DEF Beginning
  <2>2. inHand = -1
    BY <1>2 DEF StartConsumer
  <2>3. PlacesOK'
    BY <1>2, <2>1, <2>2 DEF StartConsumer
  <2>4. Passed(position, inHand)'
    <3>1. CASE committed < 0
      BY <3>1, <1>2, <2>1, <2>2 DEF StartConsumer
    <3>2. CASE committed >= 0
      BY <3>2, <1>2, <2>1, <2>2 DEF StartConsumer
    <3> QED
      BY <3>1, <3>2
  <2>5. CommitSound(committed)' /\ CommitSound(asked)'
    BY <1>2, <2>1, <2>2 DEF StartConsumer
  <2> QED
    BY <2>3, <2>4, <2>5
<1>3. CASE Poll
  BY <1>3 DEF Poll
<1>4. CASE Processed
  <2>1. PlacesOK' /\ Passed(position, inHand)' /\ CommitSound(committed)'
    BY <1>4 DEF Processed, InCallback
  <2>2. CommitSound(asked)'
    BY <1>4 DEF Processed, InCallback
  <2> QED
    BY <2>1, <2>2
<1>5. CASE ToDlq
  <2>1. /\ inHand >= 0 /\ inHand' = -1
        /\ UNCHANGED <<lowLatency, offsetReset, topic, committed, asked, position, storedOffset,
                      endedAt, unseen>>
        /\ handled \subseteq handled' /\ abandoned \subseteq abandoned'
        /\ handled' \union abandoned' = handled \union abandoned \union {inHand}
    BY <1>5 DEF ToDlq, InCallback
  <2> QED
    BY <2>1
<1>6. CASE CommitLands
  <2>1. CASE asked >= 0 /\ committed' = asked /\ asked' = -1
    BY <1>6, <2>1 DEF CommitLands
  <2>2. CASE lowLatency /\ storedOffset >= 0 /\ committed' = storedOffset /\ UNCHANGED asked
    BY <1>6, <2>2 DEF CommitLands
  <2> QED
    BY <1>6, <2>1, <2>2 DEF CommitLands
<1>7. CASE CommitLost
  BY <1>7 DEF CommitLost
<1>8. CASE StopConsumer
  <2>1. PlacesOK'
    BY <1>8 DEF StopConsumer, Ends
  <2>2. Passed(position, inHand)'
    BY <1>8 DEF StopConsumer, Ends
  <2>3. CommitSound(committed)'
    BY <1>8 DEF StopConsumer, Ends
  <2>4. CommitSound(asked)'
    BY <1>8 DEF StopConsumer, Ends
  <2> QED
    BY <2>1, <2>2, <2>3, <2>4
<1>9. CASE CrashConsumer
  BY <1>9 DEF CrashConsumer, Ends
<1>10. CASE UNCHANGED consumerVars
  BY <1>10 DEF consumerVars
<1> QED
  BY <1>1, <1>2, <1>3, <1>4, <1>5, <1>6, <1>7, <1>8, <1>9, <1>10 DEF ConsumerNext

\* Places, commits on their way and the messages below them stay consistent.
THEOREM PassedInvariant == ConsumerSpec => []PassedInv
  BY InitPassed, NextPassed, PTL DEF ConsumerSpec

\* A message below the group's offset was tried: processed, sent to the dead
\* letter topic, or let go of when that failed too; or it was before the
\* group's beginning, or, in low-latency mode only, it was in hand when a
\* consumer ended.  In the other mode the last one below it was dealt with.
THEOREM PassedOverHolds == ConsumerSpec => []PassedOverWasTried
<1>1. PassedInv => PassedOverWasTried
  BY DEF PassedInv, PlacesOK, Passed, CommitSound, Offsets, PassedOverWasTried
<1> QED
  BY <1>1, PassedInvariant, PTL

-----------------------------------------------------------------------------
(* ModelRegistry *)

\* The trainings that made the versions of k.
Made(k) == {registry[k][i] : i \in DOMAIN registry[k]}

\* No training of k is newer than its scaler on the disk, or than the one in
\* memory, unless it is odd: it raised after it was registered.
InTurn(made, odd, onDisk, scaler, model, scaled, n) ==
  /\ \A t \in made : t \in Nat \ {0} /\ t <= n
  /\ onDisk <= n
  /\ scaled => \A t \in made : t <= onDisk
  /\ scaler # Unset => scaled /\ \A t \in made : t <= scaler \/ t \in odd
  /\ model # Unset => model \in made

ScalersOK ==
  \A k \in Models : InTurn(Made(k), halfway, disk[k], scalers[k], models[k], k \in Scaled, trainings)

MemoryOK ==
  /\ registry \in [Models -> Seq(Nat)]
  /\ trainings \in Nat /\ halfway \subseteq 1..trainings
  /\ disk \in [Models -> Nat] /\ models \in [Models -> Nat] /\ scalers \in [Models -> Nat]
  /\ answer \in [key : Models, version : Nat, model : Nat, scaler : Nat]

RegistryInv == MemoryOK /\ ScalersOK /\ AnsweredAsLabelled

TestsOK == tests \in [Models -> [plan : Rollouts \union {NoPlan}, samples : Nat, candidates : Nat]]

LEMMA InitRegistry == ModelInit => RegistryInv
<1> SUFFICES ASSUME ModelInit PROVE RegistryInv
  OBVIOUS
<1>1. Series \in Models
  BY ModelAssumption
<1>2. \A k \in Models : registry[k] = <<>> /\ Made(k) = {}
  BY DEF ModelInit, Made
<1>3. registry \in [Models -> Seq(Nat)]
  BY EmptySeq DEF ModelInit
<1>4. MemoryOK
  BY <1>1, <1>3 DEF ModelInit, MemoryOK, Unset, NoAnswer
<1>5. ScalersOK
  BY <1>2 DEF ModelInit, ScalersOK, InTurn, Unset
<1>6. AnsweredAsLabelled
  BY DEF ModelInit, AnsweredAsLabelled, NoAnswer, Unset
<1> QED
  BY <1>4, <1>5, <1>6 DEF RegistryInv

\* What is found is a version that was made.
LEMMA FoundMade ==
  ASSUME MemoryOK, NEW k \in Models, NEW v \in Nat, Found(k, v)
  PROVE  /\ TrainingOf(k, v) \in Made(k) /\ TrainingOf(k, v) \in Nat
         /\ v # Unset => v \in DOMAIN registry[k] /\ TrainingOf(k, v) = registry[k][v]
<1>1. registry[k] \in Seq(Nat) /\ Len(registry[k]) \in Nat /\ DOMAIN registry[k] = 1..Len(registry[k])
  BY LenProperties DEF MemoryOK
<1>2. CASE v = Unset
  <2>1. Len(registry[k]) \in DOMAIN registry[k] /\ TrainingOf(k, v) = registry[k][Len(registry[k])]
    BY <1>1, <1>2 DEF Found, Latest, TrainingOf, Unset
  <2> QED
    BY <1>1, <1>2, <2>1, ElementOfSeq DEF Made
<1>3. CASE v # Unset
  <2>1. v \in DOMAIN registry[k] /\ TrainingOf(k, v) = registry[k][v]
    BY <1>1, <1>3 DEF Found, Latest, TrainingOf, Unset
  <2> QED
    BY <1>1, <2>1, ElementOfSeq DEF Made
<1> QED
  BY <1>2, <1>3

\* A scaler that is read is no older than what was made.
LEMMA ScalerRead ==
  ASSUME MemoryOK, ScalersOK, NEW k \in Models, NEW loads \in BOOLEAN
  PROVE  /\ ScalerAfter(k, loads) \in Nat
         /\ ScalerAfter(k, loads) # Unset =>
              k \in Scaled /\ \A t \in Made(k) : t <= ScalerAfter(k, loads) \/ t \in halfway
BY DEF MemoryOK, ScalersOK, InTurn, ScalerAfter, Unset

\* Models and scalers are loaded for some of the types.
LEMMA LoadKeeps ==
  ASSUME RegistryInv, UNCHANGED <<Rest, answer>>,
         NEW found \in SUBSET Reachable, NEW read \in SUBSET (found \cap Scaled), LoadAll(found, read)
  PROVE  RegistryInv'
<1>1. MemoryOK /\ ScalersOK /\ AnsweredAsLabelled
  BY DEF RegistryInv
<1>2. UNCHANGED <<registry, disk, trainings, halfway, answer>>
  BY DEF Rest
<1>3. \A k \in Models : Made(k)' = Made(k)
  BY <1>2 DEF Made
<1>4. \A k \in found : k \in Models /\ TrainingOf(k, Unset) \in Made(k) /\ TrainingOf(k, Unset) \in Nat
  BY <1>1, FoundMade DEF Reachable, Unset
<1>5. \A k \in Models : /\ ScalerAfter(k, k \in read) \in Nat
                        /\ ScalerAfter(k, k \in read) # Unset =>
                             k \in Scaled /\ \A t \in Made(k) : t <= ScalerAfter(k, k \in read) \/ t \in halfway
  BY <1>1 DEF MemoryOK, ScalersOK, InTurn, ScalerAfter, Unset
<1>6. /\ models' \in [Models -> Nat]
      /\ \A k \in Models : models'[k] = IF k \in found THEN TrainingOf(k, Unset) ELSE models[k]
  BY <1>1, <1>4 DEF LoadAll, MemoryOK
<1>7. /\ scalers' \in [Models -> Nat]
      /\ \A k \in Models : scalers'[k] = IF k \in found THEN ScalerAfter(k, k \in read) ELSE scalers[k]
  BY <1>1, <1>5 DEF LoadAll, MemoryOK
<1>8. MemoryOK'
  BY <1>1, <1>2, <1>6, <1>7 DEF MemoryOK
<1>9. ScalersOK'
  BY <1>1, <1>2, <1>3, <1>4, <1>5, <1>6, <1>7 DEF ScalersOK, InTurn
<1>10. AnsweredAsLabelled'
  BY <1>1, <1>2 DEF AnsweredAsLabelled
<1> QED
  BY <1>8, <1>9, <1>10 DEF RegistryInv

LEMMA TrainKeeps ==
  ASSUME RegistryInv, NEW k \in Models, Train(k)
  PROVE  RegistryInv'
<1> DEFINE t == trainings + 1
           dumped == IF k \in Scaled THEN [disk EXCEPT ![k] = t] ELSE disk
<1>1. MemoryOK /\ ScalersOK /\ AnsweredAsLabelled
  BY DEF RegistryInv
<1>2. t \in Nat /\ trainings' = t /\ answer' = answer /\ t # Unset /\ trainings \in Nat
  BY <1>1 DEF Train, MemoryOK, Unset
<1>3. /\ dumped \in [Models -> Nat]
      /\ \A j \in Models : dumped[j] = IF j = k /\ k \in Scaled THEN t ELSE disk[j]
  BY <1>1, <1>2 DEF MemoryOK
<1> HIDE DEF dumped
<1>4. CASE disk' \in {disk, dumped} /\ UNCHANGED <<registry, halfway, models, scalers>>
  <2>1. disk' \in [Models -> Nat]
    BY <1>1, <1>3, <1>4 DEF MemoryOK
  <2>2. UNCHANGED <<registry, halfway, models, scalers>> /\ \A j \in Models : Made(j)' = Made(j)
    BY <1>4 DEF Made
  <2>3. MemoryOK'
    <3>1. halfway' \subseteq 1..trainings'
      BY <1>1, <1>2, <2>2 DEF MemoryOK
    <3> QED
      BY <1>1, <1>2, <2>1, <2>2, <3>1, SMTT(30) DEF MemoryOK
  <2>4. ScalersOK'
    <3> SUFFICES ASSUME NEW j \in Models
                 PROVE  InTurn(Made(j), halfway, disk'[j], scalers[j], models[j], j \in Scaled, t)
      BY <1>2, <2>2 DEF ScalersOK
    <3>1. InTurn(Made(j), halfway, disk[j], scalers[j], models[j], j \in Scaled, trainings) /\ disk[j] \in Nat
      BY <1>1 DEF ScalersOK, MemoryOK
    <3>2. disk'[j] = disk[j] \/ (j \in Scaled /\ disk'[j] = t)
      BY <1>3, <1>4
    <3> QED
      BY <1>2, <3>1, <3>2 DEF InTurn
  <2>5. AnsweredAsLabelled'
    BY <1>1, <1>2, <2>2 DEF AnsweredAsLabelled
  <2> QED
    BY <2>3, <2>4, <2>5 DEF RegistryInv
<1>5. CASE /\ disk' = dumped
           /\ registry' = [registry EXCEPT ![k] = Append(@, t)]
           /\ \/ halfway' = halfway \union {t} /\ UNCHANGED <<models, scalers>>
              \/ /\ models' = [models EXCEPT ![k] = t]
                 /\ scalers' = ScalerTrained(k, t)
                 /\ UNCHANGED halfway
  <2> DEFINE s == registry[k]
  <2>0. halfway \subseteq halfway' /\ halfway' \subseteq 1..t
    <3>1. halfway' = halfway \/ halfway' = halfway \union {t}
      BY <1>5
    <3>2. halfway \subseteq 1..trainings
      BY <1>1 DEF MemoryOK
    <3>3. (\A x \in 1..trainings : x \in 1..t) /\ t \in 1..t
      BY <1>2
    <3> HIDE DEF t
    <3> QED
      BY <3>1, <3>2, <3>3
  <2>1. /\ s \in Seq(Nat) /\ Len(s) \in Nat /\ DOMAIN s = 1..Len(s)
        /\ registry'[k] = Append(s, t) /\ \A j \in Models \ {k} : registry'[j] = registry[j]
    BY <1>1, <1>5, LenProperties DEF MemoryOK
  <2>2. /\ Append(s, t) \in Seq(Nat) /\ Len(Append(s, t)) = Len(s) + 1
        /\ Append(s, t)[Len(s) + 1] = t /\ \A i \in 1..Len(s) : Append(s, t)[i] = s[i]
        /\ DOMAIN Append(s, t) = 1..Len(s) + 1
    BY <1>2, <2>1, AppendProperties
  <2>3. registry' \in [Models -> Seq(Nat)]
    BY <1>1, <1>5, <2>2 DEF MemoryOK
  <2> DEFINE a == Append(s, t)
  <2>4. /\ DOMAIN s \subseteq DOMAIN a /\ Len(s) + 1 \in DOMAIN a
        /\ \A i \in DOMAIN a : i \in DOMAIN s \/ i = Len(s) + 1
    BY <2>1, <2>2
  <2>5. {a[i] : i \in DOMAIN a} = {s[i] : i \in DOMAIN s} \union {t}
    <3> HIDE DEF a
    <3>1. \A i \in DOMAIN s : a[i] = s[i]
      BY <2>1, <2>2 DEF a
    <3>2. a[Len(s) + 1] = t
      BY <2>2 DEF a
    <3> QED
      BY <2>4, <3>1, <3>2
  <2>6. Made(k)' = Made(k) \union {t} /\ \A j \in Models \ {k} : Made(j)' = Made(j)
    BY <2>1, <2>5 DEF Made
  <2>7. /\ models' \in [Models -> Nat] /\ scalers' \in [Models -> Nat]
        /\ \A j \in Models \ {k} : models'[j] = models[j] /\ scalers'[j] = scalers[j]
    BY <1>1, <1>2, <1>5 DEF MemoryOK, ScalerTrained
  <2>8. \/ halfway' = halfway \union {t} /\ models'[k] = models[k] /\ scalers'[k] = scalers[k]
        \/ models'[k] = t /\ scalers'[k] = IF k \in Scaled THEN t ELSE scalers[k]
    BY <1>1, <1>2, <1>5 DEF MemoryOK, ScalerTrained
  <2>9. MemoryOK'
    BY <1>1, <1>2, <1>3, <1>5, <2>0, <2>3, <2>7 DEF MemoryOK
  <2>10. ScalersOK'
    <3>1. \A j \in Models \ {k} : InTurn(Made(j), halfway', disk[j], scalers[j], models[j], j \in Scaled, t)
      BY <1>1, <1>2, <2>0, SMTT(30) DEF ScalersOK, InTurn, MemoryOK
    <3>2. InTurn(Made(k) \union {t}, halfway', dumped[k], scalers'[k], models'[k], k \in Scaled, t)
      <4>1. InTurn(Made(k), halfway, disk[k], scalers[k], models[k], k \in Scaled, trainings)
        BY <1>1 DEF ScalersOK
      <4>2. disk[k] \in Nat /\ scalers[k] \in Nat /\ dumped[k] = IF k \in Scaled THEN t ELSE disk[k]
        BY <1>1, <1>3 DEF MemoryOK
      <4>3. CASE halfway' = halfway \union {t} /\ models'[k] = models[k] /\ scalers'[k] = scalers[k]
        BY <1>2, <4>1, <4>2, <4>3 DEF InTurn
      <4>4. CASE models'[k] = t /\ scalers'[k] = IF k \in Scaled THEN t ELSE scalers[k]
        BY <1>2, <2>0, <4>1, <4>2, <4>4 DEF InTurn
      <4> QED
        BY <2>8, <4>3, <4>4
    <3>3. \A j \in Models \ {k} : dumped[j] = disk[j]
      BY <1>3
    <3>4. ASSUME NEW j \in Models
          PROVE  InTurn(Made(j)', halfway', disk'[j], scalers'[j], models'[j], j \in Scaled, trainings')
      <4>1. CASE j = k
        BY <1>2, <1>5, <2>6, <2>7, <3>2, <4>1
      <4>2. CASE j # k
        BY <1>2, <1>5, <2>6, <2>7, <3>1, <3>3, <4>2
      <4> QED
        BY <4>1, <4>2
    <3> QED
      BY <3>4 DEF ScalersOK
  <2>11. AnsweredAsLabelled'
    <3>1. CASE answer.key = k
      <4>1. /\ answer.version # Unset => answer.version \in DOMAIN s /\ answer.model = s[answer.version]
            /\ answer.scaler # Unset => answer.scaler >= answer.model \/ answer.model \in halfway'
        BY <1>1, <2>0, <3>1 DEF AnsweredAsLabelled
      <4>2. \A i \in DOMAIN s : i \in DOMAIN registry'[k] /\ registry'[k][i] = s[i]
        BY <2>1, <2>2, <2>4
      <4> HIDE DEF s
      <4> QED
        BY <1>2, <3>1, <4>1, <4>2 DEF AnsweredAsLabelled
    <3>2. CASE answer.key # k
      BY <1>1, <1>2, <2>0, <2>1, <3>2 DEF AnsweredAsLabelled, MemoryOK
    <3> QED
      BY <3>1, <3>2
  <2> QED
    BY <2>9, <2>10, <2>11 DEF RegistryInv
<1> QED
  BY <1>4, <1>5 DEF Train, dumped

LEMMA PredictKeeps ==
  ASSUME RegistryInv, NEW k \in Models, NEW v \in Nat, NEW counts, Predict(k, v, counts)
  PROVE  RegistryInv'
<1>1. MemoryOK /\ ScalersOK /\ AnsweredAsLabelled
  BY DEF RegistryInv
<1>2. UNCHANGED <<registry, disk, trainings, halfway>> /\ \A j \in Models : Made(j)' = Made(j)
  BY DEF Predict, Rest, Made
\* The model in memory is m, its scaler c.
<1>3. ASSUME NEW m \in Made(k), m \in Nat, NEW c \in Nat,
             c # Unset => k \in Scaled /\ \A t \in Made(k) : t <= c \/ t \in halfway,
             v # Unset => v \in DOMAIN registry[k] /\ m = registry[k][v],
             models' = [models EXCEPT ![k] = m], scalers' = [scalers EXCEPT ![k] = c],
             answer' \in {answer, [key |-> k, version |-> v, model |-> m, scaler |-> c]}
      PROVE  RegistryInv'
  <2>1. /\ models' \in [Models -> Nat] /\ models'[k] = m
        /\ \A j \in Models \ {k} : models'[j] = models[j]
    BY <1>1, <1>3 DEF MemoryOK
  <2>2. /\ scalers' \in [Models -> Nat] /\ scalers'[k] = c
        /\ \A j \in Models \ {k} : scalers'[j] = scalers[j]
    BY <1>1, <1>3 DEF MemoryOK
  <2>3. /\ answer' \in [key : Models, version : Nat, model : Nat, scaler : Nat]
        /\ \/ answer' = answer
           \/ answer'.key = k /\ answer'.version = v /\ answer'.model = m /\ answer'.scaler = c
    <3>1. CASE answer' = answer
      BY <1>1, <3>1 DEF MemoryOK
    <3>2. CASE answer' = [key |-> k, version |-> v, model |-> m, scaler |-> c]
      BY <1>3, <3>2
    <3> QED
      BY <1>3, <3>1, <3>2
  <2>4. MemoryOK'
    BY <1>1, <1>2, <2>1, <2>2, <2>3 DEF MemoryOK
  <2>5. ScalersOK'
    <3> SUFFICES ASSUME NEW j \in Models
                 PROVE  InTurn(Made(j), halfway, disk[j], scalers'[j], models'[j], j \in Scaled, trainings)
      BY <1>2 DEF ScalersOK
    <3>1. InTurn(Made(j), halfway, disk[j], scalers[j], models[j], j \in Scaled, trainings)
      BY <1>1 DEF ScalersOK
    <3>2. j = k => models'[j] = m /\ scalers'[j] = c
      BY <2>1, <2>2
    <3>3. j # k => models'[j] = models[j] /\ scalers'[j] = scalers[j]
      BY <2>1, <2>2
    <3> QED
      BY <1>3, <3>1, <3>2, <3>3 DEF InTurn
  <2>6. AnsweredAsLabelled'
    <3>1. CASE answer' = answer
      BY <1>1, <1>2, <3>1 DEF AnsweredAsLabelled
    <3>2. CASE answer'.key = k /\ answer'.version = v /\ answer'.model = m /\ answer'.scaler = c
      BY <1>2, <1>3, <3>2 DEF AnsweredAsLabelled
    <3> QED
      BY <2>3, <3>1, <3>2
  <2> QED
    BY <2>4, <2>5, <2>6 DEF RegistryInv
<1>4. CASE UNCHANGED <<models, scalers, answer>>
  <2>1. MemoryOK' /\ ScalersOK'
    BY <1>1, <1>2, <1>4 DEF MemoryOK, ScalersOK
  <2>2. AnsweredAsLabelled'
    BY <1>1, <1>2, <1>4 DEF AnsweredAsLabelled
  <2> QED
    BY <2>1, <2>2 DEF RegistryInv
<1>5. ASSUME Found(k, v), NEW reads \in BOOLEAN,
             models' = [models EXCEPT ![k] = TrainingOf(k, v)],
             scalers' = [scalers EXCEPT ![k] = ScalerAfter(k, reads)],
             answer' \in {answer, [key |-> k, version |-> v, model |-> TrainingOf(k, v),
                                   scaler |-> ScalerAfter(k, reads)]}
      PROVE  RegistryInv'
  BY <1>1, <1>3, <1>5, FoundMade, ScalerRead
<1>6. ASSUME v = Unset, models[k] # Unset, NEW c \in Nat,
             c # Unset => k \in Scaled /\ \A t \in Made(k) : t <= c \/ t \in halfway,
             scalers' = [scalers EXCEPT ![k] = c], UNCHANGED models,
             answer' \in {answer, [key |-> k, version |-> v, model |-> models[k], scaler |-> c]}
      PROVE  RegistryInv'
  <2>1. models[k] \in Made(k) /\ models[k] \in Nat /\ models' = [models EXCEPT ![k] = models[k]]
    BY <1>1, <1>6 DEF ScalersOK, InTurn, MemoryOK
  <2> QED
    BY <1>3, <1>6, <2>1
<1>7. \A reads \in BOOLEAN :
        LET c == IF scalers[k] = Unset THEN ScalerAfter(k, reads) ELSE scalers[k]
        IN c \in Nat /\ (c # Unset => k \in Scaled /\ \A t \in Made(k) : t <= c \/ t \in halfway)
  BY <1>1, ScalerRead DEF ScalersOK, InTurn, MemoryOK
<1> QED
  BY <1>4, <1>5, <1>6, <1>7 DEF Predict, LoadFails

LEMMA NextTests == TestsOK /\ [ModelNext]_modelVars => TestsOK'
<1> SUFFICES ASSUME TestsOK, [ModelNext]_modelVars PROVE TestsOK'
  OBVIOUS
<1>1. ASSUME NEW k \in Models, NEW s 
      PROVE  Sampled(k, s) \in [Models -> [plan : Rollouts \union {NoPlan}, samples : Nat, candidates : Nat]]
  <2> DEFINE T == [plan : Rollouts \union {NoPlan}, samples : Nat, candidates : Nat]
             x == tests[k]
             c == IF ToCandidate(k, s) THEN x.candidates + 1 ELSE x.candidates
             y == [x EXCEPT !.samples = x.samples + 1, !.candidates = c]
  <2>1. x \in T /\ x.samples \in Nat /\ x.candidates \in Nat
    BY DEF TestsOK
  <2>2. c \in Nat
    BY <2>1
  <2>3. y \in T
    <3> DEFINE z == [x EXCEPT !.samples = x.samples + 1]
    <3>1. z \in T
      BY <2>1
    <3>2. [z EXCEPT !.candidates = c] \in T
      <4> HIDE DEF z, x, c
      <4> QED
        BY <2>2, <3>1
    <3> QED
      BY <3>2
  <2>4. Sampled(k, s) = IF ~Tested(k) THEN tests ELSE [tests EXCEPT ![k] = y]
    BY DEF Sampled
  <2> HIDE DEF y
  <2> QED
    BY <2>3, <2>4 DEF TestsOK
<1>2. CASE StartModels \/ ReloadModels \/ \E k \in Models : Train(k)
  BY <1>2 DEF StartModels, ReloadModels, Train, TestsOK
<1>3. CASE RestartModels
  <2>1. NoTest \in [plan : Rollouts \union {NoPlan}, samples : Nat, candidates : Nat]
    BY DEF NoTest
  <2> QED
    BY <1>3, <2>1 DEF RestartModels, TestsOK
<1>4. CASE Forecast
  BY <1>4 DEF Forecast, Predict, TestsOK
<1>5. ASSUME NEW k \in Models, NEW rollout \in Rollouts, ConfigureAbTest(k, rollout) PROVE TestsOK'
  BY <1>5 DEF ConfigureAbTest, TestsOK
<1>6. ASSUME NEW k \in Models, NEW s \in Sensors, NEW v \in Versions, Infer(k, s, v) PROVE TestsOK'
  BY <1>1, <1>6, ZenonT(60) DEF Infer, Predict, TestsOK
<1>7. CASE UNCHANGED modelVars
  BY <1>7 DEF modelVars, TestsOK
<1> QED
  BY <1>2, <1>3, <1>4, <1>5, <1>6, <1>7 DEF ModelNext

\* The version for a request is one that a configuration can name.
LEMMA ResolvedVersion ==
  ASSUME TestsOK, NEW k \in Models, NEW s
  PROVE  Resolved(k, s) \in Nat
<1>1. CASE Tested(k)
  <2>1. tests[k].plan \in Rollouts
    BY <1>1 DEF TestsOK, Tested
  <2>2. tests[k].plan.candidate \in Nat /\ tests[k].plan.baseline \in Nat
    BY <2>1, ModelAssumption
  <2> QED
    BY <1>1, <2>2 DEF Resolved
<1> QED
  BY <1>1 DEF Resolved, Unset

LEMMA NextRegistry == RegistryInv /\ TestsOK /\ [ModelNext]_modelVars => RegistryInv'
<1> SUFFICES ASSUME RegistryInv, TestsOK, [ModelNext]_modelVars PROVE RegistryInv'
  OBVIOUS
<1>1. CASE StartModels
  BY <1>1, LoadKeeps DEF StartModels
<1>2. CASE ReloadModels
  BY <1>2, LoadKeeps DEF ReloadModels
<1>3. CASE RestartModels
  <2>1. /\ UNCHANGED <<registry, disk, trainings, halfway, answer>>
        /\ models' = [k \in Models |-> 0] /\ scalers' = [k \in Models |-> 0]
    BY <1>3 DEF RestartModels, Rest, Unset
  <2>2. MemoryOK'
    BY <2>1 DEF RegistryInv, MemoryOK
  <2>3. ScalersOK'
    BY <2>1 DEF RegistryInv, ScalersOK, InTurn, Made, Unset
  <2>4. AnsweredAsLabelled'
    BY <2>1 DEF RegistryInv, AnsweredAsLabelled
  <2> QED
    BY <2>2, <2>3, <2>4 DEF RegistryInv
<1>4. CASE Forecast
  <2>1. Series \in Models /\ Unset \in Nat
    BY ModelAssumption DEF Unset
  <2> QED
    BY <1>4, <2>1, PredictKeeps DEF Forecast
<1>5. ASSUME NEW k \in Models, Train(k) PROVE RegistryInv'
  BY <1>5, TrainKeeps
<1>6. ASSUME NEW k \in Models, NEW rollout \in Rollouts, ConfigureAbTest(k, rollout) PROVE RegistryInv'
  <2>1. UNCHANGED <<registry, disk, trainings, halfway, models, scalers, answer>>
    BY <1>6 DEF ConfigureAbTest, Rest
  <2> QED
    BY <2>1, ZenonT(60) DEF RegistryInv, MemoryOK, ScalersOK, InTurn, Made, AnsweredAsLabelled
<1>7. ASSUME NEW k \in Models, NEW s \in Sensors, NEW v \in Versions, Infer(k, s, v) PROVE RegistryInv'
  <2>1. v \in Nat /\ Resolved(k, s) \in Nat
    BY ResolvedVersion DEF Versions
  <2> QED
    BY <1>7, <2>1, PredictKeeps DEF Infer
<1>8. CASE UNCHANGED modelVars
  BY <1>8 DEF modelVars, RegistryInv, MemoryOK, ScalersOK, InTurn, Made, AnsweredAsLabelled
<1> QED
  BY <1>1, <1>2, <1>3, <1>4, <1>5, <1>6, <1>7, <1>8 DEF ModelNext

\* The invariant below AnsweredAsLabelled.
THEOREM RegistryInvariant == ModelSpec => [](TestsOK /\ RegistryInv)
<1>1. ModelInit => TestsOK
  <2>1. NoTest \in [plan : Rollouts \union {NoPlan}, samples : Nat, candidates : Nat]
    BY DEF NoTest
  <2> QED
    BY <2>1 DEF ModelInit, TestsOK
<1> QED
  BY <1>1, InitRegistry, NextTests, NextRegistry, PTL DEF ModelSpec

\* An answer names the version that computed it, and its scaler is no older
\* than its model, for any number of trainings, restarts and tests.
THEOREM AnsweredAsLabelledHolds == ModelSpec => []AnsweredAsLabelled
<1>1. RegistryInv => AnsweredAsLabelled
  BY DEF RegistryInv
<1> QED
  BY <1>1, RegistryInvariant, PTL

-----------------------------------------------------------------------------
(* Reporting *)

\* A task remembers when its request was sent.
TaskFields == {"at", "wf", "pending", "pass", "progress", "executed", "step", "since"}

Tasked(x) == DOMAIN x = TaskFields /\ x.since \in Int

\* An entry is good until CacheTtl after its readings were given, at most.
Fresh(x) ==
  x \in [since : Int, asOf : Int, expires : Int] /\ x.expires <= x.asOf + CacheTtl

FreshInv ==
  /\ time \in Int
  /\ \A t \in Tasks : Tasked(tasks[t])
  /\ DOMAIN tasks = Tasks /\ DOMAIN cache = Keys
  /\ \A k \in Keys : Fresh(cache[k])
  /\ ReportFresh

LEMMA FreeTasked == Tasked(Free) /\ \A w : Tasked(Run(w))
  BY DEF Tasked, TaskFields, Free, Run

LEMMA ExecutedTasked ==
  ASSUME NEW x, Tasked(x), NEW s
  PROVE  Tasked(Executed(x, s))
BY DEF Tasked, TaskFields, Executed

LEMMA ReportedTasked ==
  ASSUME FreshInv, NEW t \in Tasks, Reported(t)
  PROVE  DOMAIN tasks' = Tasks /\ \A u \in Tasks : Tasked(tasks'[u])
<1> DEFINE x == IF tasks[t].wf = 0 THEN Free ELSE Executed(tasks[t], tasks[t].step)
<1>1. Tasked(x)
  BY FreeTasked, ExecutedTasked DEF FreshInv
<1>2. tasks' = [tasks EXCEPT ![t] = x]
  BY DEF Reported
<1> HIDE DEF x
<1> QED
  BY <1>1, <1>2 DEF FreshInv

LEMMA FinishTasked ==
  ASSUME FreshInv, NEW t \in Tasks, NEW ended, Finish(t, ended)
  PROVE  DOMAIN tasks' = Tasks /\ \A u \in Tasks : Tasked(tasks'[u])
<1>1. tasks' = [tasks EXCEPT ![t] = Free]
  BY DEF Finish
<1> QED
  BY <1>1, FreeTasked DEF FreshInv

\* Cached readings are young enough for a report.
LEMMA CachedFresh ==
  ASSUME FreshInv, NEW k, Cached(k), Report(cache[k].asOf, time - CacheTtl)
  PROVE  ReportFresh'
<1>1. cache[k].asOf \in Int /\ cache[k].expires \in Int /\ cache[k].expires <= cache[k].asOf + CacheTtl
      /\ cache[k].expires > time /\ time \in Int /\ CacheTtl \in Int
  BY ReportingAssumption DEF FreshInv, Fresh, Cached
<1>2. report'.asOf = cache[k].asOf /\ report'.since = time - CacheTtl
  BY DEF Report
<1> QED
  BY <1>1, <1>2 DEF ReportFresh

LEMMA InitFresh == ReportingInit => FreshInv
<1> SUFFICES ASSUME ReportingInit PROVE FreshInv
  OBVIOUS
<1>1. CacheTtl \in Nat
  BY ReportingAssumption
<1>2. Fresh(NoCache)
  BY <1>1 DEF Fresh, NoCache
<1> QED
  BY <1>2, FreeTasked DEF ReportingInit, FreshInv, ReportFresh, NoReport

LEMMA StepFresh ==
  ASSUME FreshInv, NEW t \in Tasks, Step(t)
  PROVE  FreshInv'
<1> DEFINE i == CHOOSE i \in Ready(t) : \A j \in Ready(t) : i <= j
           s == tasks[t].pass[i]
           task == [tasks[t] EXCEPT !.pass = SubSeq(@, i + 1, Len(@))]
           waiting == [task EXCEPT !.at = "waiting", !.step = s, !.since = time]
<1>1. Tasked(tasks[t]) /\ time \in Int
  BY DEF FreshInv
<1>2. Tasked(task)
  BY <1>1 DEF Tasked, TaskFields
<1>3. Tasked(Executed(task, s)) /\ Tasked(waiting)
  <2> HIDE DEF task, s
  <2>1. Tasked(Executed(task, s))
    BY <1>2, ExecutedTasked
  <2>2. Tasked(waiting)
    BY <1>1, <1>2 DEF Tasked, TaskFields
  <2> QED
    BY <2>1, <2>2
<1>4. UNCHANGED <<time, cache>>
  BY DEF Step
<1>5. \/ tasks' = [tasks EXCEPT ![t] = Executed(task, s)] /\ UNCHANGED report
      \/ /\ Cached(s.key)
         /\ tasks' = [tasks EXCEPT ![t] = Executed(task, s)]
         /\ Report(cache[s.key].asOf, time - CacheTtl)
      \/ tasks' = [tasks EXCEPT ![t] = waiting] /\ UNCHANGED report
      \/ Finish(t, "failed") /\ UNCHANGED report
  BY DEF Step
<1> HIDE DEF s, task, waiting
<1>6. DOMAIN tasks' = Tasks /\ \A u \in Tasks : Tasked(tasks'[u])
  <2>1. ASSUME NEW x, Tasked(x), tasks' = [tasks EXCEPT ![t] = x]
        PROVE  DOMAIN tasks' = Tasks /\ \A u \in Tasks : Tasked(tasks'[u])
    BY <2>1 DEF FreshInv
  <2> QED
    BY <1>3, <1>5, <2>1, FinishTasked
<1>7. ReportFresh'
  <2>1. CASE UNCHANGED report
    BY <2>1 DEF FreshInv, ReportFresh
  <2> QED
    BY <1>5, <2>1, CachedFresh
<1> QED
  BY <1>4, <1>6, <1>7 DEF FreshInv, Fresh

LEMMA NextFresh == FreshInv /\ [ReportingNext]_reportingVars => FreshInv'
<1> SUFFICES ASSUME FreshInv, [ReportingNext]_reportingVars PROVE FreshInv'
  OBVIOUS
<1>1. CASE PassTime
  BY <1>1 DEF PassTime, FreshInv, Fresh, ReportFresh
<1>2. CASE UNCHANGED <<time, tasks, cache, report>>
  BY <1>2 DEF FreshInv, Fresh, ReportFresh
<1>3. CASE Schedule
  <2>1. UNCHANGED <<time, cache, report>>
    BY <1>3 DEF Schedule
  <2>2. UNCHANGED tasks \/ tasks' = [tasks EXCEPT ![Scheduler] = Run(iteration.next)]
    BY <1>3 DEF Schedule
  <2>3. DOMAIN tasks' = Tasks /\ \A u \in Tasks : Tasked(tasks'[u])
    BY <2>2, FreeTasked DEF FreshInv
  <2> QED
    BY <2>1, <2>3 DEF FreshInv, Fresh, ReportFresh
<1>4. CASE RestartReporting
  <2>1. Fresh(NoCache)
    BY ReportingAssumption DEF Fresh, NoCache
  <2>2. UNCHANGED time /\ report' = NoReport
    BY <1>4 DEF RestartReporting
  <2>3. DOMAIN cache' = Keys /\ \A k \in Keys : cache'[k] = NoCache
    BY <1>4 DEF RestartReporting
  <2>4. DOMAIN tasks' = Tasks /\ \A t \in Tasks : tasks'[t] = Free
    BY <1>4 DEF RestartReporting
  <2>5. ReportFresh'
    BY <2>2 DEF ReportFresh, NoReport
  <2> QED
    BY <2>1, <2>2, <2>3, <2>4, <2>5, FreeTasked DEF FreshInv
<1>5. ASSUME NEW t \in Callers, NEW w \in DOMAIN workflows, RunWorkflow(t, w) PROVE FreshInv'
  <2>1. tasks' = [tasks EXCEPT ![t] = Run(w)] /\ UNCHANGED <<time, cache, report>>
    BY <1>5 DEF RunWorkflow
  <2>2. DOMAIN tasks' = Tasks /\ \A u \in Tasks : Tasked(tasks'[u])
    BY <2>1, FreeTasked DEF FreshInv
  <2> QED
    BY <2>1, <2>2 DEF FreshInv, Fresh, ReportFresh
<1>6. ASSUME NEW t \in Callers, NEW k \in Keys, AskReport(t, k) PROVE FreshInv'
  <2> DEFINE x == [Free EXCEPT !.at = "waiting", !.since = time,
                               !.step = [NoStep EXCEPT !.type = "data_quality_lineage", !.key = k]]
  <2>1. UNCHANGED <<time, cache>>
    BY <1>6 DEF AskReport
  <2>2. Tasked(x)
    BY DEF FreshInv, Tasked, TaskFields, Free
  <2>3. CASE Cached(k)
    <3>1. UNCHANGED tasks /\ ReportFresh'
      BY <1>6, <2>3, CachedFresh DEF AskReport
    <3> QED
      BY <2>1, <3>1 DEF FreshInv, Fresh
  <2>4. CASE ~Cached(k)
    <3>1. tasks' = [tasks EXCEPT ![t] = x] /\ UNCHANGED report
      BY <1>6, <2>4 DEF AskReport
    <3>2. DOMAIN tasks' = Tasks /\ \A u \in Tasks : Tasked(tasks'[u])
      <4> HIDE DEF x
      <4> QED
        BY <2>2, <3>1 DEF FreshInv
    <3> QED
      BY <2>1, <3>1, <3>2 DEF FreshInv, Fresh, ReportFresh
  <2> QED
    BY <2>3, <2>4
<1>7. ASSUME NEW t \in Tasks, Step(t) PROVE FreshInv'
  BY <1>7, StepFresh
<1>8. ASSUME NEW t \in Tasks, EndPass(t) \/ HttpAnswered(t) PROVE FreshInv'
  <2> DEFINE y == [tasks[t] EXCEPT !.pass = tasks[t].pending, !.progress = FALSE]
  <2>1. UNCHANGED <<time, cache, report>>
    BY <1>8 DEF EndPass, HttpAnswered
  <2>2. \/ \E ended : Finish(t, ended)
        \/ tasks' = [tasks EXCEPT ![t].pass = tasks[t].pending, ![t].progress = FALSE]
        \/ tasks' = [tasks EXCEPT ![t] = Executed(tasks[t], tasks[t].step)]
    BY <1>8 DEF EndPass, HttpAnswered
  <2>3. Tasked(tasks[t]) /\ Tasked(Executed(tasks[t], tasks[t].step))
    BY ExecutedTasked DEF FreshInv
  <2>4. DOMAIN tasks' = Tasks /\ \A u \in Tasks : Tasked(tasks'[u])
    <3>1. CASE \E ended : Finish(t, ended)
      BY <3>1, FinishTasked
    <3>2. CASE tasks' = [tasks EXCEPT ![t].pass = tasks[t].pending, ![t].progress = FALSE]
      BY <2>3, <3>2 DEF FreshInv, Tasked, TaskFields
    <3>3. CASE tasks' = [tasks EXCEPT ![t] = Executed(tasks[t], tasks[t].step)]
      BY <2>3, <3>3 DEF FreshInv
    <3> QED
      BY <2>2, <3>1, <3>2, <3>3
  <2> QED
    BY <2>1, <2>4 DEF FreshInv, Fresh, ReportFresh
<1>9. ASSUME NEW t \in Tasks, Fetched(t) PROVE FreshInv'
  <2>1. PICK asOf \in tasks[t].since..time :
          /\ cache' = Stored(tasks[t].step.key, tasks[t].since, asOf)
          /\ Report(asOf, tasks[t].since)
    BY <1>9 DEF Fetched
  <2>2. tasks[t].since \in Int /\ time \in Int /\ CacheTtl \in Int
    BY ReportingAssumption DEF FreshInv, Tasked
  <2>3. asOf \in Int /\ tasks[t].since <= asOf
    BY <2>2
  <2> DEFINE e == [since |-> tasks[t].since, asOf |-> asOf, expires |-> tasks[t].since + CacheTtl]
  <2>4. Fresh(e)
    BY <2>2, <2>3 DEF Fresh
  <2>5. cache' = [cache EXCEPT ![tasks[t].step.key] = e]
    BY <2>1 DEF Stored
  <2>6. DOMAIN cache' = Keys /\ \A k \in Keys : Fresh(cache'[k])
    <3> HIDE DEF e
    <3> QED
      BY <2>4, <2>5 DEF FreshInv
  <2>7. ReportFresh'
    BY <2>1, <2>3 DEF Report, ReportFresh
  <2>8. DOMAIN tasks' = Tasks /\ \A u \in Tasks : Tasked(tasks'[u])
    BY <1>9, ReportedTasked DEF Fetched
  <2>9. UNCHANGED time
    BY <1>9 DEF Fetched
  <2> QED
    BY <2>6, <2>7, <2>8, <2>9 DEF FreshInv
<1>10. ASSUME NEW t \in Tasks, FetchFails(t) PROVE FreshInv'
  <2>1. DOMAIN tasks' = Tasks /\ \A u \in Tasks : Tasked(tasks'[u])
    BY <1>10, ReportedTasked DEF FetchFails
  <2>2. UNCHANGED <<time, cache, report>>
    BY <1>10 DEF FetchFails
  <2> QED
    BY <2>1, <2>2 DEF FreshInv, Fresh, ReportFresh
<1>11. CASE BeginPass \/ \E plan \in Plans : CreateWorkflow(plan)
  BY <1>2, <1>11 DEF BeginPass, CreateWorkflow
<1>12. CASE UNCHANGED reportingVars
  BY <1>2, <1>12 DEF reportingVars
<1> QED
  BY <1>1, <1>3, <1>4, <1>5, <1>6, <1>7, <1>8, <1>9, <1>10, <1>11, <1>12 DEF ReportingNext

\* The invariant below ReportFresh.
THEOREM FreshInvariant == ReportingSpec => []FreshInv
  BY InitFresh, NextFresh, PTL DEF ReportingSpec

\* A report's readings are never older than the cache's time to live, for any
\* number of tasks, workflows, keys and overtaking answers.
THEOREM ReportFreshHolds == ReportingSpec => []ReportFresh
<1>1. FreshInv => ReportFresh
  BY DEF FreshInv
<1> QED
  BY <1>1, FreshInvariant, PTL

-----------------------------------------------------------------------------
(* The steps that a run has still to execute *)

\* No two members have one id.
Distinct(q) == \A i, j \in DOMAIN q : i # j => q[i].id # q[j].id

IdsOf(q) == {x.id : x \in Elements(q)}

LEMMA AppendElements ==
  ASSUME NEW S, NEW q \in Seq(S), NEW x \in S
  PROVE  /\ Elements(Append(q, x)) = Elements(q) \union {x}
         /\ Distinct(q) /\ x.id \notin IdsOf(q) => Distinct(Append(q, x))
<1>1. /\ Append(q, x) \in Seq(S) /\ Len(q) \in Nat /\ DOMAIN q = 1..Len(q)
      /\ DOMAIN Append(q, x) = 1..Len(q) + 1
      /\ Append(q, x)[Len(q) + 1] = x
      /\ \A i \in 1..Len(q) : Append(q, x)[i] = q[i]
  BY AppendProperties, LenProperties
<1> QED
  BY <1>1 DEF Elements, Distinct, IdsOf

\* The recursion of Picked.
IsPicked(f, s, P) ==
  f = [n \in 0..Len(s) |->
         IF n = 0 THEN <<>> ELSE IF n \in P THEN Append(f[n - 1], s[n]) ELSE f[n - 1]]

LEMMA PickedExists ==
  ASSUME NEW S, NEW s \in Seq(S), NEW P
  PROVE  \E f : IsPicked(f, s, P)
<1> DEFINE Rec(f, m) ==
             f = [n \in 0..m |->
                    IF n = 0 THEN <<>> ELSE IF n \in P THEN Append(f[n - 1], s[n]) ELSE f[n - 1]]
           G == {m \in 0..Len(s) : \E f : Rec(f, m)}
<1>1. Len(s) \in Nat
  BY LenProperties
<1>2. 0 \in G
  <2> DEFINE f == [n \in 0..0 |-> <<>>]
  <2>1. Rec(f, 0)
    OBVIOUS
  <2>2. \E h : Rec(h, 0)
    BY <2>1
  <2>3. 0 \in 0..Len(s)
    BY <1>1
  <2> HIDE DEF Rec
  <2> QED
    BY <2>2, <2>3
<1>3. ASSUME NEW m \in 0..Len(s) - 1, m \in G PROVE m + 1 \in G
  <2>1. PICK f : Rec(f, m)
    BY <1>3
  <2> DEFINE g == [n \in 0..m + 1 |->
                     IF n = m + 1 THEN IF n \in P THEN Append(f[n - 1], s[n]) ELSE f[n - 1]
                     ELSE f[n]]
  <2>2. m \in Nat /\ m + 1 \in 0..Len(s)
    BY <1>1
  <2>3. \A n \in 0..m : g[n] = f[n]
    BY <2>2
  <2>4. ASSUME NEW n \in 0..m + 1
        PROVE  g[n] = IF n = 0 THEN <<>> ELSE IF n \in P THEN Append(g[n - 1], s[n]) ELSE g[n - 1]
    <3>1. CASE n = m + 1
      <4>1. n - 1 \in 0..m /\ n # 0
        BY <2>2, <3>1
      <4> QED
        BY <2>3, <3>1, <4>1
    <3>2. CASE n # m + 1
      <4>1. n \in 0..m /\ (n # 0 => n - 1 \in 0..m)
        BY <2>2, <3>2
      <4>2. f[n] = IF n = 0 THEN <<>> ELSE IF n \in P THEN Append(f[n - 1], s[n]) ELSE f[n - 1]
        BY <2>1, <4>1
      <4> QED
        BY <2>3, <4>1, <4>2
    <3> QED
      BY <3>1, <3>2
  <2>5. Rec(g, m + 1)
    <3> DEFINE h == [n \in 0..m + 1 |->
                       IF n = 0 THEN <<>> ELSE IF n \in P THEN Append(g[n - 1], s[n]) ELSE g[n - 1]]
    <3>1. g = h
      <4>1. DOMAIN g = 0..m + 1 /\ g = [n \in 0..m + 1 |-> g[n]]
        OBVIOUS
      <4> HIDE DEF g
      <4> QED
        BY <2>4, <4>1
    <3> QED
      BY <3>1
  <2> HIDE DEF g
  <2> QED
    BY <2>2, <2>5
<1>4. Len(s) \in G
  <2> HIDE DEF G
  <2>1. \A m \in 0..Len(s) - 1 : m \in G => m + 1 \in G
    BY <1>3
  <2>2. \A m \in 0..Len(s) : m \in G
    BY <1>1, <1>2, <2>1, CountInduction
  <2> QED
    BY <1>1, <2>2
<1> QED
  BY <1>4 DEF IsPicked

\* What is kept are the members at the places in P, each once.
LEMMA PickedProperties ==
  ASSUME NEW S, NEW s \in Seq(S), NEW P \in SUBSET DOMAIN s
  PROVE  /\ Picked(s, P) \in Seq(S)
         /\ Elements(Picked(s, P)) = {s[i] : i \in P}
         /\ (\A i, j \in P : i # j => s[i].id # s[j].id) => Distinct(Picked(s, P))
<1> DEFINE f == CHOOSE f : IsPicked(f, s, P)
           Apart == \A i, j \in P : i # j => s[i].id # s[j].id
           Upto(n) == {i \in P : i <= n}
           Good(q, n) == /\ q \in Seq(S)
                         /\ Elements(q) = {s[i] : i \in Upto(n)}
                         /\ Apart => Distinct(q)
           G == {n \in 0..Len(s) : Good(f[n], n)}
<1>1. Picked(s, P) = f[Len(s)]
  BY Zenon DEF Picked, IsPicked
<1>2. IsPicked(f, s, P)
  BY PickedExists
<1>3. Len(s) \in Nat /\ DOMAIN s = 1..Len(s) /\ P \subseteq 1..Len(s) /\ \A i \in 1..Len(s) : s[i] \in S
  BY LenProperties, ElementOfSeq
<1> HIDE DEF f
<1>4. \A n \in 0..Len(s) :
        f[n] = IF n = 0 THEN <<>> ELSE IF n \in P THEN Append(f[n - 1], s[n]) ELSE f[n - 1]
  BY <1>2 DEF IsPicked
<1>5. 0 \in G
  <2>1. 0 \in 0..Len(s) /\ f[0] = <<>>
    BY <1>3, <1>4
  <2>2. Upto(0) = {}
    BY <1>3
  <2>3. <<>> \in Seq(S) /\ Elements(<<>>) = {} /\ Distinct(<<>>)
    BY EmptySeq DEF Elements, Distinct
  <2> QED
    BY <2>1, <2>2, <2>3
<1>6. ASSUME NEW m \in 0..Len(s) - 1, m \in G PROVE m + 1 \in G
  <2>1. m \in Nat /\ m + 1 \in 1..Len(s) /\ m + 1 \in 0..Len(s) /\ (m + 1) - 1 = m
    BY <1>3
  <2>2. Good(f[m], m)
    BY <1>6
  <2>3. f[m + 1] = IF m + 1 \in P THEN Append(f[m], s[m + 1]) ELSE f[m]
    BY <1>4, <2>1
  <2>4. Upto(m + 1) = IF m + 1 \in P THEN Upto(m) \union {m + 1} ELSE Upto(m)
    BY <1>3, <2>1
  <2>5. CASE m + 1 \notin P
    BY <2>1, <2>2, <2>3, <2>4, <2>5
  <2>6. CASE m + 1 \in P
    <3> DEFINE q == f[m]
               x == s[m + 1]
    <3>1. q \in Seq(S) /\ x \in S /\ f[m + 1] = Append(q, x)
      BY <1>3, <2>1, <2>2, <2>3, <2>6
    <3>2. Elements(q) = {s[i] : i \in Upto(m)} /\ (Apart => Distinct(q))
      BY <2>2
    <3>3. {s[i] : i \in Upto(m + 1)} = {s[i] : i \in Upto(m)} \union {x}
      BY <2>4, <2>6
    <3>4. Apart => x.id \notin IdsOf(q)
      <4>1. \A i \in Upto(m) : i \in P /\ i # m + 1
        BY <1>3, <2>1
      <4> QED
        BY <2>6, <3>2, <4>1 DEF IdsOf
    <3> HIDE DEF q, x, Apart, Upto
    <3>5. /\ Append(q, x) \in Seq(S)
          /\ Elements(Append(q, x)) = Elements(q) \union {x}
          /\ Distinct(q) /\ x.id \notin IdsOf(q) => Distinct(Append(q, x))
      BY <3>1, AppendElements, AppendProperties
    <3>6. Good(f[m + 1], m + 1)
      BY <3>1, <3>2, <3>3, <3>4, <3>5
    <3> QED
      BY <2>1, <3>6
  <2> QED
    BY <2>5, <2>6
<1>7. Len(s) \in G
  <2> HIDE DEF G
  <2>1. \A m \in 0..Len(s) - 1 : m \in G => m + 1 \in G
    BY <1>6
  <2>2. \A m \in 0..Len(s) : m \in G
    BY <1>3, <1>5, <2>1, CountInduction
  <2> QED
    BY <1>3, <2>2
<1>8. Upto(Len(s)) = P
  BY <1>3
<1> HIDE DEF Upto
<1> QED
  BY <1>1, <1>7, <1>8

LEMMA WithoutProperties ==
  ASSUME NEW S, NEW q \in Seq(S), NEW id
  PROVE  /\ Without(q, id) \in Seq(S)
         /\ Elements(Without(q, id)) = {x \in Elements(q) : x.id # id}
         /\ Distinct(q) => Distinct(Without(q, id))
<1> DEFINE P == {i \in DOMAIN q : q[i].id # id}
<1>1. /\ Picked(q, P) \in Seq(S)
      /\ Elements(Picked(q, P)) = {q[i] : i \in P}
      /\ (\A i, j \in P : i # j => q[i].id # q[j].id) => Distinct(Picked(q, P))
  <2>1. P \in SUBSET DOMAIN q
    OBVIOUS
  <2> HIDE DEF P
  <2> QED
    BY <2>1, PickedProperties
<1>2. {q[i] : i \in P} = {x \in Elements(q) : x.id # id}
  BY DEF Elements
<1>3. Distinct(q) => \A i, j \in P : i # j => q[i].id # q[j].id
  BY DEF Distinct
<1>4. Without(q, id) = Picked(q, P)
  BY DEF Without
<1> HIDE DEF P
<1> QED
  BY <1>1, <1>2, <1>3, <1>4

\* The step that is meant has the id, and is one of the steps.
LEMMA MeantIsStep ==
  ASSUME NEW S, NEW steps \in Seq(S), NEW id \in IdsOf(steps)
  PROVE  Meant(steps, id) \in Elements(steps) /\ Meant(steps, id).id = id
<1> DEFINE N == {i \in DOMAIN steps : steps[i].id = id}
<1>1. Len(steps) \in Nat /\ DOMAIN steps = 1..Len(steps)
  BY LenProperties
<1>2. N \in SUBSET Int /\ N # {} /\ IsFiniteSet(N)
  <2>1. IsFiniteSet(1..Len(steps)) /\ N \subseteq 1..Len(steps)
    BY <1>1, FS_Interval
  <2>2. N # {}
    BY DEF IdsOf, Elements
  <2> HIDE DEF N
  <2>3. IsFiniteSet(N)
    BY <2>1, FS_Subset
  <2> QED
    BY <2>1, <2>2, <2>3
<1>3. PICK m \in N : \A i \in N : i <= m
  <2> HIDE DEF N
  <2> QED
    BY <1>2, Extremes
<1>4. m \in DOMAIN steps /\ steps[m].id = id /\ \A j \in DOMAIN steps : j > m => steps[j].id # id
  BY <1>1, <1>3
<1>5. \E i \in DOMAIN steps : steps[i].id = id /\ \A j \in DOMAIN steps : j > i => steps[j].id # id
  BY <1>4
<1> DEFINE i == CHOOSE i \in DOMAIN steps :
                  steps[i].id = id /\ \A j \in DOMAIN steps : j > i => steps[j].id # id
<1>6. i \in DOMAIN steps /\ steps[i].id = id
  BY <1>5
<1>7. Meant(steps, id) = steps[i]
  BY DEF Meant
<1> HIDE DEF i
<1> QED
  BY <1>6, <1>7 DEF Elements

\* A run has each id of the workflow once to execute, as it is meant.
LEMMA PendingProperties ==
  ASSUME NEW S, NEW steps \in Seq(S)
  PROVE  /\ PendingOf(steps) \in Seq(Elements(steps)) /\ Distinct(PendingOf(steps))
         /\ IdsOf(PendingOf(steps)) = IdsOf(steps)
         /\ \A x \in Elements(PendingOf(steps)) : x = Meant(steps, x.id)
<1> DEFINE m == [i \in DOMAIN steps |-> Meant(steps, steps[i].id)]
           P == {i \in DOMAIN steps : \A j \in 1..i - 1 : steps[j].id # steps[i].id}
<1>1. Len(steps) \in Nat /\ DOMAIN steps = 1..Len(steps)
  BY LenProperties
<1>2. \A i \in DOMAIN steps : m[i] \in Elements(steps) /\ m[i].id = steps[i].id
  <2>1. \A i \in DOMAIN steps : steps[i].id \in IdsOf(steps)
    BY DEF IdsOf, Elements
  <2> QED
    BY <2>1, MeantIsStep
<1>3. m \in Seq(Elements(steps)) /\ DOMAIN m = DOMAIN steps
  <2>1. m \in [1..Len(steps) -> Elements(steps)]
    BY <1>1, <1>2
  <2> HIDE DEF m
  <2>2. DOMAIN m = DOMAIN steps
    BY <1>1, <2>1
  <2> QED
    BY <1>1, <2>1, <2>2, SeqDef
<1>4. \A i, j \in P : i # j => m[i].id # m[j].id
  <2> SUFFICES ASSUME NEW i \in P, NEW j \in P, i # j PROVE steps[i].id # steps[j].id
    BY <1>2
  <2>1. i \in Nat /\ j \in Nat /\ i >= 1 /\ j >= 1 /\ (i \in 1..j - 1 \/ j \in 1..i - 1)
    BY <1>1
  <2> QED
    BY <2>1
<1>5. \A i \in DOMAIN steps : \E j \in P : steps[j].id = steps[i].id
  <2> SUFFICES ASSUME NEW i \in DOMAIN steps PROVE \E j \in P : steps[j].id = steps[i].id
    OBVIOUS
  <2> DEFINE N == {j \in DOMAIN steps : steps[j].id = steps[i].id}
  <2>1. N \in SUBSET Int /\ N # {} /\ IsFiniteSet(N)
    <3>1. IsFiniteSet(1..Len(steps)) /\ N \subseteq 1..Len(steps) /\ i \in N
      BY <1>1, FS_Interval
    <3> HIDE DEF N
    <3>2. IsFiniteSet(N)
      BY <3>1, FS_Subset
    <3> QED
      BY <3>1, <3>2
  <2>2. PICK j \in N : \A k \in N : j <= k
    <3> HIDE DEF N
    <3> QED
      BY <2>1, Extremes
  <2>3. j \in P
    BY <1>1, <2>2
  <2> QED
    BY <2>2, <2>3
<1>6. PendingOf(steps) = Picked(m, P)
  BY DEF PendingOf
<1>7. P \in SUBSET DOMAIN m
  BY <1>3
<1>8. /\ Picked(m, P) \in Seq(Elements(steps)) /\ Distinct(Picked(m, P))
      /\ Elements(Picked(m, P)) = {m[i] : i \in P}
  <2> HIDE DEF m, P
  <2> QED
    BY <1>3, <1>4, <1>7, PickedProperties
<1>9. IdsOf(Picked(m, P)) = IdsOf(steps)
  <2>1. IdsOf(Picked(m, P)) = {m[i].id : i \in P}
    <3> HIDE DEF m, P
    <3> QED
      BY <1>8 DEF IdsOf
  <2>2. {m[i].id : i \in P} = {steps[i].id : i \in P}
    BY <1>2
  <2>3. {steps[i].id : i \in P} = {steps[i].id : i \in DOMAIN steps}
    <3>1. P \subseteq DOMAIN steps
      OBVIOUS
    <3> HIDE DEF P
    <3>2. {steps[i].id : i \in P} \subseteq {steps[i].id : i \in DOMAIN steps}
      BY <3>1
    <3>3. ASSUME NEW i \in DOMAIN steps PROVE steps[i].id \in {steps[j].id : j \in P}
      <4>1. PICK j \in P : steps[j].id = steps[i].id
        BY <1>5
      <4> QED
        BY <4>1
    <3> QED
      BY <3>2, <3>3
  <2>4. IdsOf(steps) = {steps[i].id : i \in DOMAIN steps}
    BY DEF IdsOf, Elements
  <2> QED
    BY <2>1, <2>2, <2>3, <2>4
<1>10. ASSUME NEW x \in Elements(Picked(m, P)) PROVE x = Meant(steps, x.id)
  <2>1. PICK i \in P : x = m[i]
    <3> HIDE DEF m, P
    <3> QED
      BY <1>8
  <2> QED
    BY <1>2, <2>1
<1> HIDE DEF m, P
<1> QED
  BY <1>6, <1>8, <1>9, <1>10

-----------------------------------------------------------------------------
(* The runs of workflows *)

\* Each is executed once, after all that it depends on.
Order(steps, executed) ==
  \A i \in DOMAIN executed :
    /\ \A j \in DOMAIN executed : i # j => executed[i] # executed[j]
    /\ Meant(steps, executed[i]).after \subseteq {executed[j] : j \in 1..i - 1}

\* What is pending and what is executed are the workflow's steps, apart; what
\* is left of a pass is pending.
RunOK(steps, pending, pass, executed) ==
  /\ pending \in Seq(Elements(steps)) /\ pass \in Seq(Elements(steps))
  /\ Distinct(pending) /\ Distinct(pass) /\ IdsOf(pass) \subseteq IdsOf(pending)
  /\ \A x \in Elements(pending) \union Elements(pass) : x = Meant(steps, x.id)
  /\ executed \in Seq(IdsOf(steps)) /\ Order(steps, executed)
  /\ IdsOf(pending) \intersect Elements(executed) = {}
  /\ IdsOf(pending) \union Elements(executed) = IdsOf(steps)

\* A step that a task waits for.
Chosen(steps, step, pending, pass, executed) ==
  /\ step = Meant(steps, step.id)
  /\ step.id \in IdsOf(pending) /\ step.id \notin IdsOf(pass)
  /\ step.after \subseteq Elements(executed)

LEMMA RunStarts ==
  ASSUME NEW S, NEW steps \in Seq(S)
  PROVE  RunOK(steps, PendingOf(steps), PendingOf(steps), <<>>)
<1>1. <<>> \in Seq(IdsOf(steps)) /\ Elements(<<>>) = {} /\ Order(steps, <<>>)
  BY EmptySeq DEF Elements, Order
<1> QED
  BY <1>1, PendingProperties DEF RunOK

LEMMA NextPass ==
  ASSUME NEW steps, NEW pending, NEW pass, NEW executed, RunOK(steps, pending, pass, executed)
  PROVE  RunOK(steps, pending, pending, executed)
  BY DEF RunOK

\* The rest of a pass after one of its members.
LEMMA RestOfPass ==
  ASSUME NEW S, NEW q \in Seq(S), Distinct(q), NEW i \in DOMAIN q
  PROVE  LET rest == SubSeq(q, i + 1, Len(q))
         IN /\ rest \in Seq(S) /\ Distinct(rest)
            /\ Elements(rest) \subseteq Elements(q) /\ q[i].id \notin IdsOf(rest)
<1> DEFINE rest == SubSeq(q, i + 1, Len(q))
<1>1. Len(q) \in Nat /\ DOMAIN q = 1..Len(q) /\ i \in 1..Len(q) /\ \A j \in 1..Len(q) : q[j] \in S
  BY LenProperties, ElementOfSeq
<1>2. /\ rest \in Seq(S) /\ DOMAIN rest = 1..Len(q) - i
      /\ \A j \in 1..Len(q) - i : rest[j] = q[i + j]
  <2>1. /\ SubSeq(q, i + 1, Len(q)) \in Seq(S)
        /\ Len(SubSeq(q, i + 1, Len(q))) = IF i + 1 <= Len(q) THEN Len(q) - (i + 1) + 1 ELSE 0
        /\ \A j \in 1..Len(q) - (i + 1) + 1 : SubSeq(q, i + 1, Len(q))[j] = q[i + 1 + j - 1]
    BY <1>1, SubSeqProperties
  <2>2. Len(rest) = Len(q) - i /\ DOMAIN rest = 1..Len(rest)
    BY <1>1, <2>1, LenProperties
  <2>3. Len(q) - (i + 1) + 1 = Len(q) - i /\ \A j \in Int : i + 1 + j - 1 = i + j
    BY <1>1
  <2>4. \A j \in 1..Len(q) - i : j \in Int /\ rest[j] = q[i + 1 + j - 1]
    <3>1. \A j \in 1..Len(q) - (i + 1) + 1 : rest[j] = q[i + 1 + j - 1]
      BY <2>1, Zenon
    <3> HIDE DEF rest
    <3> QED
      BY <1>1, <2>3, <3>1
  <2>5. \A j \in 1..Len(q) - i : rest[j] = q[i + j]
    <3> HIDE DEF rest
    <3> QED
      BY <2>3, <2>4
  <2> HIDE DEF rest
  <2>6. rest \in Seq(S)
    BY <2>1 DEF rest
  <2> QED
    BY <2>2, <2>5, <2>6
<1> HIDE DEF rest
<1>3. \A j \in DOMAIN rest : i + j \in DOMAIN q /\ i + j # i /\ rest[j] = q[i + j]
  BY <1>1, <1>2
<1>4. Elements(rest) \subseteq Elements(q)
  BY <1>3 DEF Elements
<1>5. Distinct(rest)
  <2> SUFFICES ASSUME NEW j \in DOMAIN rest, NEW k \in DOMAIN rest, j # k
               PROVE  rest[j].id # rest[k].id
    BY DEF Distinct
  <2>1. i + j # i + k
    BY <1>1, <1>2
  <2> QED
    BY <1>3, <2>1 DEF Distinct
<1>6. q[i].id \notin IdsOf(rest)
  BY <1>3 DEF IdsOf, Elements, Distinct
<1> QED
  BY <1>2, <1>4, <1>5, <1>6 DEF rest

LEMMA PassShrinks ==
  ASSUME NEW steps, NEW pending, NEW pass, NEW executed, RunOK(steps, pending, pass, executed),
         NEW i \in DOMAIN pass, pass[i].after \subseteq Elements(executed)
  PROVE  /\ RunOK(steps, pending, SubSeq(pass, i + 1, Len(pass)), executed)
         /\ Chosen(steps, pass[i], pending, SubSeq(pass, i + 1, Len(pass)), executed)
<1> DEFINE rest == SubSeq(pass, i + 1, Len(pass))
<1>1. /\ rest \in Seq(Elements(steps)) /\ Distinct(rest)
      /\ Elements(rest) \subseteq Elements(pass) /\ pass[i].id \notin IdsOf(rest)
  BY RestOfPass DEF RunOK
<1>2. pass[i] \in Elements(pass) /\ pass[i].id \in IdsOf(pass)
  BY DEF Elements, IdsOf
<1> HIDE DEF rest
<1>3. IdsOf(rest) \subseteq IdsOf(pass)
  BY <1>1 DEF IdsOf
<1>4. RunOK(steps, pending, rest, executed)
  BY <1>1, <1>3 DEF RunOK
<1>5. Chosen(steps, pass[i], pending, rest, executed)
  BY <1>1, <1>2 DEF RunOK, Chosen
<1> QED
  BY <1>4, <1>5 DEF rest

LEMMA RunExecutes ==
  ASSUME NEW steps, NEW pending, NEW pass, NEW executed, RunOK(steps, pending, pass, executed),
         NEW x, Chosen(steps, x, pending, pass, executed)
  PROVE  RunOK(steps, Without(pending, x.id), pass, Append(executed, x.id))
<1> DEFINE left == Without(pending, x.id)
           done == Append(executed, x.id)
<1>1. /\ pending \in Seq(Elements(steps)) /\ executed \in Seq(IdsOf(steps)) /\ Distinct(pending)
      /\ x.id \in IdsOf(steps)
  BY DEF RunOK, Chosen
<1>2. /\ left \in Seq(Elements(steps)) /\ Distinct(left)
      /\ Elements(left) = {y \in Elements(pending) : y.id # x.id}
  BY <1>1, WithoutProperties
<1>3. IdsOf(left) = IdsOf(pending) \ {x.id}
  <2> HIDE DEF left
  <2> QED
    BY <1>2 DEF IdsOf
<1>4. /\ done \in Seq(IdsOf(steps)) /\ Len(executed) \in Nat /\ DOMAIN executed = 1..Len(executed)
      /\ DOMAIN done = 1..Len(executed) + 1 /\ done[Len(executed) + 1] = x.id
      /\ \A i \in 1..Len(executed) : done[i] = executed[i]
  BY <1>1, AppendProperties, LenProperties
<1> HIDE DEF left, done
<1>5. Elements(done) = Elements(executed) \union {x.id}
  BY <1>4 DEF Elements
<1>6. Order(steps, done)
  <2> SUFFICES ASSUME NEW i \in DOMAIN done
               PROVE  /\ \A j \in DOMAIN done : i # j => done[i] # done[j]
                      /\ Meant(steps, done[i]).after \subseteq {done[j] : j \in 1..i - 1}
    BY DEF Order
  <2>0. x.id \notin Elements(executed)
    BY DEF RunOK, Chosen
  <2>1. \A j \in 1..Len(executed) : executed[j] # x.id
    BY <1>4, <2>0 DEF Elements
  <2>2. CASE i = Len(executed) + 1
    <3>1. {done[j] : j \in 1..i - 1} = Elements(executed)
      BY <1>4, <2>2 DEF Elements
    <3>2. Meant(steps, done[i]) = x
      BY <1>4, <2>2 DEF Chosen
    <3> QED
      BY <1>4, <2>1, <2>2, <3>1, <3>2 DEF Chosen
  <2>3. CASE i # Len(executed) + 1
    <3>1. i \in 1..Len(executed)
      BY <1>4, <2>3
    <3>2. {done[j] : j \in 1..i - 1} = {executed[j] : j \in 1..i - 1}
      BY <1>4, <3>1
    <3>3. /\ \A j \in DOMAIN executed : i # j => executed[i] # executed[j]
          /\ Meant(steps, executed[i]).after \subseteq {executed[j] : j \in 1..i - 1}
      BY <1>4, <3>1 DEF RunOK, Order
    <3> QED
      BY <1>4, <2>1, <3>1, <3>2, <3>3
  <2> QED
    BY <2>2, <2>3
<1>7. IdsOf(pass) \subseteq IdsOf(left)
  BY <1>3 DEF RunOK, Chosen
<1>8. \A y \in Elements(left) \union Elements(pass) : y = Meant(steps, y.id)
  BY <1>2 DEF RunOK
<1>9. IdsOf(left) \intersect Elements(done) = {} /\ IdsOf(left) \union Elements(done) = IdsOf(steps)
  BY <1>3, <1>5 DEF RunOK, Chosen
<1>10. pass \in Seq(Elements(steps)) /\ Distinct(pass)
  BY DEF RunOK
<1> QED
  BY <1>2, <1>4, <1>6, <1>7, <1>8, <1>9, <1>10 DEF RunOK, left, done

\* All of a workflow's steps are executed when none is pending.
LEMMA AllExecuted ==
  ASSUME NEW steps, NEW pending, NEW pass, NEW executed, RunOK(steps, pending, pass, executed)
  PROVE  Elements(executed) = IdsOf(steps) <=> pending = <<>>
<1>1. pending = <<>> <=> IdsOf(pending) = {}
  <2>1. pending = <<>> => IdsOf(pending) = {}
    BY DEF IdsOf, Elements
  <2>2. pending # <<>> => 1 \in DOMAIN pending
    BY EmptySeq, LenProperties DEF RunOK
  <2>3. 1 \in DOMAIN pending => pending[1].id \in IdsOf(pending)
    BY DEF IdsOf, Elements
  <2> QED
    BY <2>1, <2>2, <2>3
<1> QED
  BY <1>1 DEF RunOK

StepsOf(wfs, w) == wfs[w].plan.steps

\* A task with a run follows its workflow; one without waits for a report.
TaskOK(x, wfs) ==
  /\ DOMAIN x = TaskFields /\ x.since \in Int
  /\ x.at \in {"free", "running", "waiting"} /\ x.wf \in 0..Len(wfs)
  /\ x.wf = 0 => x.at = "free" \/ (x.at = "waiting" /\ x.step.type = "data_quality_lineage")
  /\ x.wf # 0 =>
       /\ RunOK(StepsOf(wfs, x.wf), x.pending, x.pass, x.executed)
       /\ x.at = "waiting" => Chosen(StepsOf(wfs, x.wf), x.step, x.pending, x.pass, x.executed)

StepIdsOf == UNION {IdsOf(plan.steps) : plan \in Plans}

RecordOK(steps, r) ==
  /\ Order(steps, r.executed)
  /\ r.status = "success" <=> Elements(r.executed) = IdsOf(steps)

RecordsOf(wfs) ==
  {r \in [wf : 1..Len(wfs), status : {"success", "failed"}, executed : Seq(StepIdsOf)] :
     RecordOK(StepsOf(wfs, r.wf), r)}

Workflow == [plan : Plans, stamp : Int]

CacheOK(c, now) == \A k \in Keys : c[k].since <= c[k].asOf /\ c[k].asOf <= now

RunsInv ==
  /\ FreshInv
  /\ time \in 0..MaxTime
  /\ workflows \in Seq(Workflow) /\ Len(workflows) <= MaxWorkflows
  /\ iteration \in [at : {"asleep", "passing"}, now : 0..MaxTime, next : Nat \ {0}, size : Nat]
  /\ \A t \in Tasks : TaskOK(tasks[t], workflows)
  /\ runs \in Seq(RecordsOf(workflows))
  /\ CacheOK(cache, time)

LEMMA StepsTyped ==
  ASSUME NEW wfs \in Seq(Workflow), NEW w \in 1..Len(wfs)
  PROVE  /\ wfs[w].plan \in Plans /\ wfs[w].stamp \in Int
         /\ StepsOf(wfs, w) \in Seq(Elements(StepsOf(wfs, w)))
         /\ IdsOf(StepsOf(wfs, w)) \subseteq StepIdsOf
<1>1. wfs[w] \in Workflow
  BY ElementOfSeq
<1>2. wfs[w].plan \in Plans /\ wfs[w].stamp \in Int
  BY <1>1 DEF Workflow
<1> QED
  BY <1>2, PlansAssumption DEF StepsOf, StepIdsOf

\* No workflow is taken away or gets another plan.
Grown(old, new) ==
  /\ old \in Seq(Workflow) /\ new \in Seq(Workflow) /\ Len(old) <= Len(new)
  /\ \A w \in 1..Len(old) : new[w].plan = old[w].plan

LEMMA GrownKeeps ==
  ASSUME NEW old, NEW new, Grown(old, new)
  PROVE  /\ \A x : TaskOK(x, old) => TaskOK(x, new)
         /\ RecordsOf(old) \subseteq RecordsOf(new)
<1>1. Len(old) \in Nat /\ Len(new) \in Nat /\ Len(old) <= Len(new)
  BY LenProperties DEF Grown
<1>2. \A w \in 1..Len(old) : StepsOf(new, w) = StepsOf(old, w)
  BY DEF Grown, StepsOf
<1>3. ASSUME NEW x, TaskOK(x, old) PROVE TaskOK(x, new)
  <2>1. x.wf \in 0..Len(new) /\ (x.wf # 0 => StepsOf(new, x.wf) = StepsOf(old, x.wf))
    BY <1>1, <1>2, <1>3 DEF TaskOK
  <2> QED
    BY <1>3, <2>1 DEF TaskOK
<1>4. ASSUME NEW r \in RecordsOf(old) PROVE r \in RecordsOf(new)
  <2>1. /\ r \in [wf : 1..Len(old), status : {"success", "failed"}, executed : Seq(StepIdsOf)]
        /\ RecordOK(StepsOf(old, r.wf), r)
    BY DEF RecordsOf
  <2>2. r.wf \in 1..Len(old) /\ 1..Len(old) \subseteq 1..Len(new)
    BY <1>1, <2>1
  <2>3. r \in [wf : 1..Len(new), status : {"success", "failed"}, executed : Seq(StepIdsOf)]
    BY <2>1, <2>2
  <2>4. RecordOK(StepsOf(new, r.wf), r)
    BY <1>2, <2>1, <2>2
  <2> QED
    BY <2>3, <2>4 DEF RecordsOf
<1> QED
  BY <1>3, <1>4

LEMMA ExecutedFields ==
  ASSUME NEW x, DOMAIN x = TaskFields, NEW s
  PROVE  LET y == Executed(x, s)
         IN /\ DOMAIN y = TaskFields /\ y.at = "running" /\ y.wf = x.wf /\ y.since = x.since
            /\ y.pending = Without(x.pending, s.id) /\ y.pass = x.pass
            /\ y.executed = Append(x.executed, s.id)
  BY DEF Executed, TaskFields

LEMMA ExecutedOK ==
  ASSUME NEW wfs, NEW x, TaskOK(x, wfs), x.wf # 0, NEW s,
         Chosen(StepsOf(wfs, x.wf), s, x.pending, x.pass, x.executed)
  PROVE  TaskOK(Executed(x, s), wfs)
<1> DEFINE y == Executed(x, s)
           steps == StepsOf(wfs, x.wf)
<1>1. /\ DOMAIN y = TaskFields /\ y.at = "running" /\ y.wf = x.wf /\ y.since = x.since
      /\ y.pending = Without(x.pending, s.id) /\ y.pass = x.pass
      /\ y.executed = Append(x.executed, s.id)
  BY ExecutedFields DEF TaskOK
<1>2. RunOK(steps, Without(x.pending, s.id), x.pass, Append(x.executed, s.id))
  BY RunExecutes DEF TaskOK
<1> HIDE DEF y
<1>3. RunOK(StepsOf(wfs, y.wf), y.pending, y.pass, y.executed)
  BY <1>1, <1>2
<1> QED
  BY <1>1, <1>3 DEF TaskOK, y

LEMMA FreeOK ==
  ASSUME NEW wfs \in Seq(Workflow) PROVE TaskOK(Free, wfs)
  BY LenProperties DEF TaskOK, Free, TaskFields

LEMMA RunTaskOK ==
  ASSUME workflows \in Seq(Workflow), NEW w \in 1..Len(workflows)
  PROVE  TaskOK(Run(w), workflows)
<1> DEFINE x == Run(w)
           steps == StepsOf(workflows, w)
<1>1. Len(workflows) \in Nat
  BY LenProperties
<1>2. /\ DOMAIN x = TaskFields /\ x.since = 0 /\ x.at = "running" /\ x.wf = w
      /\ x.pending = PendingOf(steps) /\ x.pass = PendingOf(steps) /\ x.executed = <<>>
  BY DEF Run, Free, TaskFields, StepsOf
<1>3. RunOK(steps, PendingOf(steps), PendingOf(steps), <<>>)
  BY StepsTyped, RunStarts
<1> HIDE DEF x
<1> QED
  BY <1>1, <1>2, <1>3 DEF TaskOK, x

\* A step of one task, whatever it records.
LEMMA MoveKeeps ==
  ASSUME RunsInv, FreshInv', UNCHANGED <<time, workflows, iteration>>, NEW t \in Tasks,
         NEW y, TaskOK(y, workflows), tasks' = [tasks EXCEPT ![t] = y],
         runs' \in Seq(RecordsOf(workflows)), CacheOK(cache', time)
  PROVE  RunsInv'
<1>1. DOMAIN tasks = Tasks
  BY DEF RunsInv, FreshInv
<1>2. \A u \in Tasks : tasks'[u] = IF u = t THEN y ELSE tasks[u]
  BY <1>1
<1>3. ASSUME NEW u \in Tasks PROVE TaskOK(tasks'[u], workflows)
  <2>1. TaskOK(tasks[u], workflows)
    BY DEF RunsInv
  <2> QED
    BY <1>2, <2>1
<1>4. \A u \in Tasks : TaskOK(tasks[u], workflows)'
  BY <1>3
<1>5. (runs \in Seq(RecordsOf(workflows)))' /\ CacheOK(cache, time)'
  BY DEF RecordsOf, CacheOK
<1> QED
  BY <1>4, <1>5 DEF RunsInv

\* A run that ends is recorded as a success when none of its steps is pending.
LEMMA FinishKeeps ==
  ASSUME RunsInv, FreshInv', UNCHANGED <<time, workflows, iteration, cache>>, NEW t \in Tasks,
         tasks[t].wf # 0, NEW ended \in {"success", "failed"}, Finish(t, ended),
         ended = "success" <=> tasks[t].pending = <<>>
  PROVE  RunsInv'
<1> DEFINE x == tasks[t]
           steps == StepsOf(workflows, x.wf)
           r == [wf |-> x.wf, status |-> ended, executed |-> x.executed]
<1>1. TaskOK(x, workflows) /\ workflows \in Seq(Workflow) /\ Len(workflows) \in Nat
  BY LenProperties DEF RunsInv
<1>2. x.wf \in 1..Len(workflows) /\ RunOK(steps, x.pending, x.pass, x.executed)
  BY <1>1 DEF TaskOK
<1>3. IdsOf(steps) \subseteq StepIdsOf
  BY <1>1, <1>2, StepsTyped
<1>4. x.executed \in Seq(StepIdsOf) /\ Order(steps, x.executed)
  <2>1. x.executed \in Seq(IdsOf(steps)) /\ Order(steps, x.executed)
    BY <1>2 DEF RunOK
  <2> HIDE DEF steps, x
  <2> QED
    BY <1>3, <2>1, SeqMonotonic
<1>5. Elements(x.executed) = IdsOf(steps) <=> x.pending = <<>>
  BY <1>2, AllExecuted
<1>6. r \in RecordsOf(workflows)
  <2>1. r.wf = x.wf /\ r.status = ended /\ r.executed = x.executed
    OBVIOUS
  <2>2. r \in [wf : 1..Len(workflows), status : {"success", "failed"}, executed : Seq(StepIdsOf)]
    BY <1>2, <1>4
  <2> HIDE DEF r
  <2>3. RecordOK(StepsOf(workflows, r.wf), r)
    BY <1>4, <1>5, <2>1 DEF RecordOK
  <2> QED
    BY <2>2, <2>3 DEF RecordsOf
<1>7. runs' = Append(runs, r) /\ tasks' = [tasks EXCEPT ![t] = Free]
  BY DEF Finish
<1> HIDE DEF r
<1>8. runs' \in Seq(RecordsOf(workflows))
  <2>1. runs \in Seq(RecordsOf(workflows))
    BY DEF RunsInv
  <2> QED
    BY <1>6, <1>7, <2>1, AppendProperties
<1>9. CacheOK(cache', time)
  BY DEF RunsInv
<1> QED
  BY <1>1, <1>7, <1>8, <1>9, FreeOK, MoveKeeps

LEMMA ReadyChosen ==
  ASSUME RunsInv, NEW t \in Tasks, tasks[t].at = "running", NEW i \in Ready(t)
  PROVE  LET x == tasks[t]
             s == x.pass[i]
             task == [x EXCEPT !.pass = SubSeq(@, i + 1, Len(@))]
         IN /\ x.wf # 0 /\ task.wf = x.wf /\ TaskOK(task, workflows)
            /\ Chosen(StepsOf(workflows, x.wf), s, task.pending, task.pass, task.executed)
            /\ x.pending # <<>>
<1> DEFINE x == tasks[t]
           s == x.pass[i]
           rest == SubSeq(x.pass, i + 1, Len(x.pass))
           task == [x EXCEPT !.pass = SubSeq(@, i + 1, Len(@))]
           steps == StepsOf(workflows, x.wf)
<1>1. TaskOK(x, workflows) /\ x.wf # 0
  BY DEF RunsInv, TaskOK
<1>2. RunOK(steps, x.pending, x.pass, x.executed) /\ DOMAIN x = TaskFields
  BY <1>1 DEF TaskOK
<1>3. i \in DOMAIN x.pass /\ s.after \subseteq Elements(x.executed)
  BY DEF Ready
<1>4. RunOK(steps, x.pending, rest, x.executed) /\ Chosen(steps, s, x.pending, rest, x.executed)
  BY <1>2, <1>3, PassShrinks
<1>5. /\ DOMAIN task = TaskFields /\ task.at = "running" /\ task.wf = x.wf /\ task.since = x.since
      /\ task.pending = x.pending /\ task.pass = rest /\ task.executed = x.executed
  BY <1>2 DEF TaskFields
<1>6. x.pending # <<>>
  BY <1>4 DEF Chosen, IdsOf, Elements
<1> HIDE DEF task, rest
<1>7. TaskOK(task, workflows)
  <2>1. RunOK(StepsOf(workflows, task.wf), task.pending, task.pass, task.executed)
    BY <1>4, <1>5
  <2>2. x.since \in Int /\ x.wf \in 0..Len(workflows)
    BY <1>1 DEF TaskOK
  <2> HIDE DEF x
  <2> QED
    BY <1>1, <1>5, <2>1, <2>2 DEF TaskOK
<1>8. Chosen(steps, s, task.pending, task.pass, task.executed)
  BY <1>4, <1>5
<1> QED
  BY <1>1, <1>5, <1>6, <1>7, <1>8 DEF task

LEMMA StepRuns ==
  ASSUME RunsInv, FreshInv', NEW t \in Tasks, Step(t) PROVE RunsInv'
<1> DEFINE i == CHOOSE i \in Ready(t) : \A j \in Ready(t) : i <= j
           s == tasks[t].pass[i]
           task == [tasks[t] EXCEPT !.pass = SubSeq(@, i + 1, Len(@))]
           waiting == [task EXCEPT !.at = "waiting", !.step = s, !.since = time]
<1>1. i \in Ready(t)
  <2>1. TaskOK(tasks[t], workflows) /\ tasks[t].wf # 0
    BY DEF RunsInv, TaskOK, Step
  <2>2. tasks[t].pass \in Seq(Elements(StepsOf(workflows, tasks[t].wf)))
    BY <2>1 DEF TaskOK, RunOK
  <2>3. DOMAIN tasks[t].pass = 1..Len(tasks[t].pass) /\ Len(tasks[t].pass) \in Nat
    BY <2>2, LenProperties
  <2>4. Ready(t) \subseteq 1..Len(tasks[t].pass) /\ Ready(t) # {}
    <3>1. Ready(t) \subseteq DOMAIN tasks[t].pass
      BY DEF Ready
    <3>2. Ready(t) # {}
      BY DEF Step
    <3> QED
      BY <2>3, <3>1, <3>2
  <2>5. IsFiniteSet(1..Len(tasks[t].pass)) /\ 1..Len(tasks[t].pass) \subseteq Int
    BY <2>3, FS_Interval
  <2>6. Ready(t) \in SUBSET Int /\ IsFiniteSet(Ready(t))
    BY <2>4, <2>5, FS_Subset
  <2>7. \E m \in Ready(t) : \A j \in Ready(t) : m <= j
    BY <2>4, <2>6, Extremes
  <2> QED
    BY <2>7
<1>2. UNCHANGED <<time, workflows, iteration, cache>> /\ tasks[t].at = "running"
  BY DEF Step
<1>3. /\ tasks[t].wf # 0 /\ task.wf = tasks[t].wf /\ TaskOK(task, workflows)
      /\ Chosen(StepsOf(workflows, tasks[t].wf), s, task.pending, task.pass, task.executed)
      /\ tasks[t].pending # <<>>
  <2> HIDE DEF i
  <2> QED
    BY <1>1, <1>2, ReadyChosen
<1>4. \/ tasks' = [tasks EXCEPT ![t] = Executed(task, s)] /\ UNCHANGED runs
      \/ tasks' = [tasks EXCEPT ![t] = waiting] /\ UNCHANGED runs
      \/ Finish(t, "failed")
  BY DEF Step
<1> HIDE DEF i
<1>5. DOMAIN task = TaskFields /\ time \in Int
  BY <1>3 DEF TaskOK, RunsInv, FreshInv
<1> HIDE DEF s, task
<1>6. TaskOK(Executed(task, s), workflows)
  BY <1>3, ExecutedOK
<1>7. TaskOK(waiting, workflows)
  <2>1. /\ DOMAIN waiting = TaskFields /\ waiting.at = "waiting" /\ waiting.step = s
        /\ waiting.since = time /\ waiting.wf = task.wf /\ waiting.pending = task.pending
        /\ waiting.pass = task.pass /\ waiting.executed = task.executed
    BY <1>5 DEF TaskFields
  <2>2. /\ RunOK(StepsOf(workflows, task.wf), task.pending, task.pass, task.executed)
        /\ Chosen(StepsOf(workflows, task.wf), s, task.pending, task.pass, task.executed)
        /\ task.wf \in 0..Len(workflows) /\ task.wf # 0
    BY <1>3 DEF TaskOK
  <2> HIDE DEF waiting
  <2>3. /\ RunOK(StepsOf(workflows, waiting.wf), waiting.pending, waiting.pass, waiting.executed)
        /\ Chosen(StepsOf(workflows, waiting.wf), waiting.step, waiting.pending, waiting.pass, waiting.executed)
    BY <2>1, <2>2
  <2> QED
    BY <1>5, <2>1, <2>2, <2>3 DEF TaskOK
<1> HIDE DEF waiting
<1>8. runs \in Seq(RecordsOf(workflows)) /\ CacheOK(cache', time)
  BY <1>2 DEF RunsInv
<1>9. CASE tasks' = [tasks EXCEPT ![t] = Executed(task, s)] /\ UNCHANGED runs
  BY <1>2, <1>6, <1>8, <1>9, MoveKeeps
<1>10. CASE tasks' = [tasks EXCEPT ![t] = waiting] /\ UNCHANGED runs
  BY <1>2, <1>7, <1>8, <1>10, MoveKeeps
<1>11. CASE Finish(t, "failed")
  BY <1>2, <1>3, <1>11, FinishKeeps
<1> QED
  BY <1>4, <1>9, <1>10, <1>11

LEMMA EndPassRuns ==
  ASSUME RunsInv, FreshInv', NEW t \in Tasks, EndPass(t) PROVE RunsInv'
<1> DEFINE x == tasks[t]
           y == [x EXCEPT !.pass = x.pending, !.progress = FALSE]
<1>1. TaskOK(x, workflows) /\ x.at = "running" /\ x.wf # 0
  BY DEF RunsInv, TaskOK, EndPass
<1>2. UNCHANGED <<time, workflows, iteration, cache>>
  BY DEF EndPass
<1>3. runs \in Seq(RecordsOf(workflows)) /\ CacheOK(cache', time)
  BY <1>2 DEF RunsInv
<1>4. CASE x.pending = <<>>
  BY <1>1, <1>2, <1>4, FinishKeeps DEF EndPass
<1>5. CASE x.pending # <<>> /\ ~x.progress
  BY <1>1, <1>2, <1>5, FinishKeeps DEF EndPass
<1>6. CASE x.pending # <<>> /\ x.progress
  <2>1. tasks' = [tasks EXCEPT ![t] = y] /\ UNCHANGED runs
    <3>1. tasks' = [tasks EXCEPT ![t].pass = tasks[t].pending, ![t].progress = FALSE] /\ UNCHANGED runs
      BY <1>6 DEF EndPass
    <3>2. DOMAIN tasks = Tasks
      BY DEF RunsInv, FreshInv
    <3> QED
      BY <3>1, <3>2
  <2>2. /\ DOMAIN y = TaskFields /\ y.at = "running" /\ y.wf = x.wf /\ y.since = x.since
        /\ y.pending = x.pending /\ y.pass = x.pending /\ y.executed = x.executed
    BY <1>1 DEF TaskOK, TaskFields
  <2>3. RunOK(StepsOf(workflows, x.wf), x.pending, x.pending, x.executed)
    BY <1>1, NextPass DEF TaskOK
  <2>4. x.since \in Int /\ x.wf \in 0..Len(workflows)
    BY <1>1 DEF TaskOK
  <2> HIDE DEF y
  <2>5. RunOK(StepsOf(workflows, y.wf), y.pending, y.pass, y.executed)
    BY <2>2, <2>3
  <2> HIDE DEF x
  <2>6. TaskOK(y, workflows)
    BY <1>1, <2>2, <2>4, <2>5 DEF TaskOK
  <2> QED
    BY <1>2, <1>3, <2>1, <2>6, MoveKeeps
<1> QED
  BY <1>4, <1>5, <1>6

\* The task that waits has what it chose.
LEMMA AnsweredOK ==
  ASSUME RunsInv, NEW t \in Tasks, tasks[t].at = "waiting"
  PROVE  /\ tasks[t].wf # 0 => /\ TaskOK(Executed(tasks[t], tasks[t].step), workflows)
                               /\ tasks[t].pending # <<>>
         /\ tasks[t].wf = 0 => tasks[t].step.type = "data_quality_lineage"
<1> DEFINE x == tasks[t]
<1>1. TaskOK(x, workflows) /\ x.at = "waiting"
  BY DEF RunsInv
<1>2. x.wf # 0 => Chosen(StepsOf(workflows, x.wf), x.step, x.pending, x.pass, x.executed)
  BY <1>1 DEF TaskOK
<1>3. x.wf = 0 => x.step.type = "data_quality_lineage"
  BY <1>1 DEF TaskOK
<1>4. x.wf # 0 => x.pending # <<>>
  BY <1>2 DEF Chosen, IdsOf, Elements
<1> HIDE DEF x
<1>5. x.wf # 0 => TaskOK(Executed(x, x.step), workflows)
  BY <1>1, <1>2, ExecutedOK
<1> QED
  BY <1>3, <1>4, <1>5 DEF x

LEMMA AnswersRun ==
  ASSUME RunsInv, FreshInv', NEW t \in Tasks, HttpAnswered(t) \/ Fetched(t) \/ FetchFails(t)
  PROVE  RunsInv'
<1>1. UNCHANGED <<time, workflows, iteration>> /\ tasks[t].at = "waiting"
  BY DEF HttpAnswered, Fetched, FetchFails
<1>2. /\ tasks[t].wf # 0 => /\ TaskOK(Executed(tasks[t], tasks[t].step), workflows)
                            /\ tasks[t].pending # <<>>
      /\ tasks[t].wf = 0 => tasks[t].step.type = "data_quality_lineage"
  BY <1>1, AnsweredOK
<1>3. runs \in Seq(RecordsOf(workflows)) /\ CacheOK(cache, time) /\ workflows \in Seq(Workflow)
  BY DEF RunsInv
<1>4. CASE HttpAnswered(t)
  <2>1. tasks[t].wf # 0 /\ UNCHANGED cache
    BY <1>2, <1>4 DEF HttpAnswered
  <2>2. \/ tasks' = [tasks EXCEPT ![t] = Executed(tasks[t], tasks[t].step)] /\ UNCHANGED runs
        \/ Finish(t, "failed")
    BY <1>4 DEF HttpAnswered
  <2>3. CASE tasks' = [tasks EXCEPT ![t] = Executed(tasks[t], tasks[t].step)] /\ UNCHANGED runs
    BY <1>1, <1>2, <1>3, <2>1, <2>3, MoveKeeps
  <2>4. CASE Finish(t, "failed")
    BY <1>1, <1>2, <2>1, <2>4, FinishKeeps
  <2> QED
    BY <2>2, <2>3, <2>4
<1>5. CASE Fetched(t) \/ FetchFails(t)
  <2> DEFINE y == IF tasks[t].wf = 0 THEN Free ELSE Executed(tasks[t], tasks[t].step)
  <2>1. tasks' = [tasks EXCEPT ![t] = y] /\ UNCHANGED runs
    BY <1>5 DEF Fetched, FetchFails, Reported
  <2>2. TaskOK(y, workflows)
    BY <1>2, <1>3, FreeOK
  <2>3. CacheOK(cache', time)
    <3>1. CASE FetchFails(t)
      BY <1>3, <3>1 DEF FetchFails
    <3>2. CASE Fetched(t)
      <4>1. PICK asOf \in tasks[t].since..time :
              cache' = Stored(tasks[t].step.key, tasks[t].since, asOf)
        BY <3>2 DEF Fetched
      <4>2. tasks[t].since \in Int /\ time \in Int
        BY DEF RunsInv, FreshInv, Tasked
      <4>3. tasks[t].since <= asOf /\ asOf <= time
        BY <4>1, <4>2
      <4> DEFINE e == [since |-> tasks[t].since, asOf |-> asOf, expires |-> tasks[t].since + CacheTtl]
      <4>4. cache' = [cache EXCEPT ![tasks[t].step.key] = e] /\ e.since = tasks[t].since /\ e.asOf = asOf
        BY <4>1 DEF Stored
      <4>5. DOMAIN cache = Keys
        BY DEF RunsInv, FreshInv
      <4> HIDE DEF e
      <4>6. \A k \in Keys : cache'[k] = e \/ cache'[k] = cache[k]
        BY <4>4, <4>5
      <4> QED
        BY <1>3, <4>3, <4>4, <4>6 DEF CacheOK
    <3> QED
      BY <1>5, <3>1, <3>2
  <2> HIDE DEF y
  <2> QED
    BY <1>1, <1>3, <2>1, <2>2, <2>3, MoveKeeps
<1> QED
  BY <1>4, <1>5

\* Workflows are added, or stamped, and a run of one may begin.
LEMMA GrowthKeeps ==
  ASSUME RunsInv, FreshInv', UNCHANGED <<time, runs, cache>>,
         Grown(workflows, workflows'), Len(workflows') <= MaxWorkflows,
         iteration' \in [at : {"asleep", "passing"}, now : 0..MaxTime, next : Nat \ {0}, size : Nat],
         \A t \in Tasks : TaskOK(tasks'[t], workflows)
  PROVE  RunsInv'
<1>1. RecordsOf(workflows) \subseteq RecordsOf(workflows')
  BY GrownKeeps
<1>2. runs' \in Seq(RecordsOf(workflows'))
  <2>1. runs \in Seq(RecordsOf(workflows)) /\ runs' = runs
    BY DEF RunsInv
  <2> QED
    BY <1>1, <2>1, SeqMonotonic
<1>3. \A t \in Tasks : TaskOK(tasks'[t], workflows')
  BY GrownKeeps
<1>4. CacheOK(cache', time') /\ time' \in 0..MaxTime
  BY DEF RunsInv
<1>5. workflows' \in Seq(Workflow)
  BY DEF Grown
<1>6. (runs \in Seq(RecordsOf(workflows)))' /\ CacheOK(cache, time)'
  BY <1>2, <1>4 DEF RecordsOf, CacheOK
<1>7. \A t \in Tasks : TaskOK(tasks[t], workflows)'
  BY <1>3
<1> QED
  BY <1>4, <1>5, <1>6, <1>7 DEF RunsInv

LEMMA GrownStays ==
  ASSUME NEW wfs \in Seq(Workflow) PROVE Grown(wfs, wfs)
  BY LenProperties DEF Grown

LEMMA NextRuns == RunsInv /\ FreshInv' /\ [ReportingNext]_reportingVars => RunsInv'
<1> SUFFICES ASSUME RunsInv, FreshInv', [ReportingNext]_reportingVars PROVE RunsInv'
  OBVIOUS
<1>1. /\ workflows \in Seq(Workflow) /\ Len(workflows) \in Nat /\ Len(workflows) <= MaxWorkflows
      /\ Grown(workflows, workflows) /\ \A t \in Tasks : TaskOK(tasks[t], workflows)
      /\ time \in 0..MaxTime /\ MaxTime \in Nat /\ DOMAIN tasks = Tasks
      /\ runs \in Seq(RecordsOf(workflows)) /\ CacheOK(cache, time)
      /\ iteration \in [at : {"asleep", "passing"}, now : 0..MaxTime, next : Nat \ {0}, size : Nat]
  BY GrownStays, LenProperties, ReportingAssumption DEF RunsInv, FreshInv
<1>2. ASSUME UNCHANGED <<time, workflows, tasks, runs, cache>>,
             iteration' \in [at : {"asleep", "passing"}, now : 0..MaxTime, next : Nat \ {0}, size : Nat]
      PROVE  RunsInv'
  BY <1>1, <1>2, GrowthKeeps
<1>3. CASE PassTime
  <2>1. time' \in 0..MaxTime /\ time <= time' /\ UNCHANGED <<workflows, iteration, tasks, runs, cache>>
    BY <1>1, <1>3 DEF PassTime
  <2>2. CacheOK(cache, time')
    <3>1. \A k \in Keys : cache[k].asOf \in Int
      BY DEF RunsInv, FreshInv, Fresh
    <3> QED
      BY <1>1, <2>1, <3>1 DEF CacheOK
  <2>3. CacheOK(cache, time)' /\ (runs \in Seq(RecordsOf(workflows)))'
    BY <1>1, <2>1, <2>2 DEF CacheOK, RecordsOf
  <2> QED
    BY <1>1, <2>1, <2>3 DEF RunsInv
<1>4. CASE BeginPass
  <2>1. iteration' = [at |-> "passing", now |-> time, next |-> 1, size |-> Len(workflows)]
    BY <1>4 DEF BeginPass
  <2> QED
    BY <1>1, <1>2, <1>4, <2>1 DEF BeginPass
<1>5. CASE Schedule
  <2> DEFINE w == iteration.next
             i == [iteration EXCEPT !.next = w + 1]
  <2>1. /\ iteration.now \in 0..MaxTime /\ w \in Nat \ {0}
        /\ i \in [at : {"asleep", "passing"}, now : 0..MaxTime, next : Nat \ {0}, size : Nat]
        /\ Asleep \in [at : {"asleep", "passing"}, now : 0..MaxTime, next : Nat \ {0}, size : Nat]
    BY <1>1 DEF Asleep
  <2>2. UNCHANGED <<time, runs, cache>>
    BY <1>5 DEF Schedule
  <2>3. CASE UNCHANGED <<workflows, tasks>>
    <3>1. iteration' = Asleep \/ iteration' = i
      BY <1>5 DEF Schedule
    <3> QED
      BY <1>2, <2>1, <2>2, <2>3, <3>1
  <2>4. CASE ~UNCHANGED <<workflows, tasks>>
    <3>1. /\ w <= Len(workflows) /\ iteration' = i
          /\ workflows' = [workflows EXCEPT ![w].stamp = iteration.now]
          /\ tasks' = [tasks EXCEPT ![Scheduler] = Run(w)]
      BY <1>1, <1>5, <2>1, <2>4, SMTT(30) DEF Schedule
    <3>2. w \in 1..Len(workflows)
      BY <1>1, <2>1, <3>1, SMTT(30)
    <3>3. TaskOK(Run(w), workflows)
      BY <1>1, <3>2, RunTaskOK
    <3>4. \A t \in Tasks : TaskOK(tasks'[t], workflows)
      BY <1>1, <3>1, <3>3
    <3> DEFINE n == [workflows[w] EXCEPT !.stamp = iteration.now]
    <3>5. workflows' = [workflows EXCEPT ![w] = n]
      BY <1>1, <3>1
    <3>6. workflows[w] \in Workflow /\ iteration.now \in Int
      BY <1>1, <2>1, <3>2, ElementOfSeq
    <3>7. n \in Workflow /\ n.plan = workflows[w].plan
      BY <3>6 DEF Workflow
    <3> HIDE DEF n
    <3>8. /\ workflows' \in Seq(Workflow) /\ Len(workflows') = Len(workflows)
          /\ \A v \in 1..Len(workflows) : workflows'[v] = IF v = w THEN n ELSE workflows[v]
      BY <1>1, <3>2, <3>5, <3>7, ExceptSeq
    <3>9. Grown(workflows, workflows')
      BY <1>1, <3>7, <3>8 DEF Grown
    <3> QED
      BY <1>1, <2>1, <2>2, <3>1, <3>4, <3>8, <3>9, GrowthKeeps
  <2> QED
    BY <2>3, <2>4
<1>6. CASE RestartReporting
  <2>1. /\ workflows' = <<>> /\ iteration' = Asleep /\ runs' = <<>> /\ UNCHANGED time
        /\ \A t \in Tasks : tasks'[t] = Free
        /\ \A k \in Keys : cache'[k] = NoCache
    BY <1>6 DEF RestartReporting
  <2>2. /\ workflows' \in Seq(Workflow) /\ Len(workflows') = 0
        /\ runs' \in Seq(RecordsOf(workflows'))
    BY <2>1, EmptySeq
  <2>3. MaxWorkflows \in Nat
    BY ReportingAssumption
  <2>4. \A t \in Tasks : TaskOK(tasks'[t], workflows')
    BY <2>1, <2>2, FreeOK
  <2>5. CacheOK(cache', time') /\ time' \in 0..MaxTime
    BY <1>1, <2>1 DEF CacheOK, NoCache
  <2>6. iteration' \in [at : {"asleep", "passing"}, now : 0..MaxTime, next : Nat \ {0}, size : Nat]
    BY <1>1, <2>1 DEF Asleep
  <2>7. (runs \in Seq(RecordsOf(workflows)))' /\ CacheOK(cache, time)'
    BY <2>2, <2>5 DEF RecordsOf, CacheOK
  <2>8. \A t \in Tasks : TaskOK(tasks[t], workflows)'
    BY <2>4
  <2> QED
    BY <2>2, <2>3, <2>5, <2>6, <2>7, <2>8 DEF RunsInv
<1>7. ASSUME NEW plan \in Plans, CreateWorkflow(plan) PROVE RunsInv'
  <2> DEFINE n == [plan |-> plan, stamp |-> -plan.every]
  <2>1. n \in Workflow
    BY PlansAssumption DEF Workflow
  <2>2. workflows' = Append(workflows, n) /\ UNCHANGED <<time, iteration, tasks, runs, cache>>
        /\ Len(workflows) < MaxWorkflows
    BY <1>7 DEF CreateWorkflow
  <2> HIDE DEF n
  <2>3. /\ workflows' \in Seq(Workflow) /\ Len(workflows') = Len(workflows) + 1
        /\ \A v \in 1..Len(workflows) : workflows'[v] = workflows[v]
    BY <1>1, <2>1, <2>2, AppendProperties
  <2>4. Grown(workflows, workflows')
    BY <1>1, <2>3 DEF Grown
  <2>5. Len(workflows') <= MaxWorkflows
    BY <1>1, <2>2, <2>3, ReportingAssumption
  <2> QED
    BY <1>1, <2>2, <2>4, <2>5, GrowthKeeps
<1>8. ASSUME NEW t \in Callers, NEW w \in DOMAIN workflows, RunWorkflow(t, w) PROVE RunsInv'
  <2>1. tasks' = [tasks EXCEPT ![t] = Run(w)] /\ UNCHANGED <<time, workflows, iteration, runs, cache>>
    BY <1>8 DEF RunWorkflow
  <2>2. TaskOK(Run(w), workflows)
    <3>1. w \in 1..Len(workflows)
      BY <1>1, LenProperties
    <3> QED
      BY <1>1, <3>1, RunTaskOK
  <2>3. t \in Tasks
    BY DEF Tasks
  <2> QED
    BY <1>1, <2>1, <2>2, <2>3, MoveKeeps
<1>9. ASSUME NEW t \in Callers, NEW k \in Keys, AskReport(t, k) PROVE RunsInv'
  <2>1. UNCHANGED <<time, workflows, iteration, runs, cache>>
    BY <1>9 DEF AskReport
  <2>2. CASE Cached(k)
    <3>1. UNCHANGED tasks
      BY <1>9, <2>2 DEF AskReport
    <3> QED
      BY <1>1, <1>2, <2>1, <3>1
  <2>3. CASE ~Cached(k)
    <3> DEFINE y == [Free EXCEPT !.at = "waiting", !.since = time,
                       !.step = [NoStep EXCEPT !.type = "data_quality_lineage", !.key = k]]
    <3>1. tasks' = [tasks EXCEPT ![t] = y]
      BY <1>9, <2>3 DEF AskReport
    <3>2. TaskOK(y, workflows)
      <4> DEFINE q == [NoStep EXCEPT !.type = "data_quality_lineage", !.key = k]
      <4>1. q.type = "data_quality_lineage"
        BY DEF NoStep
      <4> HIDE DEF q
      <4> DEFINE z == [Free EXCEPT !.at = "waiting", !.since = time, !.step = q]
      <4>2. DOMAIN z = TaskFields /\ z.at = "waiting" /\ z.wf = 0 /\ z.since = time /\ z.step = q
        BY DEF Free, TaskFields
      <4> HIDE DEF z
      <4>3. TaskOK(z, workflows)
        BY <1>1, <4>1, <4>2 DEF TaskOK
      <4> QED
        BY <4>3 DEF z, q
    <3>3. t \in Tasks
      BY DEF Tasks
    <3> HIDE DEF y
    <3> QED
      BY <1>1, <2>1, <3>1, <3>2, <3>3, MoveKeeps
  <2> QED
    BY <2>2, <2>3
<1>10. CASE UNCHANGED reportingVars
  BY <1>1, <1>2, <1>10 DEF reportingVars
<1> QED
  BY <1>3, <1>4, <1>5, <1>6, <1>7, <1>8, <1>9, <1>10, StepRuns, EndPassRuns, AnswersRun
     DEF ReportingNext

LEMMA InitRuns == ReportingInit => RunsInv
<1> SUFFICES ASSUME ReportingInit PROVE RunsInv
  OBVIOUS
<1>1. /\ workflows = <<>> /\ iteration = Asleep /\ runs = <<>> /\ time = 0
      /\ \A t \in Tasks : tasks[t] = Free
      /\ \A k \in Keys : cache[k] = NoCache
  BY DEF ReportingInit
<1>2. workflows \in Seq(Workflow) /\ Len(workflows) = 0 /\ runs \in Seq(RecordsOf(workflows))
  BY <1>1, EmptySeq
<1>3. \A t \in Tasks : TaskOK(tasks[t], workflows)
  BY <1>1, <1>2, FreeOK
<1>4. CacheOK(cache, time)
  BY <1>1 DEF CacheOK, NoCache
<1> QED
  BY <1>1, <1>2, <1>3, <1>4, InitFresh, ReportingAssumption DEF RunsInv, Asleep

\* A task of the reporting service is in a step of a workflow there is, with the
\* steps after it still to execute in their order, and a run is recorded with steps
\* of its workflow, for any plans, tasks and crashes.
THEOREM RunsInvariant == ReportingSpec => []RunsInv
<1>1. RunsInv /\ [ReportingNext]_reportingVars => RunsInv'
  BY NextFresh, NextRuns DEF RunsInv
<1> QED
  BY <1>1, InitRuns, PTL DEF ReportingSpec

LEMMA OrderedIsInOrder ==
  ASSUME NEW w, NEW executed PROVE InOrder(w, executed) <=> Order(StepsOf(workflows, w), executed)
  BY DEF InOrder, Order, StepsOf

LEMMA RunsOrdered == RunsInv => DependenciesFirst
<1> SUFFICES ASSUME RunsInv PROVE DependenciesFirst
  OBVIOUS
<1>1. ASSUME NEW t \in Tasks, tasks[t].wf # 0 PROVE InOrder(tasks[t].wf, tasks[t].executed)
  <2>1. TaskOK(tasks[t], workflows)
    BY DEF RunsInv
  <2>2. Order(StepsOf(workflows, tasks[t].wf), tasks[t].executed)
    BY <1>1, <2>1 DEF TaskOK, RunOK
  <2> QED
    BY <2>2, OrderedIsInOrder
<1>2. ASSUME NEW i \in DOMAIN runs
      PROVE  /\ InOrder(runs[i].wf, runs[i].executed)
             /\ runs[i].status = "success" <=> Elements(runs[i].executed) = StepIds(runs[i].wf)
  <2>1. runs[i] \in RecordsOf(workflows)
    BY ElementOfSeq, LenProperties DEF RunsInv
  <2>2. RecordOK(StepsOf(workflows, runs[i].wf), runs[i])
    BY <2>1 DEF RecordsOf
  <2>3. StepIds(runs[i].wf) = IdsOf(StepsOf(workflows, runs[i].wf))
    BY DEF StepIds, IdsOf, StepsOf
  <2> QED
    BY <2>2, <2>3, OrderedIsInOrder DEF RecordOK
<1> QED
  BY <1>1, <1>2 DEF DependenciesFirst

\* For any plans, tasks, answers, overlaps and restarts: each run executes a
\* step once and after its dependencies, and succeeds when it has executed all.
THEOREM DependenciesFirstHolds == ReportingSpec => []DependenciesFirst
  BY RunsOrdered, RunsInvariant, PTL

LEMMA ReportingTyped == RunsInv => ReportingTypeOK
<1> SUFFICES ASSUME RunsInv PROVE ReportingTypeOK
  OBVIOUS
<1>1. \A t \in Tasks : tasks[t].at \in {"free", "running", "waiting"} /\ tasks[t].wf \in 0..Len(workflows)
  BY DEF RunsInv, TaskOK
<1>2. ASSUME NEW i \in DOMAIN runs
      PROVE  runs[i].status \in {"success", "failed"} /\ runs[i].wf \in DOMAIN workflows
  <2>1. runs[i] \in RecordsOf(workflows)
    BY ElementOfSeq, LenProperties DEF RunsInv
  <2>2. runs[i].status \in {"success", "failed"} /\ runs[i].wf \in 1..Len(workflows)
    BY <2>1 DEF RecordsOf
  <2> QED
    BY <2>2, LenProperties DEF RunsInv
<1>3. iteration \in [at : {"asleep", "passing"}, now : 0..MaxTime, next : Nat, size : Nat]
  BY DEF RunsInv
<1>4. workflows \in Seq([plan : Plans, stamp : Int]) /\ Len(workflows) <= MaxWorkflows
  BY DEF RunsInv, Workflow
<1> QED
  BY <1>1, <1>2, <1>3, <1>4 DEF RunsInv, CacheOK, ReportingTypeOK

-----------------------------------------------------------------------------
(* Operations *)

\* Each well has an earliest record, and what a record with a curve expects was
\* counted from the day of some record of its well.
Counted(i) ==
  declines[i].curve # NoCurve =>
    \E e \in DOMAIN declines :
      /\ declines[e].well = declines[i].well
      /\ Elapsed(declines[i].day, declines[e].day) \in DOMAIN declines[i].curve
      /\ declines[i].expected = declines[i].curve[Elapsed(declines[i].day, declines[e].day)]

Earliest(w) == \E i \in OfWell(w) : \A j \in OfWell(w) : declines[i].day <= declines[j].day

Decline == [well : WellNames, day : Days, curve : Curves \union {NoCurve}, expected : Int, flag : BOOLEAN]

DeclineInv ==
  /\ declines \in Seq(Decline)
  /\ \A i \in DOMAIN declines : Counted(i)
  /\ \A w \in WellNames : OfWell(w) # {} => Earliest(w)
  /\ DeclineGoesOn

LEMMA ElapsedDays ==
  ASSUME NEW d \in Days, NEW e \in Days
  PROVE  Elapsed(d, e) \in Days
BY OperationsAssumption DEF Days, Elapsed

\* Later, and counted from no later day, is further along the curve.
LEMMA ElapsedGrows ==
  ASSUME NEW d1 \in Days, NEW e1 \in Days, NEW d2 \in Days, NEW e2 \in Days, d1 <= d2, e2 <= e1
  PROVE  Elapsed(d1, e1) <= Elapsed(d2, e2)
BY OperationsAssumption DEF Days, Elapsed

LEMMA RecordTyped ==
  ASSUME DeclineInv, NEW i \in DOMAIN declines
  PROVE  declines[i] \in Decline
BY ElementOfSeq, LenProperties DEF DeclineInv

\* The day that the next record of a well is counted from.
LEMMA SinceEarliest ==
  ASSUME DeclineInv, NEW w \in WellNames, NEW day \in Days
  PROVE  /\ Since(w, day) \in Days
         /\ OfWell(w) = {} => Since(w, day) = day
         /\ OfWell(w) # {} => \E c \in OfWell(w) : Since(w, day) = declines[c].day
         /\ \A j \in OfWell(w) : Since(w, day) <= declines[j].day
<1>1. CASE OfWell(w) = {}
  BY <1>1 DEF Since
<1>2. CASE OfWell(w) # {}
  <2> DEFINE c == CHOOSE i \in OfWell(w) : \A j \in OfWell(w) : declines[i].day <= declines[j].day
  <2>1. \E i \in OfWell(w) : \A j \in OfWell(w) : declines[i].day <= declines[j].day
    BY <1>2 DEF DeclineInv, Earliest
  <2>2. c \in OfWell(w) /\ \A j \in OfWell(w) : declines[c].day <= declines[j].day
    BY <2>1
  <2>3. Since(w, day) = declines[c].day
    BY <1>2 DEF Since
  <2>4. declines[c].day \in Days
    <3> HIDE DEF c
    <3> QED
      BY <2>2, RecordTyped DEF OfWell, Decline
  <2> HIDE DEF c
  <2> QED
    BY <1>2, <2>2, <2>3, <2>4
<1> QED
  BY <1>1, <1>2

LEMMA InitDecline == OperationsInit => DeclineInv
<1> SUFFICES ASSUME OperationsInit PROVE DeclineInv
  OBVIOUS
<1>1. declines = <<>> /\ DOMAIN declines = {} /\ declines \in Seq(Decline)
  BY EmptySeq DEF OperationsInit
<1>2. \A w : OfWell(w) = {}
  BY <1>1 DEF OfWell
<1> QED
  BY <1>1, <1>2 DEF DeclineInv, DeclineGoesOn

LEMMA RecordKeeps ==
  ASSUME DeclineInv, NEW w \in WellNames, NEW day \in Days, NEW rate \in Rates,
         NEW curve \in Curves \union {NoCurve}, RecordVfmDecline(w, day, rate, curve)
  PROVE  DeclineInv'
<1> DEFINE since == Since(w, day)
           expected == IF curve = NoCurve THEN 0 ELSE curve[Elapsed(day, since)]
           r == [well |-> w, day |-> day, curve |-> curve, expected |-> expected,
                 flag |-> Flagged(rate, expected)]
           n == Len(declines) + 1
<1>1. since \in Days /\ Elapsed(day, since) \in Days
  BY SinceEarliest, ElapsedDays
<1>0. curve # NoCurve => Elapsed(day, since) \in DOMAIN curve
  BY DEF RecordVfmDecline
<1>2. expected \in Int
  <2>1. ASSUME curve # NoCurve PROVE curve[Elapsed(day, since)] \in Int
    <3>1. curve \in [DOMAIN curve -> Int]
      BY <2>1, OperationsAssumption
    <3> HIDE DEF since
    <3> QED
      BY <1>0, <2>1, <3>1
  <2> QED
    BY <2>1
<1>3. Flagged(rate, expected) \in BOOLEAN
  BY DEF Flagged
<1>4. r \in Decline
  <2> HIDE DEF expected
  <2> QED
    BY <1>2, <1>3 DEF Decline
<1>5. declines' = Append(declines, r)
  BY DEF RecordVfmDecline
<1>6. r.well = w /\ r.day = day /\ r.curve = curve /\ r.expected = expected
  OBVIOUS
<1> HIDE DEF r
<1>7. /\ declines \in Seq(Decline) /\ Len(declines) \in Nat /\ DOMAIN declines = 1..Len(declines)
      /\ declines' \in Seq(Decline) /\ DOMAIN declines' = 1..n /\ declines'[n] = r
      /\ \A i \in 1..Len(declines) : declines'[i] = declines[i]
  BY <1>4, <1>5, AppendProperties, LenProperties DEF DeclineInv
<1>8. /\ n \in DOMAIN declines' /\ n \notin DOMAIN declines
      /\ \A i \in DOMAIN declines' : i \in DOMAIN declines \/ i = n
      /\ \A i \in DOMAIN declines : i \in DOMAIN declines' /\ declines'[i] = declines[i] /\ i < n
  BY <1>7
<1>9. OfWell(w)' = OfWell(w) \union {n} /\ \A v \in WellNames \ {w} : OfWell(v)' = OfWell(v)
  BY <1>6, <1>7, <1>8 DEF OfWell
<1> HIDE DEF n, since
<1>10. \A i \in DOMAIN declines' : Counted(i)'
  <2>1. ASSUME NEW i \in DOMAIN declines PROVE Counted(i)'
    <3>1. Counted(i)
      BY DEF DeclineInv
    <3> QED
      BY <1>8, <3>1 DEF Counted
  <2>2. ASSUME NEW i \in DOMAIN declines', i = n PROVE Counted(i)'
    <3>1. declines'[i].well = w /\ declines'[i].curve = curve /\ declines'[i].day = day
          /\ (curve # NoCurve => /\ declines'[i].expected = curve[Elapsed(day, since)]
                                 /\ Elapsed(day, since) \in DOMAIN curve)
      BY <1>0, <1>6, <1>7, <2>2
    <3>2. \E e \in DOMAIN declines' : declines'[e].well = w /\ declines'[e].day = since
      <4>1. CASE OfWell(w) = {}
        <5>1. since = day
          BY <4>1, SinceEarliest DEF since
        <5> QED
          BY <3>1, <5>1
      <4>2. CASE OfWell(w) # {}
        <5>1. PICK c \in OfWell(w) : since = declines[c].day
          BY <4>2, SinceEarliest DEF since
        <5> QED
          BY <1>8, <5>1 DEF OfWell
      <4> QED
        BY <4>1, <4>2
    <3>3. PICK e \in DOMAIN declines' : declines'[e].well = w /\ declines'[e].day = since
      BY <3>2
    <3>4. Elapsed(day, since) = Elapsed(declines'[i].day, declines'[e].day)
      BY <3>1, <3>3
    <3>5. curve # NoCurve =>
            /\ declines'[e].well = declines'[i].well
            /\ Elapsed(declines'[i].day, declines'[e].day) \in DOMAIN declines'[i].curve
            /\ declines'[i].expected = declines'[i].curve[Elapsed(declines'[i].day, declines'[e].day)]
      BY <3>1, <3>3, <3>4
    <3> QED
      BY <3>1, <3>5 DEF Counted
  <2> QED
    BY <1>8, <2>1, <2>2
<1>11. ASSUME NEW v \in WellNames, OfWell(v)' # {} PROVE Earliest(v)'
  <2>1. \A j \in OfWell(v) : j \in DOMAIN declines /\ declines'[j] = declines[j] /\ declines[j].day \in Int
    BY <1>8, RecordTyped DEF OfWell, Decline, Days
  <2>2. day \in Int
    BY DEF Days
  <2>3. CASE v # w
    <3>1. OfWell(v)' = OfWell(v)
      BY <1>9, <2>3
    <3>2. PICK e \in OfWell(v) : \A j \in OfWell(v) : declines[e].day <= declines[j].day
      BY <1>11, <3>1 DEF DeclineInv, Earliest
    <3> QED
      BY <2>1, <3>1, <3>2 DEF Earliest
  <2>4. CASE v = w /\ OfWell(w) = {}
    BY <1>6, <1>7, <1>9, <2>2, <2>4 DEF Earliest
  <2>5. CASE v = w /\ OfWell(w) # {}
    <3>1. PICK e \in OfWell(w) : \A j \in OfWell(w) : declines[e].day <= declines[j].day
      BY <2>5 DEF DeclineInv, Earliest
    <3>2. declines'[n].day = day /\ OfWell(v)' = OfWell(w) \union {n}
      BY <1>6, <1>7, <1>9, <2>5
    <3>3. CASE day <= declines[e].day
      BY <2>1, <2>2, <2>5, <3>1, <3>2, <3>3 DEF Earliest
    <3>4. CASE ~(day <= declines[e].day)
      BY <2>1, <2>2, <2>5, <3>1, <3>2, <3>4 DEF Earliest
    <3> QED
      BY <3>3, <3>4
  <2> QED
    BY <2>3, <2>4, <2>5
\* A new record stands no earlier on the curve than one that it follows.
<1>12. ASSUME NEW i \in DOMAIN declines, declines[i].well = w, declines[i].curve = curve,
              curve # NoCurve, declines[i].day <= day
       PROVE  \E d, e \in DOMAIN curve :
                d <= e /\ declines[i].expected = curve[d] /\ expected = curve[e]
  <2>1. PICK e \in DOMAIN declines :
          /\ declines[e].well = declines[i].well
          /\ Elapsed(declines[i].day, declines[e].day) \in DOMAIN declines[i].curve
          /\ declines[i].expected = declines[i].curve[Elapsed(declines[i].day, declines[e].day)]
    BY <1>12 DEF DeclineInv, Counted
  <2>2. e \in OfWell(w) /\ declines[i].day \in Days /\ declines[e].day \in Days
    BY <1>12, <2>1, RecordTyped DEF OfWell, Decline
  <2>3. since <= declines[e].day
    BY <2>2, SinceEarliest DEF since
  <2>4. Elapsed(declines[i].day, declines[e].day) <= Elapsed(day, since)
    BY <1>1, <1>12, <2>2, <2>3, ElapsedGrows
  <2>5. expected = curve[Elapsed(day, since)]
    BY <1>12
  <2> QED
    BY <1>0, <1>12, <2>1, <2>4, <2>5
<1>13. DeclineGoesOn'
  <2> SUFFICES ASSUME NEW i \in DOMAIN declines', NEW j \in DOMAIN declines', i < j,
                      declines'[i].well = declines'[j].well,
                      declines'[i].curve = declines'[j].curve, declines'[i].curve # NoCurve,
                      declines'[i].day <= declines'[j].day
               PROVE  \E d, e \in DOMAIN declines'[i].curve :
                        /\ d <= e
                        /\ declines'[i].expected = declines'[i].curve[d]
                        /\ declines'[j].expected = declines'[i].curve[e]
    BY DEF DeclineGoesOn
  <2>1. i \in DOMAIN declines
    BY <1>7 DEF n
  <2>2. CASE j \in DOMAIN declines
    BY <1>8, <2>1, <2>2 DEF DeclineInv, DeclineGoesOn
  <2>3. CASE j = n
    BY <1>6, <1>7, <1>8, <1>12, <2>1, <2>3
  <2> QED
    BY <1>8, <2>2, <2>3
<1> QED
  BY <1>7, <1>10, <1>11, <1>13 DEF DeclineInv

LEMMA NextDecline == DeclineInv /\ [OperationsNext]_operationsVars => DeclineInv'
<1> SUFFICES ASSUME DeclineInv, [OperationsNext]_operationsVars PROVE DeclineInv'
  OBVIOUS
<1>1. CASE UNCHANGED declines
  BY <1>1 DEF DeclineInv, Counted, Earliest, OfWell, DeclineGoesOn
<1>2. ASSUME NEW w \in WellNames, NEW day \in Days, NEW rate \in Rates,
             NEW curve \in Curves \union {NoCurve}, RecordVfmDecline(w, day, rate, curve)
      PROVE  DeclineInv'
  BY <1>2, RecordKeeps
<1>3. CASE UNCHANGED operationsVars
  BY <1>1, <1>3 DEF operationsVars
<1>4. ASSUME NEW c \in Codes,
             \/ \E k \in WellCounts, g \in Goals : UpdateSubsidiary(c, k, g)
             \/ \E k \in WellCounts, g \in Goals, rs \in SUBSET Fluids : CreateSubsidiary(c, k, g, rs)
             \/ \E rs \in SUBSET Fluids : ReplaceReservoirs(c, rs)
             \/ \E e \in Equipments : CreateEquipment(e, c)
             \/ \E w \in WellNames, day \in Days, rate \in Rates : CreateManualReading(w, c, day, rate)
             \/ \E day \in Days, rate \in Rates : CreateProductionTarget(c, day, rate)
             \/ ProductionStatus(c)
      PROVE  UNCHANGED declines
  BY <1>4 DEF UpdateSubsidiary, CreateSubsidiary, ReplaceReservoirs, CreateEquipment,
              CreateManualReading, CreateProductionTarget, ProductionStatus
<1>5. ASSUME NEW e \in Equipments, DeleteEquipment(e) \/ \E active \in BOOLEAN : UpdateEquipment(e, active)
      PROVE  UNCHANGED declines
  BY <1>5 DEF DeleteEquipment, UpdateEquipment
<1> QED
  BY <1>1, <1>2, <1>3, <1>4, <1>5 DEF OperationsNext

\* The invariant below DeclineGoesOn.
THEOREM DeclineInvariant == OperationsSpec => []DeclineInv
  BY InitDecline, NextDecline, PTL DEF OperationsSpec

\* A late record never makes the decline of a well run backwards, for curves of
\* any shape and records in any order.
THEOREM DeclineGoesOnHolds == OperationsSpec => []DeclineGoesOn
<1>1. DeclineInv => DeclineGoesOn
  BY DEF DeclineInv
<1> QED
  BY <1>1, DeclineInvariant, PTL

-----------------------------------------------------------------------------
(* AlertPlane: the alerts *)

AlertsTyped == alerts \in [Ids -> Alert \union {Missing}] /\ clock \in Int

Cluster(f) == {b \in Recorded : alerts[b].facility = f}

\* A facility id is the id of an alert that exists: a new alert finds its own
\* id in no cluster.
FacilityKnown == \A a \in InCluster(Recorded) : alerts[a].facility \in Recorded

OneRule ==
  \A a \in InCluster(Recorded) : \A b \in Cluster(alerts[a].facility) :
    alerts[b].at.rule = alerts[a].at.rule

ManyWells == \A a \in InCluster(Recorded) : Systemic(Cluster(alerts[a].facility), {})

AlertInv == AlertsTyped /\ OneOpenAlert /\ FacilityKnown /\ OneRule /\ ManyWells

\* What every step does that records no alert.
Kept ==
  /\ AlertsTyped'
  /\ \A b \in Ids : alerts'[b] = Missing <=> alerts[b] = Missing
  /\ \A b \in Recorded :
       /\ alerts'[b].at = alerts[b].at
       /\ alerts'[b].facility = alerts[b].facility
       /\ alerts'[b].status = "open" => alerts[b].status = "open"

-----------------------------------------------------------------------------
\* More alerts are in no fewer wells.
LEMMA SystemicGrows ==
  ASSUME NEW V \in SUBSET Wells, NEW W \in SUBSET Wells, V \subseteq W,
         Cardinality(V) >= MinWells
  PROVE  Cardinality(W) >= MinWells
<1>0. IsFiniteSet(Wells)
  BY WellsAssumption
<1>1. IsFiniteSet(W) /\ IsFiniteSet(V)
  BY <1>0, FS_Subset
<1>2. Cardinality(V) <= Cardinality(W) /\ Cardinality(V) \in Nat /\ Cardinality(W) \in Nat
  BY <1>1, FS_Subset, FS_CardinalityType
<1> QED
  BY <1>2, WellsAssumption

LEMMA RecordedIsAlert ==
  ASSUME AlertsTyped, NEW a \in Recorded
  PROVE  a \in Ids /\ alerts[a] \in Alert /\ alerts[a].at \in Conditions
BY DEF AlertsTyped, Recorded, Alert

LEMMA KeptInv == AlertInv /\ Kept => AlertInv'
<1> SUFFICES ASSUME AlertInv, Kept PROVE AlertInv'
  OBVIOUS
<1>1. Recorded' = Recorded
  BY DEF Kept, Recorded
<1>2. InCluster(Recorded)' = InCluster(Recorded)
  BY <1>1 DEF InCluster, Kept
<1>3. ASSUME NEW f PROVE Cluster(f)' = Cluster(f)
  BY <1>1 DEF Cluster, Kept
<1>4. \A c \in Conditions : Open(c)' \subseteq Open(c)
  BY <1>1 DEF Open, Kept
<1>5. OneOpenAlert'
  BY <1>4 DEF AlertInv, OneOpenAlert
<1>6. \A a \in InCluster(Recorded) : a \in Recorded /\ alerts'[a].facility = alerts[a].facility
  BY DEF InCluster, Kept
<1>7. FacilityKnown'
  BY <1>1, <1>2, <1>6 DEF AlertInv, FacilityKnown
<1>8. OneRule'
  <2> SUFFICES ASSUME NEW a \in InCluster(Recorded), NEW b \in Cluster(alerts[a].facility)
               PROVE  alerts'[b].at.rule = alerts'[a].at.rule
    BY <1>2, <1>3, <1>6 DEF OneRule
  <2>1. alerts[b].at.rule = alerts[a].at.rule
    BY DEF AlertInv, OneRule
  <2>2. alerts'[b].at = alerts[b].at /\ alerts'[a].at = alerts[a].at
    BY <1>6 DEF Kept, Cluster
  <2> QED
    BY <2>1, <2>2
<1>9. ManyWells'
  <2> SUFFICES ASSUME NEW a \in InCluster(Recorded)
               PROVE  Systemic(Cluster(alerts[a].facility), {})'
    BY <1>2 DEF ManyWells
  <2> DEFINE S == Cluster(alerts[a].facility)
  <2>1. S' = S /\ S \subseteq Recorded
    BY <1>3, <1>6 DEF Cluster
  <2>2. Systemic(S, {})
    BY DEF AlertInv, ManyWells
  <2> HIDE DEF S
  <2>3. DistinctWells(S)' = DistinctWells(S)
    BY <2>1 DEF DistinctWells, Kept
  <2>4. Systemic(S, {})'
    BY <2>2, <2>3 DEF Systemic
  <2> QED
    BY <2>4 DEF S
<1> QED
  BY <1>5, <1>7, <1>8, <1>9 DEF AlertInv, Kept

-----------------------------------------------------------------------------
(* A new alert *)

LEMMA RecordInv ==
  ASSUME AlertInv, clock' = clock,
         NEW i \in Ids, NEW c \in Conditions, NEW s \in Severities, NEW st \in Status,
         NEW t \in 0..clock, Duplicates(c) = {}, RecordAlert(i, c, s, st, t)
  PROVE  AlertInv'
<1>0. PICK R \in Limited(OfTheWell(c), WellLimit), S \in Limited(CrossWell(c, Window), RuleLimit) :
        \E k \in Correlation(i, c, R), f \in Facility(i, c, S) :
          alerts' = [a \in Ids |->
            IF a = i
            THEN [at |-> c, severity |-> s, status |-> st, time |-> t, corr |-> k,
                  facility |-> f, count |-> 1, rca |-> "none"]
            ELSE Backfill(a, i, f, S)]
  BY DEF RecordAlert
<1>1. PICK k \in Correlation(i, c, R), f \in Facility(i, c, S) :
        alerts' = [a \in Ids |->
          IF a = i
          THEN [at |-> c, severity |-> s, status |-> st, time |-> t, corr |-> k,
                facility |-> f, count |-> 1, rca |-> "none"]
          ELSE Backfill(a, i, f, S)]
  BY <1>0
<1>2. i \notin Recorded /\ AlertsTyped /\ i \in Ids /\ alerts[i] = Missing
  BY DEF RecordAlert, AlertInv, Recorded
<1>3. S \subseteq Recorded /\ \A a \in S : alerts[a].at.rule = c.rule
  <2>1. S \subseteq CrossWell(c, Window)
    BY DEF Limited
  <2> QED
    BY <2>1 DEF CrossWell, Recent
\* Where the facility id comes from.
<1>4. \/ f = None
      \/ f = i /\ Systemic(S, {c.well}) /\ InCluster(S) = {}
      \/ \E a \in InCluster(S) : f = alerts[a].facility
  BY DEF Facility, Newest
<1>5. /\ k \in Ids
      /\ f \in Ids \union {None}
  <2>1. k \in Ids
    <3>1. CASE Related(c, R) = {}
      BY <3>1 DEF Correlation
    <3>2. CASE Related(c, R) # {}
      <4>1. PICK a \in Newest(Related(c, R)) : k = alerts[a].corr
        BY <3>2 DEF Correlation
      <4>2. a \in Recorded
        BY <4>1 DEF Newest, Related, Limited, OfTheWell, Recent
      <4> QED
        BY <4>1, <4>2, <1>2, RecordedIsAlert DEF Alert
    <3> QED
      BY <3>1, <3>2
  <2>2. f \in Ids \union {None}
    <3>1. \A a \in InCluster(S) : alerts[a].facility \in Ids \union {None}
      BY <1>2, <1>3, RecordedIsAlert DEF InCluster, Alert
    <3> QED
      BY <1>4, <3>1
  <2> QED
    BY <2>1, <2>2
\* Earlier alerts keep all but a facility id that is missing.
<1>6. \A a \in Recorded : a \in Ids /\ a # i /\ alerts[a] \in Alert /\ alerts'[a] = Backfill(a, i, f, S)
  BY <1>1, <1>2, RecordedIsAlert DEF Recorded
<1>7. \A a \in Recorded :
        /\ alerts'[a] \in Alert /\ alerts'[a].at = alerts[a].at /\ alerts'[a].status = alerts[a].status
        /\ alerts'[a].facility = IF f = i /\ a \in S THEN i ELSE alerts[a].facility
  <2> SUFFICES ASSUME NEW a \in Recorded
               PROVE  /\ alerts'[a] \in Alert /\ alerts'[a].at = alerts[a].at
                      /\ alerts'[a].status = alerts[a].status
                      /\ alerts'[a].facility = IF f = i /\ a \in S THEN i ELSE alerts[a].facility
    OBVIOUS
  <2>1. alerts[a] \in Alert /\ alerts'[a] = Backfill(a, i, f, S)
    BY <1>6
  <2>2. CASE f = i /\ a \in S
    <3>1. alerts'[a] = [alerts[a] EXCEPT !.facility = i]
      BY <2>1, <2>2 DEF Backfill
    <3> QED
      BY <2>1, <2>2, <3>1 DEF Alert
  <2>3. CASE ~(f = i /\ a \in S)
    <3>1. alerts'[a] = alerts[a]
      BY <2>1, <2>3 DEF Backfill
    <3> QED
      BY <2>1, <2>3, <3>1
  <2> QED
    BY <2>2, <2>3
<1>8. /\ alerts'[i] \in Alert /\ alerts'[i].at = c /\ alerts'[i].facility = f
  BY <1>1, <1>5 DEF Alert, Scope
<1>9. \A a \in Alert : a # Missing
  BY DEF Alert, Missing, Status
<1>10. \A a \in Ids : a \notin Recorded /\ a # i => alerts'[a] = Missing
  <2>1. \A a \in Ids : a \notin Recorded => alerts[a] = Missing /\ a \notin S
    BY <1>3 DEF Recorded
  <2> QED
    BY <1>1, <2>1 DEF Backfill
<1>11. AlertsTyped'
  <2>1. \A a \in Ids : alerts'[a] \in Alert \union {Missing}
    BY <1>7, <1>8, <1>10
  <2>2. alerts' = [a \in Ids |-> alerts'[a]]
    BY <1>1
  <2>3. alerts' \in [Ids -> Alert \union {Missing}]
    BY <2>1, <2>2
  <2> QED
    BY <2>3, <1>2 DEF AlertsTyped
<1>12. Recorded' = Recorded \union {i}
  BY <1>2, <1>7, <1>8, <1>9, <1>10 DEF Recorded
<1>13. OneOpenAlert'
  <2> SUFFICES ASSUME NEW d \in Conditions, NEW a \in Open(d)', NEW b \in Open(d)'
               PROVE  a = b
    BY DEF OneOpenAlert
  <2>1. a \in Recorded => a \in Open(d)
    BY <1>7, <1>12 DEF Open
  <2>2. b \in Recorded => b \in Open(d)
    BY <1>7, <1>12 DEF Open
  <2>3. a = i \/ b = i => d = c
    BY <1>8 DEF Open
  <2>4. (a \in Recorded \/ a = i) /\ (b \in Recorded \/ b = i)
    BY <1>12 DEF Open
  <2>5. Open(c) = {}
    BY DEF Duplicates
  <2> QED
    BY <2>1, <2>2, <2>3, <2>4, <2>5 DEF AlertInv, OneOpenAlert
\* An id that is made up is new, and so is the cluster; one that is taken over
\* is that of alerts of the rule.
<1>14. \A a \in InCluster(S) : a \in InCluster(Recorded) /\ alerts[a].facility \in Recorded
  BY <1>3 DEF InCluster, AlertInv, FacilityKnown
<1>15. f = i => Systemic(S, {c.well}) /\ \A a \in S : alerts[a].facility = None
  BY <1>2, <1>4, <1>14, NoneAssumption DEF InCluster
<1>16. ASSUME f # None, f # i
       PROVE  /\ f \in Recorded /\ Systemic(Cluster(f), {})
              /\ \A b \in Cluster(f) : alerts[b].at.rule = c.rule
  <2>1. PICK a \in InCluster(S) : f = alerts[a].facility
    BY <1>4, <1>16
  <2>2. a \in InCluster(Recorded) /\ f \in Recorded /\ a \in S
    BY <1>14, <2>1 DEF InCluster
  <2>3. alerts[a].at.rule = c.rule
    BY <1>3, <2>2
  <2> QED
    BY <2>1, <2>2, <2>3 DEF AlertInv, OneRule, ManyWells
<1>17. \A a \in Recorded : alerts[a].facility # i
  BY <1>2, NoneAssumption DEF AlertInv, FacilityKnown, InCluster
<1>18. FacilityKnown'
  <2> SUFFICES ASSUME NEW a \in InCluster(Recorded)'
               PROVE  alerts'[a].facility \in Recorded \union {i}
    BY <1>12 DEF FacilityKnown
  <2>1. CASE a = i
    BY <2>1, <1>8, <1>16 DEF InCluster
  <2>2. CASE a \in Recorded
    BY <2>2, <1>7 DEF InCluster, AlertInv, FacilityKnown
  <2> QED
    BY <2>1, <2>2, <1>12 DEF InCluster
<1>19. ASSUME NEW g \in Recorded
       PROVE  Cluster(g)' = Cluster(g) \union (IF f = g THEN {i} ELSE {})
  <2>1. g # None /\ g # i
    BY <1>2, NoneAssumption DEF Recorded
  <2>2. \A b \in Recorded : alerts'[b].facility = g <=> alerts[b].facility = g
    BY <1>7, <1>15, <2>1
  <2> QED
    BY <2>2, <1>2, <1>8, <1>12 DEF Cluster
<1>20. ASSUME f = i PROVE Cluster(i)' = S \union {i}
  <2>1. \A b \in Recorded : alerts'[b].facility = i <=> b \in S
    BY <1>7, <1>17, <1>20
  <2> QED
    BY <2>1, <1>3, <1>8, <1>12, <1>20 DEF Cluster
<1>21. ASSUME NEW T \in SUBSET Recorded
       PROVE  /\ DistinctWells(T)' = DistinctWells(T)
              /\ DistinctWells(T \union {i})' = DistinctWells(T) \union {c.well}
  <2>1. c.well \in Wells
    BY ConditionsAssumption
  <2> QED
    BY <1>7, <1>8, <2>1 DEF DistinctWells
<1>22. ASSUME NEW g \in Recorded \union {i}, NEW a \in Cluster(g)', g = i => f = i
       PROVE  /\ Systemic(Cluster(g), {})'
              /\ \A b \in Cluster(g)' : alerts'[b].at.rule = alerts'[a].at.rule
  <2>1. CASE g = i
    <3>1. f = i /\ Cluster(g)' = S \union {i}
      BY <2>1, <1>20, <1>22
    <3>2. \A b \in S \union {i} : alerts'[b].at.rule = c.rule
      BY <1>3, <1>7, <1>8
    <3>3. DistinctWells(Cluster(g))' = DistinctWells(S) \union {c.well}
      BY <3>1, <1>3, <1>21
    <3>4. Systemic(Cluster(g), {})'
      BY <3>1, <3>3, <1>15 DEF Systemic
    <3> QED
      BY <3>1, <3>2, <3>4, <1>22
  <2>2. CASE g # i /\ f = g
    <3>1. /\ g \in Recorded /\ f # None /\ f # i /\ Cluster(g)' = Cluster(g) \union {i}
          /\ Cluster(g) \subseteq Recorded
      BY <2>2, <1>19, NoneAssumption DEF Recorded, Cluster
    <3>2. \A b \in Cluster(g) \union {i} : alerts'[b].at.rule = c.rule
      BY <2>2, <3>1, <1>16, <1>7, <1>8
    <3>3. DistinctWells(Cluster(g))' = DistinctWells(Cluster(g)) \union {c.well}
      BY <3>1, <1>21
    <3>4. Cardinality(DistinctWells(Cluster(g))) >= MinWells
      BY <2>2, <3>1, <1>16 DEF Systemic
    <3>5. /\ DistinctWells(Cluster(g)) \in SUBSET Wells /\ c.well \in Wells
          /\ DistinctWells(Cluster(g)) \union {c.well} \in SUBSET Wells
      BY ConditionsAssumption DEF DistinctWells
    <3>6. Cardinality(DistinctWells(Cluster(g)) \union {c.well}) >= MinWells
      BY <3>4, <3>5, SystemicGrows
    <3>7. Systemic(Cluster(g), {})'
      BY <3>3, <3>6 DEF Systemic
    <3> QED
      BY <3>1, <3>2, <3>7, <1>22
  <2>3. CASE g # i /\ f # g
    <3>1. g \in Recorded /\ Cluster(g)' = Cluster(g) /\ Cluster(g) \subseteq Recorded
      BY <2>3, <1>19 DEF Cluster
    <3>2. a \in InCluster(Recorded) /\ alerts[a].facility = g
      BY <3>1, <1>22, NoneAssumption DEF Cluster, InCluster, Recorded
    <3>3. \A b \in Cluster(g) : alerts[b].at.rule = alerts[a].at.rule
      BY <3>2 DEF AlertInv, OneRule
    <3>4. \A b \in Cluster(g) : alerts'[b].at = alerts[b].at
      BY <3>1, <1>7
    <3>5. Systemic(Cluster(g), {})
      BY <3>2 DEF AlertInv, ManyWells
    <3>6. Systemic(Cluster(g), {})'
      BY <3>1, <3>5, <1>21 DEF Systemic
    <3> QED
      BY <3>1, <3>3, <3>4, <3>6, <1>22
  <2> QED
    BY <2>1, <2>2, <2>3
<1>23. ASSUME NEW a \in InCluster(Recorded)'
       PROVE  \E g \in Recorded \union {i} :
                g = alerts'[a].facility /\ a \in Cluster(g)' /\ (g = i => f = i)
  <2>1. alerts'[a].facility \in Recorded \union {i} /\ a \in Recorded'
    BY <1>12, <1>18 DEF FacilityKnown, InCluster
  <2>2. alerts'[a].facility = i => f = i
    BY <2>1, <1>7, <1>8, <1>12, <1>17
  <2> QED
    BY <2>1, <2>2 DEF Cluster
<1>24. OneRule' /\ ManyWells'
  <2> SUFFICES ASSUME NEW a \in InCluster(Recorded)'
               PROVE  /\ Systemic(Cluster(alerts[a].facility), {})'
                      /\ \A b \in Cluster(alerts[a].facility)' : alerts'[b].at.rule = alerts'[a].at.rule
    BY DEF OneRule, ManyWells
  <2>1. PICK g \in Recorded \union {i} :
          g = alerts'[a].facility /\ a \in Cluster(g)' /\ (g = i => f = i)
    BY <1>23
  <2>2. Cluster(alerts[a].facility)' = Cluster(g)'
    BY <2>1 DEF Cluster
  <2>3. /\ Systemic(Cluster(g), {})'
        /\ \A b \in Cluster(g)' : alerts'[b].at.rule = alerts'[a].at.rule
    BY <2>1, <1>22
  <2> QED
    BY <2>2, <2>3 DEF Systemic, DistinctWells
<1> QED
  BY <1>11, <1>13, <1>18, <1>24 DEF AlertInv

-----------------------------------------------------------------------------
(* Every other step *)

LEMMA SameAlertsKept ==
  ASSUME AlertsTyped, alerts' = alerts, clock' \in Int
  PROVE  Kept
BY DEF Kept, AlertsTyped

\* One field of one alert changes.
LEMMA TouchKept ==
  ASSUME AlertsTyped, clock' = clock, NEW x \in Recorded, NEW r \in Alert,
         r.at = alerts[x].at, r.facility = alerts[x].facility,
         r.status = "open" => alerts[x].status = "open",
         alerts' = [alerts EXCEPT ![x] = r]
  PROVE  Kept
<1>1. r # Missing
  BY DEF Alert, Missing, Status
<1>2. x \in Ids /\ alerts[x] # Missing /\ alerts \in [Ids -> Alert \union {Missing}]
  BY DEF Recorded, AlertsTyped
<1>3. alerts'[x] = r /\ \A b \in Ids : b # x => alerts'[b] = alerts[b]
  BY <1>2
<1>4. AlertsTyped'
  BY <1>2 DEF AlertsTyped
<1> QED
  BY <1>1, <1>2, <1>3, <1>4 DEF Kept, Recorded

LEMMA PostInv == AlertInv /\ PostAlert => AlertInv'
<1> SUFFICES ASSUME AlertInv, PostAlert PROVE AlertInv'
  OBVIOUS
<1>1. PICK i \in Ids, c \in Conditions, s \in Severities, st \in Status, t \in 0..clock :
        CreateAlert(i, c, s, st, t)
  BY DEF PostAlert
<1>2. clock' = clock /\ AlertsTyped
  BY <1>1 DEF CreateAlert, AlertInv
<1>3. CASE CountRepeat(c, t)
  <2>1. PICK x \in Newest(Duplicates(c)) :
          alerts' = [alerts EXCEPT ![x].count = @ + 1, ![x].time = IF t > @ THEN t ELSE @]
    BY <1>3 DEF CountRepeat
  <2>2. x \in Recorded /\ alerts[x] \in Alert
    BY <1>2, <2>1, RecordedIsAlert DEF Newest, Duplicates, Open
  <2> DEFINE r == [alerts[x] EXCEPT !.count = @ + 1, !.time = IF t > @ THEN t ELSE @]
  <2>3. r \in Alert /\ r.at = alerts[x].at /\ r.facility = alerts[x].facility /\ r.status = alerts[x].status
    <3> DEFINE n == alerts[x].count + 1
               u == IF t > alerts[x].time THEN t ELSE alerts[x].time
    <3>1. n \in Nat
      BY <2>2 DEF Alert
    <3>2. u \in Int
      BY <1>2, <2>2 DEF Alert, AlertsTyped
    <3>3. r = [alerts[x] EXCEPT !.count = n, !.time = u]
      OBVIOUS
    <3> HIDE DEF n, u, r
    <3> QED
      BY <2>2, <3>1, <3>2, <3>3 DEF Alert
  <2>4. alerts' = [alerts EXCEPT ![x] = r]
    BY <1>2, <2>1, <2>2 DEF AlertsTyped
  <2> HIDE DEF r
  <2>5. Kept
    BY <1>2, <2>2, <2>3, <2>4, TouchKept
  <2> QED
    BY <2>5, KeptInv
<1>4. CASE Duplicates(c) = {} /\ RecordAlert(i, c, s, st, t)
  BY <1>2, <1>4, RecordInv
<1> QED
  BY <1>1, <1>3, <1>4 DEF CreateAlert

\* Acknowledged or resolved, an alert is open no more.
LEMMA SetStatusKept ==
  ASSUME AlertsTyped, clock' = clock, NEW x \in Recorded, NEW st \in {"acknowledged", "resolved"},
         SetStatus(x, st)
  PROVE  Kept
<1> DEFINE r == [alerts[x] EXCEPT !.status = st]
<1>1. alerts[x] \in Alert
  BY RecordedIsAlert
<1>2. r \in Alert /\ r.at = alerts[x].at /\ r.facility = alerts[x].facility /\ r.status = st
  BY <1>1 DEF Alert, Status
<1>3. alerts' = [alerts EXCEPT ![x] = r]
  BY DEF SetStatus, AlertsTyped
<1> HIDE DEF r
<1> QED
  BY <1>2, <1>3, TouchKept

LEMMA NextInv == AlertInv /\ [AlertPlaneNext]_alertPlaneVars => AlertInv'
<1> SUFFICES ASSUME AlertInv, [AlertPlaneNext]_alertPlaneVars PROVE AlertInv'
  OBVIOUS
<1>0. AlertsTyped
  BY DEF AlertInv
<1>1. CASE PostAlert
  BY <1>1, PostInv
<1>2. ASSUME NEW a \in Ids, AcknowledgeAlert(a) PROVE AlertInv'
  <2>1. a \in Recorded /\ SetStatus(a, "acknowledged") /\ clock' = clock
    BY <1>2 DEF AcknowledgeAlert, Acknowledge
  <2> QED
    BY <1>0, <2>1, SetStatusKept, KeptInv
<1>3. ASSUME NEW f \in Flushes, FlushItem(f) PROVE AlertInv'
  <2>1. clock' = clock
    BY <1>3 DEF FlushItem
  <2>2. CASE alerts' = alerts
    BY <1>0, <2>1, <2>2, SameAlertsKept, KeptInv DEF AlertsTyped
  <2>3. CASE Acknowledge(Head(flush[f].todo))
    <3>1. \E x \in Recorded : SetStatus(x, "acknowledged")
      BY <2>3 DEF Acknowledge
    <3> QED
      BY <1>0, <2>1, <3>1, SetStatusKept, KeptInv
  <2> QED
    BY <1>3, <2>2, <2>3 DEF FlushItem
<1>4. CASE Triage
  <2>1. ASSUME NEW a \in Ids, ResolveAlert(a) PROVE AlertInv'
    <3>1. a \in Recorded /\ SetStatus(a, "resolved") /\ clock' = clock
      BY <2>1 DEF ResolveAlert
    <3> QED
      BY <1>0, <3>1, SetStatusKept, KeptInv
  <2>2. ASSUME NEW a \in Ids, NEW back \in 0..MaxClock, RunAlertRca(a, back) PROVE AlertInv'
    <3>0. PICK S \in Limited(CrossWell(alerts[a].at, back), RuleLimit) :
            alerts' = [alerts EXCEPT ![a].rca = InferRca(a, back, S)]
      BY <2>2 DEF RunAlertRca
    <3> DEFINE r == [alerts[a] EXCEPT !.rca = InferRca(a, back, S)]
    <3>1. a \in Recorded /\ clock' = clock /\ alerts' = [alerts EXCEPT ![a] = r]
      BY <1>0, <2>2, <3>0 DEF RunAlertRca, AlertsTyped
    <3>2. alerts[a] \in Alert
      BY <1>0, <3>1, RecordedIsAlert
    <3>3. InferRca(a, back, S) \in Scope
      BY DEF InferRca, Scope
    <3>4. /\ r \in Alert /\ r.at = alerts[a].at /\ r.facility = alerts[a].facility
          /\ r.status = alerts[a].status
      BY <3>2, <3>3 DEF Alert
    <3> HIDE DEF r
    <3> QED
      BY <1>0, <3>1, <3>4, TouchKept, KeptInv
  <2> QED
    BY <1>4, <2>1, <2>2 DEF Triage
<1>5. CASE UNCHANGED <<alerts, clock>>
  BY <1>0, <1>5, SameAlertsKept, KeptInv DEF AlertsTyped
<1>6. CASE Tick /\ ServiceOnly
  BY <1>0, <1>6, SameAlertsKept, KeptInv DEF AlertsTyped, Tick
<1>7. CASE Texts \/ Notices \/ (RestartAlerts /\ ServiceOnly) \/ AppStep
  <2>1. UNCHANGED <<alerts, clock>>
    BY <1>7 DEF Texts, Notices, AppStep, RegisterPhone, SendAlertSms, StartNotice, SendSms,
       RestartAlerts, alertVars
  <2> QED
    BY <1>5, <2>1
<1> QED
  BY <1>1, <1>2, <1>3, <1>4, <1>5, <1>6, <1>7 DEF AlertPlaneNext, alertPlaneVars, alertVars

LEMMA InitInv == AlertPlaneInit => AlertInv
<1> SUFFICES ASSUME AlertPlaneInit PROVE AlertInv
  OBVIOUS
<1>1. AlertsTyped /\ Recorded = {}
  BY DEF AlertPlaneInit, AlertInit, AlertsTyped, Recorded
<1> QED
  BY <1>1 DEF AlertInv, OneOpenAlert, Open, FacilityKnown, OneRule, ManyWells, InCluster

\* The invariant below both properties of the alerts.
THEOREM AlertsInvariant == AlertPlaneSpec => []AlertInv
  BY InitInv, NextInv, PTL DEF AlertPlaneSpec

\* create_alert's de-duplication, for any clients and any acknowledgements.
THEOREM OneOpenAlertHolds == AlertPlaneSpec => []OneOpenAlert
  BY AlertsInvariant, PTL DEF AlertInv

\* A facility id always stands for one rule and enough wells.
THEOREM FacilitySpansWellsHolds == AlertPlaneSpec => []FacilitySpansWells
<1>1. AlertInv => FacilitySpansWells
  BY DEF AlertInv, FacilitySpansWells, OneRule, ManyWells, Cluster
<1> QED
  BY <1>1, AlertsInvariant, PTL

-----------------------------------------------------------------------------
(* What the alerts have counted *)

Counts(as, R) == [a \in R |-> as[a].count]

\* Only finitely many alerts are recorded, one for each post at most.
CountInv == AlertInv /\ IsFiniteSet(Recorded) /\ Summed(Counts(alerts, Recorded)) = reports

LEMMA CountsTyped ==
  ASSUME AlertsTyped PROVE Counts(alerts, Recorded) \in [Recorded -> Int]
<1>1. \A a \in Recorded : alerts[a].count \in Int
  BY RecordedIsAlert DEF Alert
<1> QED
  BY <1>1 DEF Counts

\* A step that records and counts nothing.
SameCounts ==
  /\ Recorded' = Recorded
  /\ \A a \in Recorded : alerts'[a].count = alerts[a].count
  /\ reports' = reports

LEMMA SameCountsKeep ==
  ASSUME CountInv, AlertInv', SameCounts PROVE CountInv'
<1>1. Counts(alerts', Recorded') = Counts(alerts, Recorded)
  BY DEF SameCounts, Counts
<1> QED
  BY <1>1 DEF CountInv, SameCounts

\* One field of one alert, not its count.
LEMMA TouchCounts ==
  ASSUME AlertsTyped, reports' = reports, NEW x \in Recorded, NEW r \in Alert,
         r.count = alerts[x].count, alerts' = [alerts EXCEPT ![x] = r]
  PROVE  SameCounts
<1>1. r # Missing
  BY DEF Alert, Missing, Status
<1>2. x \in Ids /\ alerts[x] # Missing /\ alerts \in [Ids -> Alert \union {Missing}]
  BY DEF Recorded, AlertsTyped
<1>3. alerts'[x] = r /\ \A b \in Ids : b # x => alerts'[b] = alerts[b]
  BY <1>2
<1> QED
  BY <1>1, <1>2, <1>3 DEF SameCounts, Recorded

LEMMA RepeatCounted ==
  ASSUME CountInv, NEW t, NEW c, reports' = reports + 1, CountRepeat(c, t)
  PROVE  IsFiniteSet(Recorded)' /\ Summed(Counts(alerts, Recorded))' = reports'
<1>1. PICK x \in Newest(Duplicates(c)) :
        alerts' = [alerts EXCEPT ![x].count = @ + 1, ![x].time = IF t > @ THEN t ELSE @]
  BY DEF CountRepeat
<1>2. x \in Recorded /\ AlertsTyped /\ alerts \in [Ids -> Alert \union {Missing}]
  BY <1>1 DEF Newest, Duplicates, Open, CountInv, AlertInv, AlertsTyped
<1>3. alerts[x] \in Alert /\ x \in Ids
  BY <1>2, RecordedIsAlert
<1> DEFINE r == [alerts[x] EXCEPT !.count = @ + 1, !.time = IF t > @ THEN t ELSE @]
<1>4. r.count = alerts[x].count + 1 /\ r.status = alerts[x].status /\ r # Missing
  BY <1>3 DEF Alert, Missing, Status
<1>5. alerts' = [alerts EXCEPT ![x] = r]
  BY <1>1, <1>2, <1>3
<1> HIDE DEF r
<1>6. alerts'[x] = r /\ \A b \in Ids : b # x => alerts'[b] = alerts[b]
  BY <1>2, <1>3, <1>5
<1>7. Recorded' = Recorded
  BY <1>2, <1>4, <1>6 DEF Recorded
<1> DEFINE f == Counts(alerts, Recorded)
           g == Counts(alerts', Recorded)
<1>8. f \in [Recorded -> Int]
  BY <1>2, CountsTyped
<1>9. g[x] = f[x] + 1 /\ \A a \in Recorded : a # x => g[a] = f[a]
  BY <1>2, <1>4, <1>6 DEF Counts, Recorded
<1>10. g \in [Recorded -> Int]
  <2>1. \A a \in Recorded : g[a] \in Int
    BY <1>2, <1>8, <1>9
  <2> QED
    BY <2>1 DEF Counts
<1>11. Summed(g) = Summed(f) + 1
  <2> HIDE DEF f, g
  <2>1. IsFiniteSet(Recorded) /\ 1 \in Int
    BY DEF CountInv
  <2> QED
    BY <1>2, <1>8, <1>9, <1>10, <2>1, SumWithChange
<1> QED
  BY <1>7, <1>11 DEF CountInv

LEMMA RecordCounted ==
  ASSUME CountInv, reports' = reports + 1, NEW i \in Ids, NEW c \in Conditions,
         NEW s \in Severities, NEW st \in Status, NEW t \in 0..clock, RecordAlert(i, c, s, st, t)
  PROVE  IsFiniteSet(Recorded)' /\ Summed(Counts(alerts, Recorded))' = reports'
<1>0. PICK R \in Limited(OfTheWell(c), WellLimit), S \in Limited(CrossWell(c, Window), RuleLimit) :
        \E k \in Correlation(i, c, R), f \in Facility(i, c, S) :
          alerts' = [a \in Ids |->
            IF a = i
            THEN [at |-> c, severity |-> s, status |-> st, time |-> t, corr |-> k,
                  facility |-> f, count |-> 1, rca |-> "none"]
            ELSE Backfill(a, i, f, S)]
  BY DEF RecordAlert
<1>1. PICK k \in Correlation(i, c, R), f \in Facility(i, c, S) :
        alerts' = [a \in Ids |->
          IF a = i
          THEN [at |-> c, severity |-> s, status |-> st, time |-> t, corr |-> k,
                facility |-> f, count |-> 1, rca |-> "none"]
          ELSE Backfill(a, i, f, S)]
  BY <1>0
<1>2. i \notin Recorded /\ AlertsTyped
  BY DEF RecordAlert, CountInv, AlertInv
<1>3. alerts'[i].count = 1 /\ alerts'[i] # Missing
  <2>1. alerts'[i] = [at |-> c, severity |-> s, status |-> st, time |-> t, corr |-> k,
                      facility |-> f, count |-> 1, rca |-> "none"]
    BY <1>1
  <2>2. st # "missing"
    BY DEF Status
  <2> QED
    BY <2>1, <2>2 DEF Missing
<1>4. ASSUME NEW a \in Recorded
      PROVE  a # i /\ a \in Ids /\ alerts'[a] # Missing /\ alerts'[a].count = alerts[a].count
  <2>1. alerts[a] \in Alert /\ a # i /\ a \in Ids
    BY <1>2, RecordedIsAlert
  <2>2. alerts'[a] = alerts[a] \/ alerts'[a] = [alerts[a] EXCEPT !.facility = i]
    BY <1>1, <2>1 DEF Backfill
  <2> QED
    BY <2>1, <2>2 DEF Alert, Missing, Status
<1>5. \A a \in Ids : a \notin Recorded /\ a # i => alerts'[a] = Missing
  <2>1. \A a \in Ids : a \notin Recorded => alerts[a] = Missing /\ a \notin S
    BY DEF Recorded, CrossWell, Recent, Limited
  <2> QED
    BY <1>1, <2>1 DEF Backfill
<1>6. Recorded' = Recorded \union {i}
  BY <1>3, <1>4, <1>5 DEF Recorded
<1> DEFINE old == Counts(alerts, Recorded)
           new == Counts(alerts', Recorded')
<1>7. old \in [Recorded -> Int]
  BY <1>2, CountsTyped
<1>8. new[i] = 1 /\ \A a \in Recorded : new[a] = old[a]
  BY <1>3, <1>4, <1>6 DEF Counts
<1>9. new \in [Recorded' -> Int]
  <2>1. \A a \in Recorded : old[a] \in Int
    BY <1>7
  <2>2. ASSUME NEW a \in Recorded' PROVE alerts'[a].count \in Int
    <3>1. CASE a = i
      BY <1>3, <3>1
    <3>2. CASE a \in Recorded
      BY <1>4, <2>1, <3>2 DEF Counts
    <3> QED
      BY <1>6, <3>1, <3>2
  <2> QED
    BY <2>2 DEF Counts
<1>10. Summed(new) = Summed(old) + new[i]
  <2>1. IsFiniteSet(Recorded)
    BY DEF CountInv
  <2> HIDE DEF old, new
  <2> QED
    BY <1>2, <1>6, <1>7, <1>8, <1>9, <2>1, SumWithPlace
<1>11. IsFiniteSet(Recorded')
  BY <1>6, FS_AddElement DEF CountInv
<1> QED
  BY <1>8, <1>10, <1>11 DEF CountInv

LEMMA PostCounted == CountInv /\ PostAlert /\ AlertInv' => CountInv'
<1> SUFFICES ASSUME CountInv, PostAlert, AlertInv' PROVE CountInv'
  OBVIOUS
<1>1. PICK i \in Ids, c \in Conditions, s \in Severities, st \in Status, t \in 0..clock :
        CreateAlert(i, c, s, st, t)
  BY DEF PostAlert
<1>2. reports' = reports + 1
  BY <1>1 DEF CreateAlert
<1>3. CountRepeat(c, t) \/ RecordAlert(i, c, s, st, t)
  BY <1>1 DEF CreateAlert
<1>4. IsFiniteSet(Recorded)' /\ Summed(Counts(alerts, Recorded))' = reports'
  BY <1>2, <1>3, RepeatCounted, RecordCounted
<1> QED
  BY <1>4 DEF CountInv

LEMMA StatusCounts ==
  ASSUME AlertsTyped, reports' = reports, NEW x \in Recorded, NEW st \in Status, SetStatus(x, st)
  PROVE  SameCounts
<1> DEFINE r == [alerts[x] EXCEPT !.status = st]
<1>1. alerts[x] \in Alert
  BY RecordedIsAlert
<1>2. r \in Alert /\ r.count = alerts[x].count
  BY <1>1 DEF Alert
<1>3. alerts' = [alerts EXCEPT ![x] = r]
  BY DEF SetStatus, AlertsTyped
<1> HIDE DEF r
<1> QED
  BY <1>2, <1>3, TouchCounts

LEMMA OtherCounts ==
  ASSUME AlertsTyped, [AlertPlaneNext]_alertPlaneVars PROVE PostAlert \/ SameCounts
<1>1. ASSUME UNCHANGED <<alerts, reports>> PROVE SameCounts
  BY <1>1 DEF SameCounts, Recorded
<1>2. ASSUME NEW a \in Ids, AcknowledgeAlert(a) PROVE SameCounts
  <2>1. a \in Recorded /\ SetStatus(a, "acknowledged") /\ reports' = reports
    BY <1>2 DEF AcknowledgeAlert, Acknowledge
  <2>2. "acknowledged" \in Status
    BY DEF Status
  <2> QED
    BY <2>1, <2>2, StatusCounts
<1>3. ASSUME NEW f \in Flushes, FlushItem(f) PROVE SameCounts
  <2>1. reports' = reports
    BY <1>3 DEF FlushItem
  <2>2. CASE alerts' = alerts
    BY <1>1, <2>1, <2>2
  <2>3. CASE Acknowledge(Head(flush[f].todo))
    <3>1. PICK x \in Recorded : SetStatus(x, "acknowledged")
      BY <2>3 DEF Acknowledge
    <3>2. "acknowledged" \in Status
      BY DEF Status
    <3> QED
      BY <2>1, <3>1, <3>2, StatusCounts
  <2> QED
    BY <1>3, <2>2, <2>3 DEF FlushItem
<1>4. CASE Triage
  <2>1. ASSUME NEW a \in Ids, ResolveAlert(a) PROVE SameCounts
    <3>1. a \in Recorded /\ SetStatus(a, "resolved") /\ reports' = reports
      BY <2>1 DEF ResolveAlert
    <3>2. "resolved" \in Status
      BY DEF Status
    <3> QED
      BY <3>1, <3>2, StatusCounts
  <2>2. ASSUME NEW a \in Ids, NEW back \in 0..MaxClock, RunAlertRca(a, back) PROVE SameCounts
    <3>0. PICK S \in Limited(CrossWell(alerts[a].at, back), RuleLimit) :
            alerts' = [alerts EXCEPT ![a].rca = InferRca(a, back, S)]
      BY <2>2 DEF RunAlertRca
    <3> DEFINE r == [alerts[a] EXCEPT !.rca = InferRca(a, back, S)]
    <3>1. a \in Recorded /\ reports' = reports /\ alerts' = [alerts EXCEPT ![a] = r]
      BY <2>2, <3>0 DEF RunAlertRca, AlertsTyped
    <3>2. alerts[a] \in Alert
      BY <3>1, RecordedIsAlert
    <3>3. InferRca(a, back, S) \in Scope
      BY DEF InferRca, Scope
    <3>4. r \in Alert /\ r.count = alerts[a].count
      BY <3>2, <3>3 DEF Alert
    <3> HIDE DEF r
    <3> QED
      BY <3>1, <3>4, TouchCounts
  <2> QED
    BY <1>4, <2>1, <2>2 DEF Triage
<1>5. CASE Tick /\ ServiceOnly
  BY <1>1, <1>5 DEF Tick
<1>6. CASE Texts \/ Notices \/ (RestartAlerts /\ ServiceOnly) \/ AppStep
  <2>1. UNCHANGED <<alerts, reports>>
    BY <1>6 DEF Texts, Notices, AppStep, RegisterPhone, SendAlertSms, StartNotice, SendSms,
       RestartAlerts, alertVars
  <2> QED
    BY <1>1, <2>1
<1>7. CASE UNCHANGED alertPlaneVars
  BY <1>1, <1>7 DEF alertPlaneVars, alertVars
<1> QED
  BY <1>2, <1>3, <1>4, <1>5, <1>6, <1>7 DEF AlertPlaneNext

LEMMA CountStep == CountInv /\ [AlertPlaneNext]_alertPlaneVars => CountInv'
<1> SUFFICES ASSUME CountInv, [AlertPlaneNext]_alertPlaneVars PROVE CountInv'
  OBVIOUS
<1>1. AlertInv' /\ AlertsTyped
  BY NextInv DEF CountInv, AlertInv
<1>2. PostAlert \/ SameCounts
  BY <1>1, OtherCounts
<1> QED
  BY <1>1, <1>2, PostCounted, SameCountsKeep

LEMMA CountStart == AlertPlaneInit => CountInv
<1> SUFFICES ASSUME AlertPlaneInit PROVE CountInv
  OBVIOUS
<1>1. AlertInv /\ Recorded = {} /\ reports = 0
  BY InitInv DEF AlertPlaneInit, AlertInit, Recorded
<1> DEFINE f == Counts(alerts, Recorded)
<1>2. f \in [{} -> Int] /\ \A a \in {} : f[a] = 0
  BY <1>1 DEF Counts
<1>3. Summed(f) = 0
  <2> HIDE DEF f
  <2> QED
    BY <1>2, FS_EmptySet, SumOfZeros
<1> QED
  BY <1>1, <1>3, FS_EmptySet DEF CountInv

\* No handler that rewrites an alert's row loses what another has counted: for
\* any clients, wells and number of reports each is an alert or counted at one.
THEOREM EveryReportCountedHolds == AlertPlaneSpec => []EveryReportCounted
<1>1. Summed(Counts(alerts, Recorded)) = FoldFunction(+, 0, [a \in Recorded |-> alerts[a].count])
  BY Zenon DEF Summed, Counts
<1>2. CountInv => EveryReportCounted
  <2> SUFFICES ASSUME CountInv PROVE EveryReportCounted
    OBVIOUS
  <2>1. Summed(Counts(alerts, Recorded)) = reports
    BY DEF CountInv
  <2> QED
    BY <1>1, <2>1, Zenon DEF EveryReportCounted
<1> QED
  BY <1>2, CountStart, CountStep, PTL DEF AlertPlaneSpec

-----------------------------------------------------------------------------
(* The queue of the app *)

FlushOf(S) == [pc : {"send"}, read : Seq(S), todo : Seq(S), remaining : Seq(S)]

TapOf(S) == [pc : {"write"}, read : Seq(S), alert : S]

HasItem(q, a) == \E i \in DOMAIN q : q[i] = a

\* What a flush has read it has still to send, or keeps, or it was served.
Owed(x, got) ==
  \A i \in DOMAIN x.read :
    HasItem(x.todo, x.read[i]) \/ HasItem(x.remaining, x.read[i]) \/ x.read[i] \in got

FlushOK(x, got, S) ==
  x = Mobile!Idle \/ (x \in FlushOf(S) /\ x.pc = "send" /\ Owed(x, got))

TapsOK(p, S) ==
  /\ p = [t \in Taps |-> p[t]]
  /\ \A t \in Taps : p[t] = Mobile!Idle \/ p[t] \in TapOf(S)

\* The queue, the flushes and the taps know only alerts that were recorded.
PhoneInv ==
  /\ AlertsTyped
  /\ queue \in Seq(Recorded) /\ served \subseteq Recorded /\ queued \subseteq Recorded
  /\ flush = [f \in Flushes |-> flush[f]]
  /\ \A f \in Flushes : FlushOK(flush[f], served, Recorded)
  /\ TapsOK(tap, Recorded)

LEMMA PhoneKinds ==
  ASSUME NEW S
  PROVE  /\ Mobile!Idle \notin FlushOf(S) /\ Mobile!Idle \notin TapOf(S)
         /\ \A x \in FlushOf(S) : x.pc = "send"
BY DEF FlushOf, TapOf, Mobile!Idle

LEMMA FlushGrows ==
  ASSUME NEW S, NEW T, S \subseteq T, NEW got, NEW more, got \subseteq more, NEW x, FlushOK(x, got, S)
  PROVE  FlushOK(x, more, T)
<1>1. CASE x = Mobile!Idle
  BY <1>1 DEF FlushOK
<1>2. CASE x \in FlushOf(S) /\ x.pc = "send" /\ Owed(x, got)
  <2>1. /\ x = [pc |-> x.pc, read |-> x.read, todo |-> x.todo, remaining |-> x.remaining]
        /\ x.read \in Seq(S) /\ x.todo \in Seq(S) /\ x.remaining \in Seq(S)
    BY <1>2 DEF FlushOf
  <2>2. x.read \in Seq(T) /\ x.todo \in Seq(T) /\ x.remaining \in Seq(T)
    BY <2>1, SeqMonotonic
  <2>3. x \in FlushOf(T)
    BY <1>2, <2>1, <2>2 DEF FlushOf
  <2>4. Owed(x, more)
    BY <1>2 DEF Owed
  <2> QED
    BY <1>2, <2>3, <2>4 DEF FlushOK
<1> QED
  BY <1>1, <1>2 DEF FlushOK

LEMMA TapGrows ==
  ASSUME NEW S, NEW T, S \subseteq T, NEW x \in TapOf(S) PROVE x \in TapOf(T)
<1>1. /\ x = [pc |-> x.pc, read |-> x.read, alert |-> x.alert]
      /\ x.pc = "write" /\ x.read \in Seq(S) /\ x.alert \in T
  BY DEF TapOf
<1>2. x.read \in Seq(T)
  BY <1>1, SeqMonotonic
<1> QED
  BY <1>1, <1>2 DEF TapOf

\* The item a flush is at goes where it is answered or fails.
LEMMA ItemTaken ==
  ASSUME NEW S, NEW got, NEW x, x \in FlushOf(S), Owed(x, got), x.todo # <<>>
  PROVE  /\ Head(x.todo) \in S
         /\ FlushOK([x EXCEPT !.todo = Tail(@)], got \union {Head(x.todo)}, S)
         /\ FlushOK([x EXCEPT !.todo = Tail(@), !.remaining = Append(@, Head(x.todo))], got, S)
<1> DEFINE h == Head(x.todo)
           t == Tail(x.todo)
           r == Append(x.remaining, h)
           y == [x EXCEPT !.todo = t]
           z == [x EXCEPT !.todo = t, !.remaining = r]
<1>1. x.read \in Seq(S) /\ x.todo \in Seq(S) /\ x.remaining \in Seq(S) /\ x.pc = "send"
  BY DEF FlushOf
<1>2. h \in S /\ t \in Seq(S) /\ Len(t) = Len(x.todo) - 1
      /\ \A i \in 1..Len(t) : t[i] = x.todo[i + 1]
  BY <1>1, HeadTailProperties
<1>3. r \in Seq(S) /\ Len(r) = Len(x.remaining) + 1 /\ r[Len(x.remaining) + 1] = h
      /\ \A i \in 1..Len(x.remaining) : r[i] = x.remaining[i]
  BY <1>1, <1>2, AppendProperties
<1>4. DOMAIN x.todo = 1..Len(x.todo) /\ DOMAIN t = 1..Len(t) /\ DOMAIN r = 1..Len(r)
      /\ DOMAIN x.remaining = 1..Len(x.remaining)
      /\ Len(x.todo) \in Nat /\ Len(t) \in Nat /\ Len(x.remaining) \in Nat
  BY <1>1, <1>2, <1>3, LenProperties
<1>5. h = x.todo[1]
  BY <1>1
<1>6. y \in FlushOf(S) /\ y.pc = "send" /\ y.todo = t /\ y.read = x.read /\ y.remaining = x.remaining
  BY <1>1, <1>2 DEF FlushOf
<1>7. z \in FlushOf(S) /\ z.pc = "send" /\ z.todo = t /\ z.read = x.read /\ z.remaining = r
  BY <1>1, <1>2, <1>3 DEF FlushOf
<1> HIDE DEF h, t, r, y, z
<1>8. \A a : HasItem(x.todo, a) => a = h \/ HasItem(t, a)
  <2> SUFFICES ASSUME NEW a, NEW i \in 1..Len(x.todo), x.todo[i] = a, a # h PROVE HasItem(t, a)
    BY <1>4 DEF HasItem
  <2>1. i # 1 /\ i - 1 \in 1..Len(t)
    BY <1>2, <1>4, <1>5
  <2>2. t[i - 1] = a
    BY <1>2, <1>4, <2>1
  <2> QED
    BY <1>4, <2>1, <2>2 DEF HasItem
<1>9. HasItem(r, h) /\ \A a : HasItem(x.remaining, a) => HasItem(r, a)
  <2>1. HasItem(r, h)
    BY <1>3, <1>4 DEF HasItem
  <2>2. ASSUME NEW a, NEW i \in 1..Len(x.remaining), x.remaining[i] = a PROVE HasItem(r, a)
    <3>1. i \in 1..Len(r) /\ r[i] = a
      BY <1>3, <1>4, <2>2
    <3> QED
      BY <1>4, <3>1 DEF HasItem
  <2> QED
    BY <1>4, <2>1, <2>2 DEF HasItem
<1>10. Owed(y, got \union {h})
  BY <1>6, <1>8 DEF Owed
<1>11. Owed(z, got)
  BY <1>7, <1>8, <1>9 DEF Owed
<1>12. FlushOK(y, got \union {h}, S) /\ FlushOK(z, got, S)
  BY <1>6, <1>7, <1>10, <1>11 DEF FlushOK
<1>13. /\ y = [x EXCEPT !.todo = Tail(@)]
       /\ z = [x EXCEPT !.todo = Tail(@), !.remaining = Append(@, Head(x.todo))]
  BY DEF y, z, t, r, h
<1> QED
  BY <1>2, <1>12, <1>13 DEF h

\* No alert is ever deleted.
LEMMA RecordedGrows ==
  ASSUME AlertsTyped, [AlertPlaneNext]_alertPlaneVars PROVE Recorded \subseteq Recorded'
<1>1. CASE SameCounts
  BY <1>1 DEF SameCounts
<1>2. CASE PostAlert
  <2>1. PICK i \in Ids, c \in Conditions, s \in Severities, st \in Status, t \in 0..clock :
          CreateAlert(i, c, s, st, t)
    BY <1>2 DEF PostAlert
  <2>2. CASE CountRepeat(c, t)
    <3>1. PICK x \in Newest(Duplicates(c)) :
            alerts' = [alerts EXCEPT ![x].count = @ + 1, ![x].time = IF t > @ THEN t ELSE @]
      BY <2>2 DEF CountRepeat
    <3>2. x \in Recorded /\ alerts[x] \in Alert /\ x \in Ids
      BY <3>1, RecordedIsAlert DEF Newest, Duplicates, Open
    <3> DEFINE r == [alerts[x] EXCEPT !.count = @ + 1, !.time = IF t > @ THEN t ELSE @]
    <3>3. r.status = alerts[x].status /\ r # Missing
      BY <3>2 DEF Alert, Missing, Status
    <3>4. alerts' = [alerts EXCEPT ![x] = r] /\ alerts \in [Ids -> Alert \union {Missing}]
      BY <3>1, <3>2 DEF AlertsTyped
    <3> HIDE DEF r
    <3>5. alerts'[x] = r /\ \A b \in Ids : b # x => alerts'[b] = alerts[b]
      BY <3>2, <3>4
    <3> QED
      BY <3>3, <3>5 DEF Recorded
  <2>3. CASE RecordAlert(i, c, s, st, t)
    <3>0. PICK R \in Limited(OfTheWell(c), WellLimit), S \in Limited(CrossWell(c, Window), RuleLimit) :
            \E k \in Correlation(i, c, R), f \in Facility(i, c, S) :
              alerts' = [a \in Ids |->
                IF a = i
                THEN [at |-> c, severity |-> s, status |-> st, time |-> t, corr |-> k,
                      facility |-> f, count |-> 1, rca |-> "none"]
                ELSE Backfill(a, i, f, S)]
      BY <2>3 DEF RecordAlert
    <3>1. PICK k \in Correlation(i, c, R), f \in Facility(i, c, S) :
            alerts' = [a \in Ids |->
              IF a = i
              THEN [at |-> c, severity |-> s, status |-> st, time |-> t, corr |-> k,
                    facility |-> f, count |-> 1, rca |-> "none"]
              ELSE Backfill(a, i, f, S)]
      BY <3>0
    <3> SUFFICES ASSUME NEW a \in Recorded PROVE a \in Recorded'
      OBVIOUS
    <3>2. a \in Ids /\ a # i /\ alerts[a] \in Alert
      BY <2>3, RecordedIsAlert DEF RecordAlert
    <3>3. alerts'[a] = alerts[a] \/ alerts'[a] = [alerts[a] EXCEPT !.facility = i]
      BY <3>1, <3>2 DEF Backfill
    <3> QED
      BY <3>2, <3>3 DEF Recorded, Alert, Missing, Status
  <2> QED
    BY <2>1, <2>2, <2>3 DEF CreateAlert
<1> QED
  BY <1>1, <1>2, OtherCounts

\* What a step does to the app's queue.
LEMMA FlushItemKeeps ==
  ASSUME PhoneInv, NEW f \in Flushes, FlushItem(f)
  PROVE  /\ UNCHANGED <<queue, tap, queued>> /\ served' \subseteq Recorded /\ served \subseteq served'
         /\ flush' = [g \in Flushes |-> flush'[g]]
         /\ \A g \in Flushes : FlushOK(flush'[g], served', Recorded)
<1> DEFINE x == flush[f]
           h == Head(x.todo)
           y == [x EXCEPT !.todo = Tail(@)]
           z == [x EXCEPT !.todo = Tail(@), !.remaining = Append(@, Head(x.todo))]
<1>1. x # Mobile!Idle /\ x.todo # <<>> /\ UNCHANGED <<queue, tap, queued>>
  BY DEF FlushItem
<1>2. x \in FlushOf(Recorded) /\ Owed(x, served)
  BY <1>1 DEF PhoneInv, FlushOK
<1>3. /\ h \in Recorded
      /\ FlushOK(y, served \union {h}, Recorded) /\ FlushOK(z, served, Recorded)
  <2> HIDE DEF x
  <2>1. x.todo # <<>>
    BY <1>1
  <2> QED
    BY <1>2, <2>1, ItemTaken, ZenonT(30)
<1>4. \/ served' = served \union {h} /\ flush' = [flush EXCEPT ![f] = y]
      \/ served' = served \union {h} /\ flush' = [flush EXCEPT ![f] = z]
      \/ served' = served /\ flush' = [flush EXCEPT ![f] = z]
  BY DEF FlushItem, Mobile!Answered, Mobile!Failed, PhoneInv
<1>5. /\ flush = [g \in Flushes |-> flush[g]] /\ served \subseteq Recorded
      /\ \A g \in Flushes : FlushOK(flush[g], served, Recorded)
  BY DEF PhoneInv
<1> HIDE DEF x, y, z, h
<1>6. \A u, more : served \subseteq more /\ FlushOK(u, served, Recorded) => FlushOK(u, more, Recorded)
  BY FlushGrows
<1>7. CASE served' = served \union {h} /\ flush' = [flush EXCEPT ![f] = y]
  BY <1>1, <1>3, <1>5, <1>6, <1>7
<1>8. CASE served' = served \union {h} /\ flush' = [flush EXCEPT ![f] = z]
  BY <1>1, <1>3, <1>5, <1>6, <1>8
<1>9. CASE served' = served /\ flush' = [flush EXCEPT ![f] = z]
  BY <1>1, <1>3, <1>5, <1>9
<1> QED
  BY <1>4, <1>7, <1>8, <1>9

LEMMA AppStepKeeps ==
  ASSUME PhoneInv, AppStep
  PROVE  /\ queue' \in Seq(Recorded) /\ served' = served /\ queued' \subseteq Recorded
         /\ flush' = [g \in Flushes |-> flush'[g]]
         /\ \A g \in Flushes : FlushOK(flush'[g], served', Recorded)
         /\ TapsOK(tap', Recorded)
<1>0. /\ queue \in Seq(Recorded) /\ flush = [g \in Flushes |-> flush[g]]
      /\ \A g \in Flushes : FlushOK(flush[g], served, Recorded)
      /\ TapsOK(tap, Recorded) /\ queued \subseteq Recorded
  BY DEF PhoneInv
<1>1. ASSUME NEW online \in BOOLEAN, Mobile!NetInfoEvent(online)
      PROVE  /\ queue' = queue /\ served' = served /\ tap' = tap /\ queued' = queued
             /\ flush' = [g \in Flushes |-> flush'[g]]
             /\ \A g \in Flushes : FlushOK(flush'[g], served, Recorded)
  <2>1. queue' = queue /\ served' = served /\ tap' = tap /\ queued' = queued
    BY <1>1 DEF Mobile!NetInfoEvent
  <2>2. CASE flush' = flush
    BY <1>0, <2>1, <2>2
  <2>3. CASE flush' # flush
    <3> DEFINE n == [pc |-> "send", read |-> queue, todo |-> queue, remaining |-> <<>>]
    <3>1. PICK f \in Flushes : flush' = [flush EXCEPT ![f] = n]
      BY <1>1, <2>3 DEF Mobile!NetInfoEvent
    <3>2. n \in FlushOf(Recorded) /\ n.pc = "send"
      BY <1>0, EmptySeq DEF FlushOf
    <3>3. Owed(n, served)
      BY DEF Owed, HasItem
    <3>4. FlushOK(n, served, Recorded)
      BY <3>2, <3>3 DEF FlushOK
    <3> HIDE DEF n
    <3> QED
      BY <1>0, <2>1, <3>1, <3>4
  <2> QED
    BY <2>2, <2>3
<1>2. ASSUME NEW t \in Taps, NEW a \in Recorded, Mobile!TapOffline(t, a)
      PROVE  UNCHANGED <<queue, served, queued, flush>> /\ TapsOK(tap', Recorded)
  <2> DEFINE n == [pc |-> "write", read |-> queue, alert |-> a]
  <2>1. UNCHANGED <<queue, served, queued, flush>> /\ tap' = [tap EXCEPT ![t] = n]
    BY <1>2 DEF Mobile!TapOffline
  <2>2. n \in TapOf(Recorded)
    BY <1>0 DEF TapOf
  <2> HIDE DEF n
  <2> QED
    BY <1>0, <2>1, <2>2 DEF TapsOK
<1>3. ASSUME NEW t \in Taps, Mobile!WriteTap(t)
      PROVE  /\ UNCHANGED <<served, flush>> /\ TapsOK(tap', Recorded)
             /\ queue' \in Seq(Recorded) /\ queued' \subseteq Recorded
  <2>1. /\ tap[t] \in TapOf(Recorded) /\ UNCHANGED <<served, flush>>
        /\ tap' = [tap EXCEPT ![t] = Mobile!Idle]
        /\ queue' = Append(tap[t].read, tap[t].alert) /\ queued' = queued \union {tap[t].alert}
    BY <1>0, <1>3 DEF Mobile!WriteTap, TapsOK
  <2>2. tap[t].read \in Seq(Recorded) /\ tap[t].alert \in Recorded
    BY <2>1 DEF TapOf
  <2>3. queue' \in Seq(Recorded)
    BY <2>1, <2>2, AppendProperties
  <2>4. TapsOK(tap', Recorded)
    BY <1>0, <2>1 DEF TapsOK
  <2> QED
    BY <1>0, <2>1, <2>2, <2>3, <2>4
<1>4. ASSUME NEW f \in Flushes, Mobile!WriteRemaining(f)
      PROVE  /\ queue' \in Seq(Recorded) /\ served' = served /\ tap' = tap /\ queued' = queued
             /\ flush' = [g \in Flushes |-> flush'[g]]
             /\ \A g \in Flushes : FlushOK(flush'[g], served, Recorded)
  <2>1. flush[f] \in FlushOf(Recorded) /\ UNCHANGED <<served, tap, queued>> /\ queue' = flush[f].remaining
        /\ flush' = [flush EXCEPT ![f] = Mobile!Idle]
    BY <1>0, <1>4 DEF Mobile!WriteRemaining, FlushOK
  <2>2. FlushOK(Mobile!Idle, served, Recorded)
    BY DEF FlushOK
  <2>3. queue' \in Seq(Recorded)
    BY <2>1 DEF FlushOf
  <2> QED
    BY <1>0, <2>1, <2>2, <2>3
<1>5. CASE Mobile!Relaunch
  <2>1. /\ UNCHANGED <<queue, served, queued>>
        /\ flush' = [f \in Flushes |-> Mobile!Idle] /\ tap' = [t \in Taps |-> Mobile!Idle]
    BY <1>5 DEF Mobile!Relaunch
  <2> QED
    BY <1>0, <2>1 DEF FlushOK, TapsOK
<1> QED
  BY <1>0, <1>1, <1>2, <1>3, <1>4, <1>5 DEF AppStep

LEMMA PhoneStep == PhoneInv /\ AlertsTyped' /\ [AlertPlaneNext]_alertPlaneVars => PhoneInv'
<1> SUFFICES ASSUME PhoneInv, AlertsTyped', [AlertPlaneNext]_alertPlaneVars PROVE PhoneInv'
  OBVIOUS
<1>1. Recorded \subseteq Recorded'
  BY RecordedGrows DEF PhoneInv
\* It is enough that the step is one on the alerts that there were.
<1>2. ASSUME queue' \in Seq(Recorded), served' \subseteq Recorded, queued' \subseteq Recorded,
             flush' = [f \in Flushes |-> flush'[f]],
             \A f \in Flushes : FlushOK(flush'[f], served', Recorded),
             TapsOK(tap', Recorded)
      PROVE  PhoneInv'
  <2>1. queue' \in Seq(Recorded')
    BY <1>1, <1>2, SeqMonotonic
  <2>2. \A f \in Flushes : FlushOK(flush'[f], served', Recorded')
    BY <1>1, <1>2, FlushGrows
  <2>3. TapsOK(tap', Recorded')
    BY <1>1, <1>2, TapGrows DEF TapsOK
  <2> QED
    BY <1>1, <1>2, <2>1, <2>2, <2>3 DEF PhoneInv
<1>3. /\ queue \in Seq(Recorded) /\ served \subseteq Recorded /\ queued \subseteq Recorded
      /\ flush = [f \in Flushes |-> flush[f]]
      /\ \A f \in Flushes : FlushOK(flush[f], served, Recorded)
      /\ TapsOK(tap, Recorded)
  BY DEF PhoneInv
<1>4. CASE UNCHANGED mobileVars
  BY <1>2, <1>3, <1>4 DEF mobileVars
<1>5. ASSUME NEW f \in Flushes, FlushItem(f) PROVE PhoneInv'
  BY <1>2, <1>3, <1>5, FlushItemKeeps
<1>6. CASE AppStep
  BY <1>2, <1>3, <1>6, AppStepKeeps
<1> QED
  BY <1>4, <1>5, <1>6
     DEF AlertPlaneNext, ServiceOnly, PostAlert, AcknowledgeAlert, Triage, Texts, Notices, alertPlaneVars

\* What the queue holds, a flush sends and a tap adds are alerts that the service has,
\* and a flush has still what it has read and the service has not got.
THEOREM PhoneInvariant == AlertPlaneSpec => []PhoneInv
<1>1. AlertPlaneInit => PhoneInv
  <2> SUFFICES ASSUME AlertPlaneInit PROVE PhoneInv
    OBVIOUS
  <2>1. AlertsTyped
    BY InitInv DEF AlertInv
  <2>2. /\ queue = <<>> /\ served = {} /\ queued = {} /\ tap = [t \in Taps |-> Mobile!Idle]
        /\ flush = [f \in Flushes |-> Mobile!Idle]
    BY DEF AlertPlaneInit, Mobile!MobileInit
  <2>3. queue \in Seq(Recorded)
    BY <2>2, EmptySeq
  <2> QED
    BY <2>1, <2>2, <2>3 DEF PhoneInv, FlushOK, TapsOK
<1>2. AlertInv => AlertsTyped
  BY DEF AlertInv
<1> QED
  BY <1>1, <1>2, PhoneStep, AlertsInvariant, PTL DEF AlertPlaneSpec

\* For any number of flushes, taps and alerts: an acknowledgement leaves the offline
\* queue only when the service has got it, or when it came into the queue after the
\* flush or the tap whose write that is had read it.
THEOREM OnlyStaleWritesDropHolds == AlertPlaneSpec => OnlyStaleWritesDrop
<1> DEFINE Explained ==
      \A a \in Mobile!Items(queue) \ Mobile!Items(queue') :
        \/ a \in served
        \/ \E t \in Taps :
             /\ tap[t] # Mobile!Idle /\ tap'[t] = Mobile!Idle
             /\ a \notin Mobile!Items(tap[t].read)
        \/ \E f \in Flushes :
             /\ flush[f] # Mobile!Idle /\ flush'[f] = Mobile!Idle
             /\ a \notin Mobile!Items(flush[f].read)
<1>1. PhoneInv /\ [AlertPlaneNext]_alertPlaneVars => [Explained]_alertPlaneVars
  <2> SUFFICES ASSUME PhoneInv, AlertPlaneNext, NEW a \in Mobile!Items(queue) \ Mobile!Items(queue')
               PROVE  \/ a \in served
                      \/ \E t \in Taps :
                           /\ tap[t] # Mobile!Idle /\ tap'[t] = Mobile!Idle
                           /\ a \notin Mobile!Items(tap[t].read)
                      \/ \E f \in Flushes :
                           /\ flush[f] # Mobile!Idle /\ flush'[f] = Mobile!Idle
                           /\ a \notin Mobile!Items(flush[f].read)
    OBVIOUS
  <2>1. queue' # queue
    OBVIOUS
  <2>2. \/ \E t \in Taps : Mobile!WriteTap(t)
        \/ \E f \in Flushes : Mobile!WriteRemaining(f)
    BY <2>1
       DEF AlertPlaneNext, ServiceOnly, PostAlert, AcknowledgeAlert, Triage, Texts, Notices, mobileVars,
           FlushItem, AppStep, Mobile!NetInfoEvent, Mobile!TapOffline, Mobile!Relaunch
  <2>3. ASSUME NEW t \in Taps, Mobile!WriteTap(t)
        PROVE  /\ tap[t] # Mobile!Idle /\ tap'[t] = Mobile!Idle
               /\ a \notin Mobile!Items(tap[t].read)
    <3>1. /\ tap[t] \in TapOf(Recorded) /\ tap[t] # Mobile!Idle
          /\ queue' = Append(tap[t].read, tap[t].alert) /\ tap'[t] = Mobile!Idle
      BY <2>3 DEF Mobile!WriteTap, PhoneInv, TapsOK
    <3>2. tap[t].read \in Seq(Recorded) /\ tap[t].alert \in Recorded
      BY <3>1 DEF TapOf
    <3>3. /\ DOMAIN tap[t].read = 1..Len(tap[t].read) /\ Len(tap[t].read) \in Nat
          /\ DOMAIN queue' = 1..Len(tap[t].read) + 1
          /\ \A i \in DOMAIN tap[t].read : queue'[i] = tap[t].read[i]
      BY <3>1, <3>2, AppendProperties, LenProperties
    <3>4. \A i \in DOMAIN tap[t].read : i \in DOMAIN queue'
      BY <3>3
    <3> QED
      BY <3>1, <3>3, <3>4 DEF Mobile!Items
  <2>4. ASSUME NEW f \in Flushes, Mobile!WriteRemaining(f)
        PROVE  /\ flush[f] # Mobile!Idle /\ flush'[f] = Mobile!Idle
               /\ a \in served \/ a \notin Mobile!Items(flush[f].read)
    <3>1. /\ Owed(flush[f], served) /\ flush[f].todo = <<>> /\ queue' = flush[f].remaining
          /\ flush[f] # Mobile!Idle
      BY <2>4 DEF Mobile!WriteRemaining, PhoneInv, FlushOK
    <3>2. ~HasItem(flush[f].todo, a)
      BY <3>1 DEF HasItem
    <3>3. ~HasItem(flush[f].remaining, a)
      BY <3>1 DEF HasItem, Mobile!Items
    <3>4. flush'[f] = Mobile!Idle
      BY <2>4 DEF Mobile!WriteRemaining, PhoneInv
    <3> QED
      BY <3>1, <3>2, <3>3, <3>4 DEF Owed, Mobile!Items
  <2> QED
    BY <2>2, <2>3, <2>4
<1> QED
  BY <1>1, PhoneInvariant, PTL DEF AlertPlaneSpec, OnlyStaleWritesDrop

-----------------------------------------------------------------------------
(* KafkaConsumer and Operations: types *)

LEMMA ConsumerTypedStart == ConsumerInit => ConsumerTypeOK
  BY ConsumerAssumption, EmptySeq DEF ConsumerInit, ConsumerTypeOK

\* No offset is past the end of the partition.
LEMMA ConsumerTypedStep == ConsumerTypeOK /\ [ConsumerNext]_consumerVars => ConsumerTypeOK'
<1> SUFFICES ASSUME ConsumerTypeOK, [ConsumerNext]_consumerVars PROVE ConsumerTypeOK'
  OBVIOUS
<1> USE ConsumerAssumption DEF ConsumerTypeOK, Fixed, Consuming, AtPoll, InCallback
<1>0. Len(topic) \in Nat
  BY LenProperties
<1>1. ASSUME NEW m \in {"readable", "unreadable"}, Produce(m) PROVE ConsumerTypeOK'
  <2>1. topic' \in Seq({"readable", "unreadable"}) /\ Len(topic') = Len(topic) + 1
    BY <1>1, AppendProperties DEF Produce
  <2> QED
    BY <1>0, <1>1, <2>1 DEF Produce
<1>2. CASE StartConsumer
  <2>1. Beginning \in 0..Len(topic)
    BY <1>0 DEF Beginning
  <2> QED
    BY <1>0, <1>2, <2>1 DEF StartConsumer
<1>3. CASE Poll
  BY <1>0, <1>3 DEF Poll
<1>4. CASE Processed
  BY <1>0, <1>4 DEF Processed
<1>5. CASE ToDlq
  BY <1>0, <1>5 DEF ToDlq
<1>6. CASE CommitLands
  BY <1>0, <1>6 DEF CommitLands
<1>7. CASE CommitLost
  BY <1>0, <1>7 DEF CommitLost
<1>8. CASE StopConsumer
  BY <1>0, <1>8 DEF StopConsumer, Ends
<1>9. CASE CrashConsumer
  BY <1>0, <1>9 DEF CrashConsumer, Ends
<1>10. CASE UNCHANGED consumerVars
  BY <1>10 DEF consumerVars
<1> QED
  BY <1>1, <1>2, <1>3, <1>4, <1>5, <1>6, <1>7, <1>8, <1>9, <1>10 DEF ConsumerNext

-----------------------------------------------------------------------------
(* Operations *)

TablesOK ==
  /\ \A c \in Codes : subsidiaries[c] \in [active : WellCounts, goal : Goals, reservoirs : SUBSET Fluids]
                                         \union {NoSubsidiary}
  /\ \A e \in Equipments : equipment[e] \in [sub : Codes, active : BOOLEAN] \union {NoEquipment}
  /\ DOMAIN subsidiaries = Codes /\ DOMAIN equipment = Equipments
  /\ readings \in Seq([well : WellNames, sub : Codes, day : Days, rate : Rates])
  /\ targets \in Seq([sub : Codes, day : Days, rate : Rates])
  /\ status \in {"unknown", "ahead", "behind"}
  /\ calls \in 0..MaxCalls

LEMMA TablesStart == OperationsInit => TablesOK
  BY OperationsAssumption, EmptySeq DEF OperationsInit, TablesOK

LEMMA TablesStep == TablesOK /\ [OperationsNext]_operationsVars => TablesOK'
<1> SUFFICES ASSUME TablesOK, [OperationsNext]_operationsVars PROVE TablesOK'
  OBVIOUS
<1> USE OperationsAssumption DEF TablesOK
<1>1. Call => calls' \in 0..MaxCalls
  BY DEF Call
<1>2. ASSUME NEW c \in Codes, NEW k \in WellCounts, NEW g \in Goals, UpdateSubsidiary(c, k, g) PROVE TablesOK'
  BY <1>1, <1>2 DEF UpdateSubsidiary, Exists
<1>3. ASSUME NEW c \in Codes, NEW k \in WellCounts, NEW g \in Goals, NEW rs \in SUBSET Fluids,
             CreateSubsidiary(c, k, g, rs)
      PROVE  TablesOK'
  BY <1>1, <1>3 DEF CreateSubsidiary
<1>4. ASSUME NEW c \in Codes, NEW rs \in SUBSET Fluids, ReplaceReservoirs(c, rs) PROVE TablesOK'
  BY <1>1, <1>4 DEF ReplaceReservoirs, Exists
<1>5. ASSUME NEW c \in Codes, NEW e \in Equipments, CreateEquipment(e, c) PROVE TablesOK'
  BY <1>1, <1>5 DEF CreateEquipment
<1>6. ASSUME NEW c \in Codes, NEW w \in WellNames, NEW day \in Days, NEW rate \in Rates,
             CreateManualReading(w, c, day, rate)
      PROVE  TablesOK'
  BY <1>1, <1>6, AppendProperties DEF CreateManualReading
<1>7. ASSUME NEW c \in Codes, NEW day \in Days, NEW rate \in Rates, CreateProductionTarget(c, day, rate)
      PROVE  TablesOK'
  BY <1>1, <1>7, AppendProperties DEF CreateProductionTarget
<1>8. ASSUME NEW c \in Codes, ProductionStatus(c) PROVE TablesOK'
  <2>1. status' \in {"unknown", "ahead", "behind"}
    BY <1>8 DEF ProductionStatus, Judged
  <2> QED
    BY <1>1, <1>8, <2>1 DEF ProductionStatus
<1>9. ASSUME NEW e \in Equipments, DeleteEquipment(e) \/ \E active \in BOOLEAN : UpdateEquipment(e, active)
      PROVE  TablesOK'
  BY <1>1, <1>9 DEF DeleteEquipment, UpdateEquipment
<1>10. ASSUME NEW w \in WellNames, NEW day \in Days, NEW rate \in Rates,
              NEW curve \in Curves \union {NoCurve}, RecordVfmDecline(w, day, rate, curve)
       PROVE  TablesOK'
  BY <1>1, <1>10 DEF RecordVfmDecline
<1>11. CASE UNCHANGED operationsVars
  BY <1>11 DEF operationsVars
<1> QED
  BY <1>2, <1>3, <1>4, <1>5, <1>6, <1>7, <1>8, <1>9, <1>10, <1>11 DEF OperationsNext

LEMMA OperationsTyped == DeclineInv /\ TablesOK => OperationsTypeOK
  BY DEF DeclineInv, TablesOK, OperationsTypeOK, Decline

-----------------------------------------------------------------------------
(* ModelRegistry: types *)

\* A test has counted so many samples, and of those so many for the candidate.
CountsOK(samples, candidates) == samples <= MaxSamples /\ candidates <= samples

ModelLimits ==
  /\ manager \in BOOLEAN
  /\ trainings <= MaxTrainings
  /\ \A k \in Models : CountsOK(tests[k].samples, tests[k].candidates) /\ scalers[k] <= trainings
  /\ answer.model <= trainings /\ answer.scaler <= trainings

LEMMA LimitsStart == ModelInit => ModelLimits
<1> SUFFICES ASSUME ModelInit PROVE ModelLimits
  OBVIOUS
<1>1. CountsOK(NoTest.samples, NoTest.candidates)
  BY ModelAssumption DEF NoTest, CountsOK
<1>2. NoAnswer.model = 0 /\ NoAnswer.scaler = 0
  BY DEF NoAnswer, Unset
<1>3. /\ manager = FALSE /\ trainings = 0 /\ answer = NoAnswer
      /\ tests = [k \in Models |-> NoTest] /\ scalers = [k \in Models |-> 0]
  BY DEF ModelInit, Unset
<1>4. trainings <= MaxTrainings /\ answer.model <= trainings /\ answer.scaler <= trainings
  BY <1>2, <1>3, ModelAssumption
<1>5. \A k \in Models : CountsOK(tests[k].samples, tests[k].candidates) /\ scalers[k] <= trainings
  BY <1>1, <1>3
<1> QED
  BY <1>3, <1>4, <1>5 DEF ModelLimits

\* The counts after a request.
LEMMA SampledCounts ==
  ASSUME TestsOK, ModelLimits, NEW k \in Models, NEW s, tests[k].samples < MaxSamples, NEW j \in Models
  PROVE  CountsOK(Sampled(k, s)[j].samples, Sampled(k, s)[j].candidates)
<1> DEFINE T == [plan : Rollouts \union {NoPlan}, samples : Nat, candidates : Nat]
           x == tests[k]
           c == IF ToCandidate(k, s) THEN x.candidates + 1 ELSE x.candidates
           y == [[x EXCEPT !.samples = x.samples + 1] EXCEPT !.candidates = c]
<1>1. x \in T /\ x.samples \in Nat /\ x.candidates \in Nat /\ CountsOK(x.samples, x.candidates)
  BY DEF TestsOK, ModelLimits
<1>2. c <= x.samples + 1
  BY <1>1 DEF CountsOK
<1>3. y.samples = x.samples + 1 /\ y.candidates = c
  <2> HIDE DEF c, x
  <2> QED
    BY <1>1
<1>4. CountsOK(y.samples, y.candidates)
  BY <1>1, <1>2, <1>3, ModelAssumption DEF CountsOK
<1>5. Sampled(k, s) = IF ~Tested(k) THEN tests ELSE [tests EXCEPT ![k] = y]
  BY DEF Sampled
<1> HIDE DEF y, c
<1>6. CASE j = k
  BY <1>1, <1>4, <1>5, <1>6 DEF TestsOK
<1>7. CASE j # k
  BY <1>5, <1>7 DEF TestsOK, ModelLimits
<1> QED
  BY <1>6, <1>7

\* What is found, on the disk or in memory, was made by a training there was.
LEMMA TrainedBefore ==
  ASSUME RegistryInv, ModelLimits, NEW k \in Models
  PROVE  /\ models[k] <= trainings /\ disk[k] <= trainings
         /\ \A v \in Nat : Found(k, v) => TrainingOf(k, v) <= trainings
         /\ \A loads \in BOOLEAN : ScalerAfter(k, loads) <= trainings
<1>1. MemoryOK /\ InTurn(Made(k), halfway, disk[k], scalers[k], models[k], k \in Scaled, trainings)
  BY DEF RegistryInv, ScalersOK
<1>2. models[k] <= trainings /\ disk[k] <= trainings
  BY <1>1 DEF InTurn, MemoryOK, Unset
<1>3. ASSUME NEW v \in Nat, Found(k, v) PROVE TrainingOf(k, v) <= trainings
  BY <1>1, <1>3, FoundMade DEF InTurn
<1>4. ASSUME NEW loads \in BOOLEAN PROVE ScalerAfter(k, loads) <= trainings
  BY <1>1 DEF InTurn, MemoryOK, ScalerAfter, ModelLimits
<1> QED
  BY <1>2, <1>3, <1>4

LEMMA LoadLimits ==
  ASSUME RegistryInv, ModelLimits, UNCHANGED <<Rest, tests, answer>>, manager' \in BOOLEAN,
         NEW found \in SUBSET Reachable, NEW read \in SUBSET (found \cap Scaled), LoadAll(found, read)
  PROVE  ModelLimits'
<1>1. scalers' = [k \in Models |-> IF k \in found THEN ScalerAfter(k, k \in read) ELSE scalers[k]]
  BY DEF LoadAll
<1>2. \A k \in Models : scalers'[k] <= trainings
  <2>1. \A k \in Models : ScalerAfter(k, k \in read) <= trainings /\ scalers[k] <= trainings
    <3>1. \A k \in Models : scalers[k] <= trainings
      BY DEF ModelLimits
    <3> QED
      BY <3>1, TrainedBefore DEF ScalerAfter
  <2> QED
    BY <1>1, <2>1
<1> QED
  BY <1>2 DEF ModelLimits, Rest

LEMMA TrainLimits ==
  ASSUME RegistryInv, ModelLimits, NEW k \in Models, Train(k)
  PROVE  ModelLimits'
<1>1. trainings \in Nat /\ trainings' = trainings + 1 /\ trainings' <= MaxTrainings
  BY ModelAssumption DEF RegistryInv, MemoryOK, Train
<1>2. /\ scalers \in [Models -> Nat] /\ \A j \in Models : scalers[j] <= trainings
      /\ answer.model \in Nat /\ answer.scaler \in Nat
  BY DEF RegistryInv, MemoryOK, ModelLimits
<1>3. scalers' = scalers \/ scalers' = [scalers EXCEPT ![k] = trainings + 1]
  BY DEF Train, ScalerTrained
<1>4. \A j \in Models : scalers'[j] <= trainings'
  BY <1>1, <1>2, <1>3
<1>5. UNCHANGED <<manager, tests, answer>>
  BY DEF Train
<1> QED
  BY <1>1, <1>2, <1>4, <1>5 DEF ModelLimits

LEMMA PredictLimits ==
  ASSUME RegistryInv, ModelLimits, NEW k \in Models, NEW v \in Nat, NEW counts, Predict(k, v, counts),
         \A j \in Models : CountsOK(counts[j].samples, counts[j].candidates)
  PROVE  ModelLimits'
<1>1. /\ scalers \in [Models -> Nat] /\ \A j \in Models : scalers[j] <= trainings
      /\ models[k] <= trainings
  BY TrainedBefore DEF RegistryInv, MemoryOK, ModelLimits
<1>2. UNCHANGED <<manager, trainings>> /\ tests' = counts
  BY DEF Predict, Rest
<1>3. ASSUME NEW m, m <= trainings, NEW c, c <= trainings, scalers' = [scalers EXCEPT ![k] = c],
             answer' \in {answer, [key |-> k, version |-> v, model |-> m, scaler |-> c]}
      PROVE  ModelLimits'
  <2>1. \A j \in Models : scalers'[j] <= trainings
    BY <1>1, <1>3
  <2>2. answer'.model <= trainings /\ answer'.scaler <= trainings
    BY <1>3 DEF ModelLimits
  <2> QED
    BY <1>2, <2>1, <2>2 DEF ModelLimits
<1>4. ASSUME Found(k, v), NEW reads \in BOOLEAN,
             scalers' = [scalers EXCEPT ![k] = ScalerAfter(k, reads)],
             answer' \in {answer, [key |-> k, version |-> v, model |-> TrainingOf(k, v),
                                   scaler |-> ScalerAfter(k, reads)]}
      PROVE  ModelLimits'
  BY <1>3, <1>4, TrainedBefore
<1>5. \A reads \in BOOLEAN :
        (IF scalers[k] = Unset THEN ScalerAfter(k, reads) ELSE scalers[k]) <= trainings
  BY <1>1, TrainedBefore
<1>6. ASSUME NEW c, c <= trainings, scalers' = [scalers EXCEPT ![k] = c],
             answer' \in {answer, [key |-> k, version |-> v, model |-> models[k], scaler |-> c]}
      PROVE  ModelLimits'
  BY <1>1, <1>3, <1>6
<1>7. CASE UNCHANGED <<models, scalers, answer>>
  BY <1>2, <1>7 DEF ModelLimits
<1> QED
  BY <1>4, <1>5, <1>6, <1>7 DEF Predict, LoadFails

LEMMA LimitsStep == RegistryInv /\ TestsOK /\ ModelLimits /\ [ModelNext]_modelVars => ModelLimits'
<1> SUFFICES ASSUME RegistryInv, TestsOK, ModelLimits, [ModelNext]_modelVars PROVE ModelLimits'
  OBVIOUS
<1>1. CASE StartModels \/ ReloadModels
  <2>1. manager' \in BOOLEAN /\ UNCHANGED <<Rest, tests, answer>>
    BY <1>1 DEF StartModels, ReloadModels, ModelLimits, Rest
  <2> QED
    BY <1>1, <2>1, LoadLimits DEF StartModels, ReloadModels
<1>2. CASE RestartModels
  <2>1. CountsOK(NoTest.samples, NoTest.candidates) /\ trainings \in Nat
    BY ModelAssumption DEF NoTest, CountsOK, RegistryInv, MemoryOK
  <2>2. tests' = [k \in Models |-> NoTest] /\ scalers' = [k \in Models |-> 0] /\ manager' = FALSE
    BY <1>2 DEF RestartModels, Unset
  <2>3. UNCHANGED <<trainings, answer>>
    BY <1>2 DEF RestartModels, Rest
  <2>4. \A k \in Models : CountsOK(tests'[k].samples, tests'[k].candidates) /\ scalers'[k] <= trainings
    BY <2>1, <2>2
  <2> QED
    BY <2>2, <2>3, <2>4 DEF ModelLimits
<1>3. CASE Forecast
  BY <1>3, PredictLimits, ModelAssumption DEF Forecast, Unset, ModelLimits
<1>4. ASSUME NEW k \in Models, Train(k) PROVE ModelLimits'
  BY <1>4, TrainLimits
<1>5. ASSUME NEW k \in Models, NEW rollout \in Rollouts, ConfigureAbTest(k, rollout) PROVE ModelLimits'
  <2> DEFINE fresh == [plan |-> rollout, samples |-> 0, candidates |-> 0]
  <2>1. CountsOK(fresh.samples, fresh.candidates)
    BY ModelAssumption DEF CountsOK
  <2>2. tests' = [tests EXCEPT ![k] = fresh] /\ UNCHANGED <<manager, trainings, scalers, answer>>
    BY <1>5 DEF ConfigureAbTest, Rest
  <2> HIDE DEF fresh
  <2>3. \A j \in Models : tests'[j] = IF j = k THEN fresh ELSE tests[j]
    BY <2>2 DEF TestsOK
  <2> QED
    BY <2>1, <2>2, <2>3 DEF ModelLimits
<1>6. ASSUME NEW k \in Models, NEW s \in Sensors, NEW v \in Versions, Infer(k, s, v) PROVE ModelLimits'
  <2>1. v \in Nat /\ Resolved(k, s) \in Nat /\ tests[k].samples < MaxSamples
    BY <1>6, ResolvedVersion DEF Versions, Infer
  <2>2. \A j \in Models : CountsOK(tests[j].samples, tests[j].candidates)
    BY DEF ModelLimits
  <2>3. \A j \in Models : CountsOK(Sampled(k, s)[j].samples, Sampled(k, s)[j].candidates)
    BY <2>1, SampledCounts
  <2> QED
    BY <1>6, <2>1, <2>2, <2>3, PredictLimits DEF Infer
<1>7. CASE UNCHANGED modelVars
  BY <1>7 DEF modelVars, ModelLimits
<1> QED
  BY <1>1, <1>2, <1>3, <1>4, <1>5, <1>6, <1>7 DEF ModelNext

LEMMA ModelTyped == RegistryInv /\ TestsOK /\ ModelLimits => ModelTypeOK
<1> SUFFICES ASSUME RegistryInv, TestsOK, ModelLimits PROVE ModelTypeOK
  OBVIOUS
<1>1. MemoryOK
  BY DEF RegistryInv
<1>10. ASSUME NEW k \in Models
       PROVE  (\A t \in Made(k) : t \in Nat \ {0} /\ t <= trainings) /\ disk[k] <= trainings
  BY DEF RegistryInv, ScalersOK, InTurn
<1>2. trainings \in 0..MaxTrainings
  BY <1>1, ModelAssumption DEF MemoryOK, ModelLimits
<1>3. ASSUME NEW k \in Models PROVE registry[k] \in Seq(1..MaxTrainings)
  <2>1. registry[k] \in Seq(Nat)
    BY <1>1 DEF MemoryOK
  <2>2. Len(registry[k]) \in Nat /\ DOMAIN registry[k] = 1..Len(registry[k])
        /\ registry[k] = [i \in 1..Len(registry[k]) |-> registry[k][i]]
    BY <2>1, LenProperties
  <2>3. ASSUME NEW i \in 1..Len(registry[k]) PROVE registry[k][i] \in 1..MaxTrainings
    <3>1. registry[k][i] \in Made(k)
      BY <2>2 DEF Made
    <3> QED
      BY <1>2, <1>10, <3>1, ModelAssumption
  <2>4. registry[k] \in [1..Len(registry[k]) -> 1..MaxTrainings]
    BY <2>2, <2>3
  <2> QED
    BY <2>2, <2>4, SeqDef
<1>4. registry \in [Models -> Seq(1..MaxTrainings)]
  BY <1>1, <1>3 DEF MemoryOK
<1>5. \A k \in Models : models[k] <= trainings /\ disk[k] <= trainings /\ scalers[k] <= trainings
  <2>1. \A k \in Models : scalers[k] <= trainings
    BY DEF ModelLimits
  <2> QED
    BY <1>10, <2>1, TrainedBefore
<1>6. \A v \in {disk, models, scalers} : v \in [Models -> 0..MaxTrainings]
  <2>1. ASSUME NEW v \in [Models -> Nat], \A k \in Models : v[k] <= trainings
        PROVE  v \in [Models -> 0..MaxTrainings]
    BY <1>2, <2>1, ModelAssumption
  <2> QED
    BY <1>1, <1>5, <2>1 DEF MemoryOK
<1>7. /\ \A k \in Models : tests[k].candidates <= tests[k].samples
      /\ tests \in [Models -> [plan : Rollouts \union {NoPlan}, samples : 0..MaxSamples,
                               candidates : 0..MaxSamples]]
  <2>1. ASSUME NEW k \in Models
        PROVE  /\ tests[k] \in [plan : Rollouts \union {NoPlan}, samples : 0..MaxSamples, candidates : 0..MaxSamples]
               /\ tests[k].candidates <= tests[k].samples
    <3>1. tests[k] \in [plan : Rollouts \union {NoPlan}, samples : Nat, candidates : Nat]
      BY DEF TestsOK
    <3>2. CountsOK(tests[k].samples, tests[k].candidates)
      BY DEF ModelLimits
    <3> QED
      BY <3>1, <3>2, ModelAssumption DEF CountsOK
  <2> QED
    BY <2>1 DEF TestsOK
<1>8. answer \in [key : Models, version : Nat, model : 0..MaxTrainings, scaler : 0..MaxTrainings]
  <2>1. answer.model <= trainings /\ answer.scaler <= trainings
    BY DEF ModelLimits
  <2> QED
    BY <1>1, <1>2, <2>1, ModelAssumption DEF MemoryOK
<1>9. halfway \subseteq 1..trainings /\ manager \in BOOLEAN
  BY <1>1 DEF MemoryOK, ModelLimits
<1> QED
  BY <1>2, <1>4, <1>6, <1>7, <1>8, <1>9 DEF ModelTypeOK

-----------------------------------------------------------------------------
(* WorkOrders: types *)

\* An order and what links to it.
OrderRow == [id : Systems \X Nat, alert : Faults \union {Nobody}, job : Jobs \union {Nobody}]

\* x is linked to nothing or to an order that was made for it.
LinkOK(x, link, made) ==
  \/ link = NoOrder
  \/ \E i \in DOMAIN made : made[i].id = link /\ x \in {made[i].alert, made[i].job}

LEMMA OrdersTypedStart == OrdersInit => OrdersTypeOK
  BY OrdersAssumption, EmptySeq DEF OrdersInit, OrdersTypeOK

\* An order more leaves every link sound, and the new ones are.
LEMMA MakeKeeps ==
  ASSUME OrdersTypeOK, NEW a \in Faults \union {Nobody}, NEW job \in Jobs \union {Nobody},
         NEW erp \in Systems, Make(a, job, erp), NEW rows \in SUBSET {a, job}, linked' = LinkedTo(rows, erp),
         UNCHANGED <<second, raised, connectors, devices, pushes>>
  PROVE  OrdersTypeOK'
<1> DEFINE o == [id |-> OrderId(erp), alert |-> a, job |-> job]
<1>1. o \in OrderRow /\ o.id = OrderId(erp) /\ o.alert = a /\ o.job = job
  BY OrdersAssumption DEF OrderRow, OrderId, OrdersTypeOK
<1>2. orders \in Seq(OrderRow) /\ orders' = Append(orders, o)
  BY DEF OrdersTypeOK, OrderRow, Make
<1> HIDE DEF o
<1>3. /\ orders' \in Seq(OrderRow) /\ Len(orders) + 1 \in DOMAIN orders' /\ orders'[Len(orders) + 1] = o
      /\ \A i \in DOMAIN orders : i \in DOMAIN orders' /\ orders'[i] = orders[i]
  BY <1>1, <1>2, AppendProperties, LenProperties
<1>4. /\ linked \in [Faults \union Jobs -> (Systems \X Nat) \union {NoOrder}]
      /\ linked' = [x \in Faults \union Jobs |-> IF x \in rows THEN OrderId(erp) ELSE linked[x]]
  BY DEF OrdersTypeOK, LinkedTo
<1>5. OrderId(erp) \in Systems \X Nat
  BY OrdersAssumption DEF OrderId, OrdersTypeOK
<1>6. linked' \in [Faults \union Jobs -> (Systems \X Nat) \union {NoOrder}]
  BY <1>4, <1>5
<1>7. ASSUME NEW x \in Faults \union Jobs PROVE LinkOK(x, linked'[x], orders')
  <2>1. CASE x \in rows
    BY <1>1, <1>3, <1>4, <2>1 DEF LinkOK
  <2>2. CASE x \notin rows
    <3>1. linked'[x] = linked[x] /\ LinkOK(x, linked[x], orders)
      BY <1>4, <2>2 DEF OrdersTypeOK, LinkOK
    <3> QED
      BY <1>3, <3>1 DEF LinkOK
  <2> QED
    BY <2>1, <2>2
<1>8. /\ second' \in 0..MaxSecond /\ raised' \in [Faults -> {"none", "warning", "critical"}]
      /\ connectors' \subseteq Systems /\ devices' \subseteq Devices /\ pushes' \subseteq Faults
  BY DEF OrdersTypeOK
<1> QED
  BY <1>3, <1>6, <1>7, <1>8 DEF OrdersTypeOK, LinkOK, OrderRow

LEMMA OrdersTypedStep == OrdersTypeOK /\ [OrdersNext]_orderVars => OrdersTypeOK'
<1> SUFFICES ASSUME OrdersTypeOK, [OrdersNext]_orderVars PROVE OrdersTypeOK'
  OBVIOUS
<1>1. ASSUME UNCHANGED <<linked, orders>>,
             second' \in 0..MaxSecond, raised' \in [Faults -> {"none", "warning", "critical"}],
             connectors' \subseteq Systems, devices' \subseteq Devices, pushes' \subseteq Faults
      PROVE  OrdersTypeOK'
  BY <1>1 DEF OrdersTypeOK
<1>2. ASSUME NEW a \in Faults, NEW severity \in {"warning", "critical"}, RaiseAlert(a, severity)
      PROVE  OrdersTypeOK'
  BY <1>1, <1>2 DEF RaiseAlert, OrdersTypeOK
<1>3. ASSUME NEW d \in Devices, RegisterDevice(d) \/ UnregisterDevice(d) PROVE OrdersTypeOK'
  BY <1>1, <1>3 DEF RegisterDevice, UnregisterDevice, OrdersTypeOK
<1>4. ASSUME NEW a \in Faults, SendPush(a) PROVE OrdersTypeOK'
  BY <1>1, <1>4 DEF SendPush, OrdersTypeOK
<1>5. ASSUME NEW erp \in Systems, ConnectErp(erp) PROVE OrdersTypeOK'
  BY <1>1, <1>5 DEF ConnectErp, OrdersTypeOK
<1>6. ASSUME NEW a \in Faults \union {Nobody}, NEW job \in Jobs \union {Nobody}, NEW erp \in Systems,
             CreateWorkOrder(a, job, erp)
      PROVE  OrdersTypeOK'
  <2>1. \A rows \in {{}, Rows(a, Nobody), Rows(a, job)} : rows \in SUBSET {a, job}
    <3>1. Nobody \notin Faults \union Jobs
      BY OrdersAssumption
    <3> QED
      BY <3>1 DEF Rows
  <2> QED
    BY <1>6, <2>1, MakeKeeps DEF CreateWorkOrder
<1>7. ASSUME NEW a \in Faults, NEW erp \in Systems, AutoCreateWorkOrder(a, erp) PROVE OrdersTypeOK'
  BY <1>7, MakeKeeps DEF AutoCreateWorkOrder
<1>8. CASE RestartAlertService
  BY <1>1, <1>8 DEF RestartAlertService, OrdersTypeOK
<1>9. CASE RestartErp
  BY <1>1, <1>9 DEF RestartErp, OrdersTypeOK
<1>10. CASE NextSecond
  BY <1>1, <1>10, OrdersAssumption DEF NextSecond, OrdersTypeOK
<1>11. CASE UNCHANGED orderVars
  BY <1>1, <1>11 DEF orderVars, OrdersTypeOK
<1> QED
  BY <1>2, <1>3, <1>4, <1>5, <1>6, <1>7, <1>8, <1>9, <1>10, <1>11 DEF OrdersNext

-----------------------------------------------------------------------------
(* FederatedLearning: types *)

\* A node that has submitted
Submitted == [accuracy : Accuracies \cap 0..1000, size : Sizes \cap (Nat \ {0}), status : {"syncing", "idle"}]

\* What it has submitted are natural numbers.
LEMMA SubmittedNumbers ==
  ASSUME NEW r \in Submitted
  PROVE  /\ r.size \in Nat /\ r.size > 0
         /\ r.accuracy \in Nat /\ 0 <= r.accuracy /\ r.accuracy <= 1000
<1> DEFINE a == r.accuracy
           k == r.size
<1>1. a \in 0..1000 /\ k \in Nat \ {0}
  BY DEF Submitted
<1> HIDE DEF a, k
<1>2. a \in Nat /\ 0 <= a /\ a <= 1000
  BY <1>1
<1>3. k \in Nat /\ k > 0
  BY <1>1
<1> QED
  BY <1>2, <1>3 DEF a, k

FederatedInv ==
  /\ nodes \in [Nodes -> Submitted \union {NoNode}]
  /\ history \in Seq(Nat \X (Nat \ {0})) /\ Len(history) <= MaxRounds
  /\ \A i \in DOMAIN history : Between(0, history[i][1], history[i][2], 1000)

\* What the two sums of an average are over
Weighted(S) == [n \in S |-> nodes[n].size * nodes[n].accuracy]

Weights(S) == [n \in S |-> nodes[n].size]

\* An average is the quotient of two sums over the nodes.
LEMMA AverageIsSums ==
  ASSUME NEW S, IsFiniteSet(S), \A n \in S : nodes[n] \in Submitted
  PROVE  /\ Weighted(S) \in [S -> Nat] /\ Weights(S) \in [S -> Nat]
         /\ \A n \in S : Weights(S)[n] > 0
         /\ \E g, h : /\ IsSum(g, Weighted(S), S) /\ IsSum(h, Weights(S), S)
                      /\ Average(S) = <<g[S], h[S]>>
<1> DEFINE f == Weighted(S)
           z == Weights(S)
           C(s) == CHOOSE x \in s : TRUE
           F(h) == h = [s \in SUBSET S |->
                         IF s = {} THEN 0
                         ELSE nodes[CHOOSE x \in s : TRUE].size * nodes[CHOOSE x \in s : TRUE].accuracy
                              + h[s \ {CHOOSE x \in s : TRUE}]]
           Z(h) == h = [s \in SUBSET S |->
                         IF s = {} THEN 0
                         ELSE nodes[CHOOSE x \in s : TRUE].size + h[s \ {CHOOSE x \in s : TRUE}]]
<1>1. Average(S) = <<(CHOOSE h : F(h))[S], (CHOOSE h : Z(h))[S]>>
  BY Zenon DEF Average, MapThenSumSet, MapThenFoldSet
<1>2. \A s \in SUBSET S : s # {} => (CHOOSE x \in s : TRUE) \in S
  OBVIOUS
<1>3. \A h : F(h) <=> IsSum(h, f, S)
  <2>1. \A s \in SUBSET S : s # {} =>
          f[CHOOSE x \in s : TRUE] = nodes[CHOOSE x \in s : TRUE].size * nodes[CHOOSE x \in s : TRUE].accuracy
    BY <1>2 DEF Weighted
  <2> HIDE DEF f
  <2> QED
    BY <2>1 DEF IsSum
<1>4. \A h : Z(h) <=> IsSum(h, z, S)
  <2>1. \A s \in SUBSET S : s # {} => z[CHOOSE x \in s : TRUE] = nodes[CHOOSE x \in s : TRUE].size
    BY <1>2 DEF Weights
  <2> HIDE DEF z
  <2> QED
    BY <2>1 DEF IsSum
<1>5. ASSUME NEW n \in S
      PROVE  nodes[n].size \in Nat /\ nodes[n].size > 0 /\ nodes[n].accuracy \in Nat
  <2>1. nodes[n] \in Submitted
    OBVIOUS
  <2> QED
    BY <2>1, SubmittedNumbers
<1>6. f \in [S -> Nat]
  <2>1. \A a, b \in Nat : a * b \in Nat
    OBVIOUS
  <2> QED
    BY <1>5, <2>1 DEF Weighted
<1>7. z \in [S -> Nat] /\ \A n \in S : z[n] > 0
  BY <1>5 DEF Weights
<1> DEFINE g == CHOOSE h : F(h)
           k == CHOOSE h : Z(h)
<1>8. IsSum(g, f, S)
  <2> HIDE DEF f, F
  <2>1. f \in [S -> Int]
    BY <1>6
  <2>2. \E h : F(h)
    BY <1>3, <2>1, SumExists
  <2>3. F(g)
    BY <2>2, Zenon
  <2> HIDE DEF g
  <2> QED
    BY <1>3, <2>3
<1>9. IsSum(k, z, S)
  <2> HIDE DEF z, Z
  <2>1. z \in [S -> Int]
    BY <1>7
  <2>2. \E h : Z(h)
    BY <1>4, <2>1, SumExists
  <2>3. Z(k)
    BY <2>2, Zenon
  <2> HIDE DEF k
  <2> QED
    BY <1>4, <2>3
<1>10. Average(S) = <<g[S], k[S]>>
  BY <1>1
<1> HIDE DEF F, Z, g, k, f, z
<1>11. \E u, v : IsSum(u, f, S) /\ IsSum(v, z, S) /\ Average(S) = <<u[S], v[S]>>
  BY <1>8, <1>9, <1>10
<1> QED
  BY <1>6, <1>7, <1>11 DEF f, z

\* An average of the nodes that have submitted is a fraction.
LEMMA AverageTyped ==
  ASSUME NEW S, IsFiniteSet(S), S # {}, \A n \in S : nodes[n] \in Submitted
  PROVE  Average(S) \in Nat \X (Nat \ {0})
<1>1. PICK g, h : /\ IsSum(g, Weighted(S), S) /\ IsSum(h, Weights(S), S)
                  /\ Average(S) = <<g[S], h[S]>>
  BY AverageIsSums
<1>2. /\ Weighted(S) \in [S -> Nat] /\ Weights(S) \in [S -> Nat]
      /\ \A n \in S : Weights(S)[n] > 0
  BY AverageIsSums
<1>3. g[S] \in Nat
  BY <1>1, <1>2, SumOfNaturals
<1>4. h[S] \in Nat /\ h[S] > 0
  BY <1>1, <1>2, SumOfNaturals
<1> QED
  BY <1>1, <1>3, <1>4

\* No average is below every accuracy it is of, or above every one.
LEMMA AverageBetween ==
  ASSUME NEW S, IsFiniteSet(S), \A n \in S : nodes[n] \in Submitted,
         NEW low \in Nat, NEW high \in Nat,
         \A n \in S : low <= nodes[n].accuracy /\ nodes[n].accuracy <= high
  PROVE  Between(low, Average(S)[1], Average(S)[2], high)
<1>1. PICK g, h : /\ IsSum(g, Weighted(S), S) /\ IsSum(h, Weights(S), S)
                  /\ Average(S) = <<g[S], h[S]>>
  BY AverageIsSums
<1>2. Weighted(S) \in [S -> Nat] /\ Weights(S) \in [S -> Nat]
  BY AverageIsSums
<1>3. ASSUME NEW n \in S
      PROVE  Between(low, Weighted(S)[n], Weights(S)[n], high)
  <2>1. nodes[n] \in Submitted /\ low <= nodes[n].accuracy /\ nodes[n].accuracy <= high
    OBVIOUS
  <2>2. nodes[n].size \in Nat /\ nodes[n].accuracy \in Nat
    BY <2>1, SubmittedNumbers
  <2>3. \A a, b, c \in Nat : a <= b => a * c <= c * b /\ c * a <= b * c
    <3> SUFFICES ASSUME NEW a \in Nat, NEW b \in Nat, NEW c \in Nat, a <= b
                 PROVE  a * c <= c * b /\ c * a <= b * c
      OBVIOUS
    <3>1. PICK d \in Nat : b = a + d
      <4>1. b - a \in Nat /\ b = a + (b - a)
        OBVIOUS
      <4> QED
        BY <4>1
    <3>2. c * b = c * a + c * d /\ b * c = a * c + d * c /\ c * a = a * c /\ c * d = d * c
      BY <3>1
    <3>3. c * d \in Nat /\ c * a \in Nat
      OBVIOUS
    <3> QED
      BY <3>2, <3>3
  <2>4. Weights(S)[n] = nodes[n].size /\ Weighted(S)[n] = nodes[n].size * nodes[n].accuracy
    BY DEF Weights, Weighted
  <2> QED
    BY <2>1, <2>2, <2>3, <2>4 DEF Between
<1>4. Between(low, g[S], h[S], high)
  <2> DEFINE f == Weighted(S)
             z == Weights(S)
  <2>1. /\ f \in [S -> Nat] /\ z \in [S -> Nat] /\ IsSum(g, f, S) /\ IsSum(h, z, S)
        /\ \A n \in S : Between(low, f[n], z[n], high)
    BY <1>1, <1>2, <1>3
  <2> HIDE DEF f, z
  <2> QED
    BY <2>1, SumBetween
<1> QED
  BY <1>1, <1>4

LEMMA KnownSubmitted ==
  ASSUME nodes \in [Nodes -> Submitted \union {NoNode}]
  PROVE  IsFiniteSet(Known) /\ \A n \in Known : nodes[n] \in Submitted
<1>1. Known \subseteq Nodes
  BY DEF Known
<1> QED
  BY <1>1, FS_Subset, FederatedAssumption DEF Known, NoNode

LEMMA SubmitKeeps ==
  ASSUME FederatedInv, NEW n \in Nodes, NEW acc \in Accuracies, NEW size \in Sizes,
         SubmitUpdate(n, acc, size)
  PROVE  FederatedInv'
<1> DEFINE r == [accuracy |-> acc, size |-> size, status |-> "syncing"]
<1>1. r \in Submitted
  BY FederatedAssumption DEF SubmitUpdate, Submitted
<1>2. nodes' = [nodes EXCEPT ![n] = r] /\ history' = history
  BY DEF SubmitUpdate
<1> HIDE DEF r
<1> QED
  BY <1>1, <1>2 DEF FederatedInv

\* An average of the nodes known is an accuracy.
LEMMA AverageIsAccuracy ==
  ASSUME nodes \in [Nodes -> Submitted \union {NoNode}]
  PROVE  Between(0, Average(Known)[1], Average(Known)[2], 1000)
<1>1. IsFiniteSet(Known) /\ \A n \in Known : nodes[n] \in Submitted
  BY KnownSubmitted
<1>2. \A n \in Known : 0 <= nodes[n].accuracy /\ nodes[n].accuracy <= 1000
  <2> SUFFICES ASSUME NEW n \in Known
               PROVE  0 <= nodes[n].accuracy /\ nodes[n].accuracy <= 1000
    OBVIOUS
  <2> QED
    BY <1>1, SubmittedNumbers
<1>3. 0 \in Nat /\ 1000 \in Nat
  OBVIOUS
<1> QED
  BY <1>1, <1>2, <1>3, AverageBetween

LEMMA AggregateKeeps ==
  ASSUME FederatedInv, NEW m, AggregateRound(m)
  PROVE  FederatedInv'
<1>1. Average(Known) \in Nat \X (Nat \ {0})
  BY KnownSubmitted, AverageTyped DEF FederatedInv, AggregateRound
<1>2. history' = Append(history, Average(Known)) /\ Len(history) < MaxRounds
  BY DEF AggregateRound
<1>3. history' \in Seq(Nat \X (Nat \ {0})) /\ Len(history') <= MaxRounds
  BY <1>1, <1>2, AppendProperties, LenProperties, FederatedAssumption DEF FederatedInv
<1>4. ASSUME NEW n \in Known PROVE [nodes[n] EXCEPT !.status = "idle"] \in Submitted
  <2>1. nodes[n] \in Submitted
    BY KnownSubmitted DEF FederatedInv
  <2> QED
    BY <2>1 DEF Submitted
<1>5. nodes' \in [Nodes -> Submitted \union {NoNode}]
  BY <1>4 DEF FederatedInv, AggregateRound
<1>6. \A i \in DOMAIN history' : Between(0, history'[i][1], history'[i][2], 1000)
  <2> DEFINE a == Average(Known)
  <2>1. Between(0, a[1], a[2], 1000)
    BY AverageIsAccuracy DEF FederatedInv
  <2>2. history' = Append(history, a) /\ history \in Seq(Nat \X (Nat \ {0}))
        /\ a \in Nat \X (Nat \ {0})
    BY <1>1, <1>2 DEF FederatedInv
  <2> HIDE DEF a
  <2> SUFFICES ASSUME NEW i \in DOMAIN history'
               PROVE  Between(0, history'[i][1], history'[i][2], 1000)
    OBVIOUS
  <2>3. CASE i \in DOMAIN history
    <3>1. history'[i] = history[i]
      BY <2>2, <2>3
    <3> QED
      BY <2>3, <3>1 DEF FederatedInv
  <2>4. CASE i \notin DOMAIN history
    <3>1. history'[i] = a
      BY <2>2, <2>4
    <3> QED
      BY <2>1, <3>1
  <2> QED
    BY <2>3, <2>4
<1> QED
  BY <1>3, <1>5, <1>6 DEF FederatedInv

LEMMA FederatedStart == FederatedInit => FederatedInv
  BY FederatedAssumption, EmptySeq DEF FederatedInit, FederatedInv

LEMMA FederatedKeeps == FederatedInv /\ [FederatedNext]_federatedVars => FederatedInv'
<1> SUFFICES ASSUME FederatedInv, [FederatedNext]_federatedVars PROVE FederatedInv'
  OBVIOUS
<1>1. ASSUME NEW n \in Nodes, NEW acc \in Accuracies, NEW size \in Sizes, SubmitUpdate(n, acc, size)
      PROVE  FederatedInv'
  BY <1>1, SubmitKeeps
<1>2. ASSUME NEW n \in Nodes, NEW acc \in Accuracies, NEW samples \in Sizes, NEW labels \in 1..2,
             TrainAndSubmit(n, acc, samples, labels)
      PROVE  FederatedInv'
  BY <1>2, SubmitKeeps DEF TrainAndSubmit
<1>3. ASSUME NEW m \in 0..Cardinality(Nodes), AggregateRound(m) PROVE FederatedInv'
  BY <1>3, AggregateKeeps
<1>4. CASE RestartCoordinator
  BY <1>4, FederatedAssumption, EmptySeq DEF RestartCoordinator, FederatedInv
<1>5. CASE UNCHANGED federatedVars
  BY <1>5 DEF federatedVars, FederatedInv
<1> QED
  BY <1>1, <1>2, <1>3, <1>4, <1>5 DEF FederatedNext

LEMMA FederatedTyped == FederatedInv => FederatedTypeOK
<1> SUFFICES ASSUME FederatedInv PROVE FederatedTypeOK
  OBVIOUS
<1>1. Submitted \subseteq [accuracy : Accuracies, size : Sizes, status : {"syncing", "idle"}]
  BY DEF Submitted
<1>2. \A i \in DOMAIN history : history[i] \in Nat \X (Nat \ {0})
  BY ElementOfSeq, LenProperties DEF FederatedInv
<1>3. ConvergenceStatus \in {"converging", "converged", "diverging"}
  BY Zenon DEF ConvergenceStatus
<1> QED
  BY <1>1, <1>2, <1>3 DEF FederatedInv, FederatedTypeOK

-----------------------------------------------------------------------------
(* TagCatalog: types *)

TagRow == [status : {"none", "active", "deleted"}, range : [min : Int, max : Int]]

Measurement == [value : ReadingValues, quality : Qualities]

CatalogInv ==
  /\ tags \in [Tags -> TagRow]
  /\ measured \in [Tags -> Seq(Measurement)] /\ \A t \in Tags : Len(measured[t]) <= MaxReadings
  /\ verdict.is = "validation" => (verdict.valid <=> verdict.violated # {"minimum", "maximum"})
  /\ verdict.is \in {"outliers", "reconciled"} => verdict.at \subseteq 1..MaxReadings

LEMMA CatalogStart == CatalogInit => CatalogInv
<1> SUFFICES ASSUME CatalogInit PROVE CatalogInv
  OBVIOUS
<1>1. NoTag \in TagRow
  BY DEF NoTag, TagRow
<1>2. <<>> \in Seq(Measurement) /\ Len(<<>>) = 0
  BY EmptySeq
<1> QED
  BY <1>1, <1>2, CatalogAssumption DEF CatalogInit, CatalogInv

\* One violation is forgiven: the score is 7 tenths then, and 4 with both.
LEMMA OneViolationForgiven ==
  ASSUME NEW t, NEW v
  PROVE  ScoreTenths(t, v) >= 7 <=> Violations(t, v) # {"minimum", "maximum"}
<1>1. Violations(t, v) \subseteq {"minimum", "maximum"}
  BY DEF Violations
<1>2. Cardinality({}) = 0 /\ Cardinality({"minimum"}) = 1 /\ Cardinality({"maximum"}) = 1
  BY FS_EmptySet, FS_Singleton
<1>3. Cardinality({"minimum", "maximum"}) = 2
  <2>1. IsFiniteSet({"minimum"}) /\ "maximum" \notin {"minimum"}
    BY FS_Singleton
  <2>2. Cardinality({"minimum"} \union {"maximum"}) = Cardinality({"minimum"}) + 1
    BY <2>1, FS_AddElement
  <2>3. {"minimum"} \union {"maximum"} = {"minimum", "maximum"}
    OBVIOUS
  <2> QED
    BY <1>2, <2>2, <2>3
<1>4. \/ Violations(t, v) = {} \/ Violations(t, v) = {"minimum"} \/ Violations(t, v) = {"maximum"}
      \/ Violations(t, v) = {"minimum", "maximum"}
  BY <1>1
<1>5. {} # {"minimum", "maximum"} /\ {"minimum"} # {"minimum", "maximum"}
      /\ {"maximum"} # {"minimum", "maximum"}
  OBVIOUS
<1> QED
  BY <1>2, <1>3, <1>4, <1>5 DEF ScoreTenths

\* The readings that a method looks at are no more than there may be.
LEMMA ValuesKept ==
  ASSUME CatalogInv, NEW t \in Tags, NEW window \in Nat
  PROVE  Len(Values(t, window)) \in 0..MaxReadings
<1> DEFINE n == IF Len(measured[t]) < window THEN Len(measured[t]) ELSE window
<1>1. measured[t] \in Seq(Measurement) /\ Len(measured[t]) \in Nat /\ Len(measured[t]) <= MaxReadings
  BY LenProperties DEF CatalogInv
<1>2. n \in Nat /\ n <= MaxReadings
  BY <1>1, CatalogAssumption
<1>3. Values(t, window) = [i \in 1..n |-> measured[t][i].value]
  BY DEF Values
<1> HIDE DEF n
<1>4. Len(Values(t, window)) = n
  BY <1>2, <1>3
<1> QED
  BY <1>2, <1>4, CatalogAssumption

LEMMA OutliersAmong ==
  ASSUME NEW s
  PROVE  ZscoreOutliers(s) \subseteq 1..Len(s) /\ IqrOutliers(s) \subseteq 1..Len(s)
<1>1. ZscoreOutliers(s) \subseteq 1..Len(s)
  BY Zenon DEF ZscoreOutliers
<1>2. IqrOutliers(s) \subseteq 1..Len(s)
  BY Zenon DEF IqrOutliers
<1> QED
  BY <1>1, <1>2

LEMMA CatalogKeeps == CatalogInv /\ [CatalogNext]_catalogVars => CatalogInv'
<1> SUFFICES ASSUME CatalogInv, [CatalogNext]_catalogVars PROVE CatalogInv'
  OBVIOUS
<1>0. NoTag \in TagRow /\ \A r \in Ranges : r \in [min : Int, max : Int]
  BY CatalogAssumption DEF NoTag, TagRow
<1>1. ASSUME tags' \in [Tags -> TagRow], UNCHANGED <<measured, verdict>> PROVE CatalogInv'
  BY <1>1 DEF CatalogInv
<1>2. ASSUME NEW t \in Tags, NEW range \in Ranges, NEW newStatus \in {"unset", "active"}
      PROVE  Fields(t, range, newStatus) \in TagRow
  <2>1. tags[t].status \in {"none", "active", "deleted"}
    BY DEF CatalogInv, TagRow
  <2> QED
    BY <1>0, <2>1 DEF Fields, TagRow
<1>3. ASSUME NEW t \in Tags, NEW range \in Ranges, NEW newStatus \in {"unset", "active"},
             CreateTag(t, range, newStatus)
      PROVE  CatalogInv'
  <2> DEFINE r == [status |-> IF newStatus = "unset" THEN "active" ELSE newStatus, range |-> range]
  <2>1. r \in TagRow
    BY <1>0 DEF TagRow
  <2>2. tags' = [tags EXCEPT ![t] = IF Catalogued(t) THEN Fields(t, range, newStatus) ELSE r]
    BY <1>3 DEF CreateTag
  <2> HIDE DEF r
  <2>3. tags' \in [Tags -> TagRow]
    BY <1>2, <2>1, <2>2 DEF CatalogInv
  <2> QED
    BY <1>1, <1>3, <2>3 DEF CreateTag
<1>4. ASSUME NEW t \in Tags, NEW new \in Tags, NEW range \in Ranges, NEW newStatus \in {"unset", "active"},
             UpdateTag(t, new, range, newStatus)
      PROVE  CatalogInv'
  <2> DEFINE r == Fields(t, range, newStatus)
             cleared == [tags EXCEPT ![t] = NoTag]
  <2>1. r \in TagRow
    BY <1>2
  <2>2. cleared \in [Tags -> TagRow] /\ tags' = [cleared EXCEPT ![new] = r]
    BY <1>0, <1>4 DEF UpdateTag, CatalogInv
  <2> HIDE DEF r, cleared
  <2>3. tags' \in [Tags -> TagRow]
    BY <2>1, <2>2
  <2> QED
    BY <1>1, <1>4, <2>3 DEF UpdateTag
<1>5. ASSUME NEW t \in Tags, DeleteTag(t) PROVE CatalogInv'
  <2>1. [tags[t] EXCEPT !.status = "deleted"] \in TagRow
    BY DEF CatalogInv, TagRow
  <2>2. tags' \in [Tags -> TagRow]
    BY <1>5, <2>1 DEF DeleteTag, CatalogInv
  <2> QED
    BY <1>1, <1>5, <2>2 DEF DeleteTag
<1>6. ASSUME NEW t \in Tags, NEW v \in ReadingValues, NEW quality \in Qualities, Measure(t, v, quality)
      PROVE  CatalogInv'
  <2> DEFINE m == [value |-> v, quality |-> quality]
             longer == <<m>> \o measured[t]
  <2>1. m \in Measurement
    BY DEF Measurement
  <2> HIDE DEF m
  <2>2. /\ measured[t] \in Seq(Measurement) /\ <<m>> \in Seq(Measurement) /\ Len(<<m>>) = 1
        /\ Len(measured[t]) \in Nat /\ Len(measured[t]) < MaxReadings
    BY <1>6, <2>1, LenProperties DEF Measure, CatalogInv
  <2>3. longer \in Seq(Measurement) /\ Len(longer) = Len(measured[t]) + 1
    BY <2>2, ConcatProperties
  <2>4. measured' = [measured EXCEPT ![t] = longer] /\ UNCHANGED <<tags, verdict>>
    BY <1>6 DEF Measure, m
  <2> HIDE DEF longer
  <2> QED
    BY <2>2, <2>3, <2>4, CatalogAssumption DEF CatalogInv
<1>7. ASSUME NEW t \in Tags, NEW v \in ReadingValues, Validate(t, v) PROVE CatalogInv'
  <2> DEFINE valid == ScoreTenths(t, v) >= 7
  <2>1. verdict' = [is |-> "validation", valid |-> valid, violated |-> Violations(t, v)]
    BY <1>7 DEF Validate
  <2>2. valid <=> Violations(t, v) # {"minimum", "maximum"}
    BY OneViolationForgiven
  <2> HIDE DEF valid
  <2>3. verdict'.is = "validation" /\ verdict'.valid = valid /\ verdict'.violated = Violations(t, v)
    BY <2>1
  <2>4. UNCHANGED <<tags, measured>>
    BY <1>7 DEF Validate
  <2>5. verdict'.valid <=> verdict'.violated # {"minimum", "maximum"}
    BY <2>2, <2>3, Zenon
  <2> QED
    BY <2>3, <2>4, <2>5 DEF CatalogInv
<1>8. ASSUME NEW t \in Tags, NEW method \in {"zscore", "iqr"}, DetectOutliers(t, MaxReadings, method)
      PROVE  CatalogInv'
  <2> DEFINE s == Values(t, MaxReadings)
             found == CASE Len(s) < 3 -> {}
                        [] Len(s) >= 3 /\ method = "zscore" -> ZscoreOutliers(s)
                        [] Len(s) >= 3 /\ method = "iqr" -> IqrOutliers(s)
                        [] OTHER -> {}
  <2>1. Len(s) \in 0..MaxReadings
    BY ValuesKept, CatalogAssumption
  <2>2. verdict' = [is |-> "outliers", at |-> found] /\ UNCHANGED <<tags, measured>>
    BY <1>8 DEF DetectOutliers
  <2> HIDE DEF s
  <2>3. found \subseteq 1..Len(s)
    BY <2>1, OutliersAmong
  <2> HIDE DEF found
  <2>4. verdict'.is = "outliers" /\ verdict'.at \subseteq 1..MaxReadings
    BY <2>1, <2>2, <2>3, CatalogAssumption
  <2> QED
    BY <2>2, <2>4 DEF CatalogInv
<1>9. ASSUME NEW t \in Tags, NEW method \in {"statistical", "interpolation"}, Reconcile(t, method)
      PROVE  CatalogInv'
  <2> DEFINE s == Values(t, MaxReadings)
             changed == {i \in 1..Len(s) : Smoothed(s, i)[1] # s[i] * Smoothed(s, i)[2]}
             found == IF method # "statistical" THEN {} ELSE changed
  <2>1. Len(s) \in 0..MaxReadings
    BY ValuesKept, CatalogAssumption
  <2>2. verdict' = [is |-> "reconciled", at |-> found] /\ UNCHANGED <<tags, measured>>
    BY <1>9 DEF Reconcile
  <2> HIDE DEF s
  <2>3. changed \subseteq 1..Len(s)
    OBVIOUS
  <2> HIDE DEF changed
  <2>4. found \subseteq 1..Len(s)
    BY <2>3
  <2> HIDE DEF found
  <2>5. verdict'.is = "reconciled" /\ verdict'.at \subseteq 1..MaxReadings
    BY <2>1, <2>2, <2>4, CatalogAssumption
  <2> QED
    BY <2>2, <2>5 DEF CatalogInv
<1>10. CASE QualityScores
  <2>1. verdict'.is = "quality" /\ UNCHANGED <<tags, measured>>
    BY <1>10 DEF QualityScores
  <2> QED
    BY <2>1 DEF CatalogInv
<1>11. CASE UNCHANGED catalogVars
  BY <1>11 DEF catalogVars, CatalogInv
<1> QED
  BY <1>3, <1>4, <1>5, <1>6, <1>7, <1>8, <1>9, <1>10, <1>11 DEF CatalogNext

LEMMA CatalogTyped == CatalogInv => CatalogTypeOK
  BY DEF CatalogInv, CatalogTypeOK, TagRow

-----------------------------------------------------------------------------
(* FieldClients: types *)

\* Of the client of MQTT and the bridge, the service does what their own
\* specifications say, and disconnects the client when it stops.
LEMMA FieldMoves ==
  ASSUME [FieldNext]_fieldVars
  PROVE  ([MqttNext]_mqttVars \/ Disconnect) /\ [BridgeNext]_bridgeVars
<1>1. CASE StartKafka \/ StartOpcua \/ SubscribingEnds \/ StartLorawan
  BY <1>1 DEF StartKafka, StartOpcua, SubscribingEnds, StartLorawan
<1>2. CASE StartEdge
  BY <1>2 DEF StartEdge, BridgeNext
<1>3. CASE StartMqtt
  BY <1>3 DEF StartMqtt, MqttNext
<1>4. CASE Subscribing
  BY <1>4 DEF Subscribing, MqttNext
<1>5. CASE Health \/ (\E p \in MqttPayloads : MqttIngest(p))
           \/ (\E network \in {"ttn", "chirpstack"}, u \in Uplinks : LorawanWebhook(network, u))
  BY <1>5 DEF Health, Answers, MqttIngest, LorawanWebhook
<1>6. CASE Stream
  BY <1>6 DEF Stream, BridgeNext
<1>7. CASE StartConnector \/ StopConnector \/ UseNode
  BY <1>7 DEF StartConnector, StopConnector, UseNode
<1>8. CASE Paho
  BY <1>8 DEF Paho, MqttNext
<1>9. CASE FlushTick
  BY <1>9 DEF FlushTick, BridgeNext
<1>10. CASE ProducerThread
  BY <1>10 DEF ProducerThread, BridgeNext
<1>11. CASE Shutdown
  BY <1>11 DEF Shutdown, BridgeNext
<1>12. CASE UNCHANGED fieldVars
  BY <1>12 DEF fieldVars
<1> QED
  BY <1>1, <1>2, <1>3, <1>4, <1>5, <1>6, <1>7, <1>8, <1>9, <1>10, <1>11, <1>12 DEF FieldNext

\* How far each thread is in the list of topics.
MqttLimits ==
  /\ callbacks \subseteq TopicSet
  /\ sessions \in 0..MaxSessions
  /\ heard \in [came : 0..MaxMessages, handled : 0..MaxMessages] /\ heard.handled <= heard.came
  /\ Len(subscribed) <= Len(Topics)
  /\ caller.at \in {"off", "waiting", "failed"} => Len(subscribed) = 0
  /\ caller.at = "subscribe" => caller.n \in 1..Len(Topics) + 1 /\ Len(subscribed) < caller.n
  /\ caller.at \in {"test", "send", "register"} => Len(subscribed) <= caller.n
  /\ caller.at \in {"off", "waiting", "failed", "ready"} => caller.n = 0
  /\ loop.at # "listing" => loop.n = 0

LEMMA DisconnectKeeps ==
  ASSUME MqttInv, MqttLimits, Disconnect PROVE MqttInv' /\ MqttLimits'
<1>1. /\ session' = [up |-> FALSE, topics |-> {}] /\ isConnected' = FALSE
      /\ loop' = [at |-> "off", n |-> 0]
      /\ UNCHANGED <<subscribed, callbacks, caller, sessions, heard>>
  BY DEF Disconnect, NoSession
<1>2. session' \in [up : BOOLEAN, topics : SUBSET TopicSet] /\ ~session'.up
  BY <1>1
<1>3. ClientTyped'
  BY <1>1, <1>2 DEF MqttInv, ClientTyped
<1> QED
  BY <1>1, <1>2, <1>3 DEF MqttInv, MqttLimits, ListingOK, NothingLeftOut

LEMMA TopicsCounted == Len(Topics) \in Nat /\ DOMAIN Topics = 1..Len(Topics)
  BY MqttAssumption, LenProperties

LEMMA LimitsOfMqttStart == MqttInit => MqttLimits
<1> SUFFICES ASSUME MqttInit PROVE MqttLimits
  OBVIOUS
<1>1. Len(subscribed) = 0
  BY DEF MqttInit
<1>2. heard \in [came : 0..MaxMessages, handled : 0..MaxMessages] /\ heard.handled <= heard.came
  BY MqttAssumption DEF MqttInit
<1> QED
  BY <1>1, <1>2, MqttAssumption, TopicsCounted DEF MqttInit, MqttLimits

LEMMA LimitsOfMqttStep ==
  ASSUME MqttInv, MqttLimits, [MqttNext]_mqttVars PROVE MqttLimits'
<1>0. ClientTyped /\ Len(subscribed) \in Nat
  BY LenProperties DEF MqttInv, ClientTyped
<1>1. CASE Connect
  BY <1>0, <1>1 DEF Connect, Idle, MqttLimits, ClientTyped
<1>2. CASE Connected
  <2>1. /\ caller.at = "waiting"
        /\ caller' = [at |-> "subscribe", n |-> 1] \/ caller' = [at |-> "failed", n |-> 0]
    BY <1>2, Zenon DEF Connected
  <2> QED
    BY <1>0, <1>2, <2>1, TopicsCounted DEF Connected, MqttLimits
<1>3. CASE AppendTopic
  <2> DEFINE t == Topics[caller.n]
  <2>1. t \in TopicSet /\ caller.at = "subscribe" /\ caller.n \in 1..Len(Topics)
    BY <1>3, TopicKnown, TopicsCounted DEF AppendTopic
  <2>2. UNCHANGED <<callbacks, loop, sessions, heard>> /\ caller'.n = caller.n
    BY <1>0, <1>3 DEF AppendTopic, ClientTyped
  <2>3. CASE t \in Listed
    <3>1. caller'.at = "register" /\ subscribed' = subscribed
      BY <1>0, <1>3, <2>3 DEF AppendTopic, ClientTyped
    <3> QED
      BY <1>0, <2>1, <2>2, <3>1 DEF MqttLimits
  <2>4. CASE t \notin Listed
    <3>1. caller'.at = "test" /\ subscribed' = Append(subscribed, t)
      BY <1>0, <1>3, <2>4 DEF AppendTopic, ClientTyped
    <3>2. Len(subscribed') = Len(subscribed) + 1
      BY <1>0, <2>1, <3>1, ListedLonger
    <3> QED
      BY <1>0, <2>1, <2>2, <3>1, <3>2, TopicsCounted DEF MqttLimits
  <2> QED
    BY <2>3, <2>4
<1>4. CASE TestConnected \/ SendSubscribe
  <2>1. /\ UNCHANGED <<subscribed, callbacks, loop, sessions, heard>> /\ caller'.n = caller.n
        /\ caller.at \in {"test", "send"} /\ caller'.at \in {"send", "register"}
    BY <1>0, <1>4 DEF TestConnected, SendSubscribe, ClientTyped
  <2> QED
    BY <1>0, <2>1 DEF MqttLimits
<1>5. CASE RegisterCallback
  <2>1. /\ caller.n \in 1..Len(Topics) /\ Topics[caller.n] \in TopicSet
        /\ caller.at = "register"
    BY <1>0, <1>5, TopicKnown, TopicsCounted DEF RegisterCallback, ClientTyped
  <2>2. /\ caller'.at = "subscribe" /\ caller'.n = caller.n + 1
        /\ callbacks' = callbacks \union {Topics[caller.n]}
        /\ UNCHANGED <<subscribed, loop, sessions, heard>>
    BY <1>5 DEF RegisterCallback
  <2> QED
    BY <1>0, <2>1, <2>2, TopicsCounted DEF MqttLimits
<1>6. CASE AllSubscribed
  BY <1>0, <1>6 DEF AllSubscribed, MqttLimits
<1>7. CASE Accepted
  <2>1. sessions' \in 0..MaxSessions
    BY <1>7, MqttAssumption DEF Accepted, MqttLimits
  <2> QED
    BY <1>0, <1>7, <2>1 DEF Accepted, MqttLimits
<1>8. CASE OnConnect
  <2>1. loop'.at # "listing" => loop'.n = 0
    BY <1>0, <1>8 DEF OnConnect, Idle, ClientTyped
  <2> QED
    BY <1>8, <2>1 DEF OnConnect, MqttLimits
<1>9. CASE SessionLost \/ OnDisconnect
  BY <1>9 DEF SessionLost, OnDisconnect, MqttLimits
<1>10. ASSUME NEW i \in DOMAIN Topics, OnMessage(Topics[i]) PROVE MqttLimits'
  <2>1. /\ heard' \in [came : 0..MaxMessages, handled : 0..MaxMessages]
        /\ heard'.handled <= heard'.came
    <3>1. heard.came \in Nat /\ heard.handled \in Nat /\ heard.handled <= heard.came /\ heard.came < MaxMessages
      BY <1>10, MqttAssumption DEF OnMessage, MqttLimits
    <3>2. /\ heard'.came = heard.came + 1
          /\ (heard'.handled = heard.handled \/ heard'.handled = heard.handled + 1)
          /\ heard' = [came |-> heard'.came, handled |-> heard'.handled]
      BY <1>10, <3>1 DEF OnMessage
    <3>3. heard'.came \in 0..MaxMessages /\ heard'.handled \in 0..MaxMessages /\ heard'.handled <= heard'.came
      BY <3>1, <3>2, MqttAssumption
    <3> QED
      BY <3>2, <3>3
  <2> QED
    BY <1>10, <2>1 DEF OnMessage, MqttLimits
<1>11. CASE UNCHANGED mqttVars
  BY <1>11 DEF mqttVars, MqttLimits
<1> QED
  BY <1>1, <1>2, <1>3, <1>4, <1>5, <1>6, <1>7, <1>8, <1>9, <1>10, <1>11 DEF MqttNext

LEMMA MqttTyped == ASSUME MqttInv, MqttLimits PROVE MqttTypeOK
<1>0. ClientTyped /\ Len(subscribed) \in Nat /\ Len(Topics) \in Nat
  BY TopicsCounted, LenProperties DEF MqttInv, ClientTyped
<1>1. loop.n \in 0..Len(Topics) + 2
  <2>1. CASE loop.at = "listing"
    BY <1>0, <2>1 DEF MqttInv, ListingOK, MqttLimits
  <2>2. CASE loop.at # "listing"
    BY <1>0, <2>2 DEF MqttLimits
  <2> QED
    BY <2>1, <2>2
<1>2. loop \in [at : {"off", "idle", "connack", "listing"}, n : 0..Len(Topics) + 2]
  BY <1>0, <1>1 DEF ClientTyped
<1>3. caller.n \in 0..Len(Topics) + 1
  <2>1. CASE caller.at \in {"test", "send", "register"}
    BY <1>0, <2>1, TopicsCounted DEF ClientTyped
  <2>2. CASE caller.at = "subscribe"
    BY <1>0, <2>2 DEF MqttLimits
  <2>3. CASE caller.at \in {"off", "waiting", "failed", "ready"}
    BY <1>0, <2>3 DEF MqttLimits
  <2> QED
    BY <1>0, <2>1, <2>2, <2>3 DEF ClientTyped, CallerPlaces
<1>4. caller \in [at : {"off", "waiting", "failed", "subscribe", "test", "send", "register", "ready"},
                  n : 0..Len(Topics) + 1]
  BY <1>0, <1>3 DEF ClientTyped, CallerPlaces
<1> QED
  BY <1>0, <1>2, <1>4 DEF MqttTypeOK, ClientTyped, MqttLimits

LEMMA BridgeTypedStart == BridgeInit => BridgeTypeOK
  BY EmptySeq, BridgeAssumption DEF BridgeInit, BridgeTypeOK

LEMMA BridgeTypedStep ==
  ASSUME BridgeTypeOK, [BridgeNext]_bridgeVars PROVE BridgeTypeOK'
<1>0. /\ batch \in Seq(Records) /\ sent \in Seq(Records) /\ open \subseteq Records /\ arrived \in Seq(Arrival)
      /\ tries \in [Records -> 0..Retries + 1]
  BY DEF BridgeTypeOK
<1>1. ASSUME NEW b \in Seq(Records), NEW n \in 0..Len(b), Flush(b, n)
      PROVE  sent' \in Seq(Records) /\ batch' \in Seq(Records) /\ open' \subseteq Records
  <2> DEFINE u == SubSeq(b, 1, n)
  <2>1. u \in Seq(Records)
    <3>1. Len(b) \in Nat
      BY LenProperties
    <3> QED
      BY <3>1
  <2>2. sent \o u \in Seq(Records) /\ {u[i] : i \in DOMAIN u} \subseteq Records
    <3> HIDE DEF u
    <3> QED
      BY <1>0, <2>1, ConcatProperties, LenProperties, ElementOfSeq
  <2>3. Give(u) /\ batch' = <<>>
    BY <1>1 DEF Flush
  <2> HIDE DEF u
  <2> QED
    BY <1>0, <2>2, <2>3, EmptySeq DEF Give
<1>2. CASE Initialize
  BY <1>2 DEF Initialize, BridgeTypeOK
<1>3. CASE StreamFromEdge
  <2> DEFINE b == Append(batch, streamed + 1)
  <2>1. /\ streamed' \in 0..MaxRecords /\ streamed + 1 \in Records
        /\ UNCHANGED <<bridge, tries, arrived>>
    <3>1. streamed \in 0..MaxRecords /\ MaxRecords \in Nat
      BY BridgeAssumption DEF BridgeTypeOK
    <3>2. streamed < MaxRecords /\ streamed' = streamed + 1 /\ UNCHANGED <<bridge, tries, arrived>>
      BY <1>3 DEF StreamFromEdge
    <3> QED
      BY <3>1, <3>2 DEF Records
  <2>2. b \in Seq(Records)
    BY <1>0, <2>1, AppendProperties
  <2>3. (\E n \in 0..Len(b) : Flush(b, n)) \/ (batch' = b /\ sent' = sent /\ open' = open)
    BY <1>3 DEF StreamFromEdge
  <2> HIDE DEF b
  <2>4. sent' \in Seq(Records) /\ batch' \in Seq(Records) /\ open' \subseteq Records
    BY <1>0, <1>1, <2>2, <2>3
  <2> QED
    BY <2>1, <2>4 DEF BridgeTypeOK
<1>4. CASE PeriodicFlush
  <2>1. sent' \in Seq(Records) /\ batch' \in Seq(Records) /\ open' \subseteq Records
    BY <1>0, <1>1, <1>4 DEF PeriodicFlush
  <2> QED
    BY <1>4, <2>1 DEF PeriodicFlush, BridgeTypeOK
<1>5. CASE StopBridge
  BY <1>5, EmptySeq DEF StopBridge, BridgeTypeOK
<1>6. ASSUME NEW r \in Records, Request(r) PROVE BridgeTypeOK'
  <2>1. tries[r] + 1 \in 1..Retries + 1
    BY <1>0, <1>6, BridgeAssumption DEF Request
  <2>2. tries' \in [Records -> 0..Retries + 1] /\ open' \subseteq Records
    BY <1>0, <1>6, <2>1, BridgeAssumption DEF Request
  <2> DEFINE m == [record |-> r, try |-> tries[r] + 1]
  <2>3. m \in Arrival
    BY <2>1 DEF Arrival
  <2>4. arrived' \in Seq(Arrival)
    <3>1. arrived' = arrived \/ arrived' = Append(arrived, m)
      BY <1>6 DEF Request
    <3> HIDE DEF m
    <3>2. arrived \in Seq(Arrival)
      BY <1>0
    <3>3. Append(arrived, m) \in Seq(Arrival)
      BY <2>3, <3>2, AppendProperties
    <3> QED
      BY <3>1, <3>2, <3>3
  <2> QED
    BY <1>6, <2>2, <2>4 DEF Request, BridgeTypeOK
<1>7. ASSUME NEW r \in Records, GiveUp(r) PROVE BridgeTypeOK'
  BY <1>7 DEF GiveUp, BridgeTypeOK
<1>8. CASE UNCHANGED bridgeVars
  BY <1>8 DEF bridgeVars, BridgeTypeOK
<1> QED
  BY <1>2, <1>3, <1>4, <1>5, <1>6, <1>7, <1>8 DEF BridgeNext, Producer

OpcuaTyped == opcua \in [made : BOOLEAN, connected : BOOLEAN, leaked : 0..MaxLeaks]

\* Until the start reaches OPC UA there is no client of it.
ServiceTyped ==
  /\ settings \in [edge : BOOLEAN, opcua : BOOLEAN, mqtt : BOOLEAN, lorawan : BOOLEAN]
  /\ life \in {"off", "edge", "opcua", "mqtt", "subscribing", "lorawan", "up", "stopped"}
  /\ bound \subseteq {"mqtt_client", "mqtt_handler", "lorawan_client"}
  /\ OpcuaTyped
  /\ life \in {"off", "edge", "opcua"} => ~opcua.connected
  /\ reply \in {"none", "ok", "error"}
  /\ recorded.id \in {"device", "payload", "topic", "unknown", "error"}
  /\ recorded.value \in Readings \union {"default", "error"}

LEMMA ReadingOfPayload ==
  ASSUME NEW p \in MqttPayload
  PROVE  /\ HandleSensorData(p).id \in {"device", "payload", "topic", "unknown", "error"}
         /\ HandleSensorData(p).value \in Readings \union {"default", "error"}
<1>1. p.id \in BOOLEAN
  BY DEF MqttPayload
<1>2. CASE ~p.sound \/ ~p.value \/ ~p.numeric
  BY <1>2 DEF HandleSensorData, Refused
<1>3. CASE ~(~p.sound \/ ~p.value \/ ~p.numeric)
  <2>1. HandleSensorData(p) =
          [id |-> CASE p.id -> "payload" [] ~p.id /\ p.parts = 2 -> "topic" [] OTHER -> "unknown",
           value |-> "value"]
    BY <1>3, Zenon DEF HandleSensorData
  <2>2. CASE p.id
    BY <2>1, <2>2 DEF Readings
  <2>3. CASE ~p.id /\ p.parts = 2
    BY <2>1, <2>3 DEF Readings
  <2>4. CASE ~p.id /\ p.parts # 2
    BY <2>1, <2>4 DEF Readings
  <2> QED
    BY <1>1, <2>2, <2>3, <2>4
<1> QED
  BY <1>2, <1>3

LEMMA ReadingOfRecord ==
  ASSUME NEW u, NEW reading \in Readings \union {"default"}
  PROVE  /\ RecordOf(u, reading).id \in {"device", "payload", "topic", "unknown", "error"}
         /\ RecordOf(u, reading).value \in Readings \union {"default", "error"}
<1>1. RecordOf(u, reading) = Refused \/ RecordOf(u, reading) = [id |-> "device", value |-> reading]
  BY Zenon DEF RecordOf
<1> HIDE DEF RecordOf
<1> QED
  BY <1>1 DEF Refused

LEMMA ReadingOfUplink ==
  ASSUME NEW network, NEW u
  PROVE  /\ HandleUplink(network, u).id \in {"device", "payload", "topic", "unknown", "error"}
         /\ HandleUplink(network, u).value \in Readings \union {"default", "error"}
<1>1. TtnReading(u) \in Readings \union {"default"}
  BY Zenon DEF TtnReading, Readings
<1>2. (IF "value" \in DecodePayload(u.frm) THEN "value" ELSE "default") \in Readings \union {"default"}
  BY Zenon DEF Readings
<1>3. \/ HandleUplink(network, u) = RecordOf(u, TtnReading(u))
      \/ HandleUplink(network, u) = RecordOf(u, IF "value" \in DecodePayload(u.frm) THEN "value" ELSE "default")
  BY Zenon DEF HandleUplink, HandleTtnUplink, HandleChirpstackUplink
<1> QED
  BY <1>1, <1>2, <1>3, ReadingOfRecord, Zenon

LEMMA ServiceStart == FieldInit => ServiceTyped
  BY FieldAssumption DEF FieldInit, ServiceTyped, OpcuaTyped, Refused

LEMMA ServiceKeeps ==
  ASSUME ServiceTyped, [FieldNext]_fieldVars PROVE ServiceTyped'
<1>0. opcua \in [made : BOOLEAN, connected : BOOLEAN, leaked : 0..MaxLeaks] /\ MaxLeaks \in Nat
  BY FieldAssumption DEF ServiceTyped, OpcuaTyped
<1>1. CASE StartKafka \/ StartEdge
  BY <1>1 DEF StartKafka, StartEdge, ServiceTyped, OpcuaTyped
<1>2. CASE StartOpcua
  <2>1. OpcuaTyped'
    <3>1. CASE settings.opcua
      <4>1. ~opcua.connected /\ OpcuaConnect
        BY <1>2, <3>1 DEF StartOpcua, ServiceTyped
      <4> QED
        BY <1>0, <4>1 DEF OpcuaConnect, OpcuaTyped
    <3>2. CASE ~settings.opcua
      BY <1>0, <1>2, <3>2 DEF StartOpcua, OpcuaTyped
    <3> QED
      BY <3>1, <3>2
  <2>2. life' = "mqtt" /\ UNCHANGED <<settings, bound, reply, recorded>>
    BY <1>2 DEF StartOpcua
  <2> QED
    BY <2>1, <2>2 DEF ServiceTyped
<1>3. CASE StartMqtt \/ Subscribing \/ SubscribingEnds \/ StartLorawan
  <2>1. /\ life \in {"mqtt", "subscribing", "lorawan"} /\ life' \in {"subscribing", "lorawan", "up"}
        /\ bound' \subseteq bound \union {"mqtt_client", "mqtt_handler", "lorawan_client"}
        /\ UNCHANGED <<settings, opcua, reply, recorded>>
    BY <1>3 DEF StartMqtt, Subscribing, SubscribingEnds, StartLorawan
  <2> QED
    BY <2>1 DEF ServiceTyped, OpcuaTyped
<1>4. CASE Health \/ Stream \/ UseNode
  <2>1. reply' \in {"ok", "error"} /\ UNCHANGED <<settings, life, bound, opcua, recorded>>
    BY <1>4 DEF Health, Answers, Stream, UseNode
  <2> QED
    BY <2>1 DEF ServiceTyped, OpcuaTyped
<1>5. ASSUME NEW p \in MqttPayloads, MqttIngest(p) PROVE ServiceTyped'
  <2>1. /\ recorded'.id \in {"device", "payload", "topic", "unknown", "error"}
        /\ recorded'.value \in Readings \union {"default", "error"}
    <3>1. p \in MqttPayload
      BY FieldAssumption
    <3>2. recorded' = HandleSensorData(p) \/ recorded' = Refused
      BY <1>5 DEF MqttIngest
    <3>3. CASE recorded' = HandleSensorData(p)
      BY <3>1, <3>3, ReadingOfPayload, Zenon
    <3>4. CASE recorded' = Refused
      BY <3>4 DEF Refused
    <3> QED
      BY <3>2, <3>3, <3>4
  <2>2. reply' \in {"ok", "error"} /\ UNCHANGED <<settings, life, bound, opcua>>
    BY <1>5, Zenon DEF MqttIngest
  <2> QED
    BY <2>1, <2>2 DEF ServiceTyped, OpcuaTyped
<1>6. ASSUME NEW network \in {"ttn", "chirpstack"}, NEW u \in Uplinks, LorawanWebhook(network, u)
      PROVE  ServiceTyped'
  <2>1. /\ recorded'.id \in {"device", "payload", "topic", "unknown", "error"}
        /\ recorded'.value \in Readings \union {"default", "error"}
    <3>2. recorded' = HandleUplink(network, u) \/ recorded' = Refused
      BY <1>6, Zenon DEF LorawanWebhook
    <3>3. CASE recorded' = HandleUplink(network, u)
      BY <3>3, ReadingOfUplink, Zenon
    <3>4. CASE recorded' = Refused
      BY <3>4 DEF Refused
    <3> QED
      BY <3>2, <3>3, <3>4
  <2>2. reply' \in {"ok", "error"} /\ UNCHANGED <<settings, life, bound, opcua>>
    BY <1>6, Zenon DEF LorawanWebhook
  <2> QED
    BY <2>1, <2>2 DEF ServiceTyped, OpcuaTyped
<1>7. CASE StartConnector
  <2>1. OpcuaTyped'
    <3>1. opcua.leaked + 1 \in 0..MaxLeaks /\ opcua.leaked \in 0..MaxLeaks
      BY <1>0, <1>7 DEF StartConnector
    <3>2. PICK l \in 0..MaxLeaks, c \in BOOLEAN :
            opcua' = [opcua EXCEPT !.made = TRUE, !.connected = c, !.leaked = l]
      <4>1. CASE opcua.connected
        BY <1>7, <3>1, <4>1 DEF StartConnector, OpcuaConnect
      <4>2. CASE ~opcua.connected
        BY <1>7, <3>1, <4>2 DEF StartConnector, OpcuaConnect
      <4> QED
        BY <4>1, <4>2
    <3> QED
      BY <1>0, <3>2 DEF OpcuaTyped
  <2>2. life = "up" /\ reply' \in {"ok", "error"} /\ UNCHANGED <<settings, life, bound, recorded>>
    BY <1>7 DEF StartConnector, Up
  <2> QED
    BY <2>1, <2>2 DEF ServiceTyped
<1>8. CASE StopConnector \/ Shutdown
  <2>1. OpcuaTyped'
    BY <1>0, <1>8 DEF StopConnector, Shutdown, OpcuaDisconnect, OpcuaTyped
  <2>2. /\ life' \in {"up", "stopped"} /\ reply' \in {"ok", "error"}
        /\ UNCHANGED <<settings, bound, recorded>>
    BY <1>8 DEF StopConnector, Shutdown, Up
  <2> QED
    BY <2>1, <2>2 DEF ServiceTyped
<1>9. CASE Paho \/ FlushTick \/ ProducerThread \/ UNCHANGED fieldVars
  <2>1. UNCHANGED <<settings, life, bound, opcua, reply, recorded>>
    BY <1>9 DEF Paho, FlushTick, ProducerThread, ofFieldOnly, fieldVars
  <2> QED
    BY <2>1 DEF ServiceTyped, OpcuaTyped
<1> QED
  BY <1>1, <1>2, <1>3, <1>4, <1>5, <1>6, <1>7, <1>8, <1>9 DEF FieldNext

FieldInv == MqttInv /\ MqttLimits /\ BridgeInv /\ BridgeTypeOK /\ ServiceTyped

LEMMA FieldStart == FieldInit => FieldInv
<1> SUFFICES ASSUME FieldInit PROVE FieldInv
  OBVIOUS
<1>1. MqttInit /\ BridgeInit
  BY DEF FieldInit
<1> QED
  BY <1>1, InitMqtt, LimitsOfMqttStart, InitBridge, BridgeTypedStart, ServiceStart DEF FieldInv

LEMMA FieldKeeps == ASSUME FieldInv, [FieldNext]_fieldVars PROVE FieldInv'
<1>1. MqttInv' /\ MqttLimits'
  BY FieldMoves, NextMqtt, LimitsOfMqttStep, DisconnectKeeps DEF FieldInv
<1>2. BridgeInv' /\ BridgeTypeOK'
  BY FieldMoves, NextBridge, BridgeTypedStep DEF FieldInv
<1>3. ServiceTyped'
  BY ServiceKeeps DEF FieldInv
<1> QED
  BY <1>1, <1>2, <1>3 DEF FieldInv

LEMMA FieldTyped == ASSUME FieldInv PROVE FieldTypeOK
<1>1. MqttTypeOK
  BY MqttTyped DEF FieldInv
<1> QED
  BY <1>1 DEF FieldInv, ServiceTyped, OpcuaTyped, FieldTypeOK

-----------------------------------------------------------------------------
(* AlertPlane: types *)

AlertBooksOK ==
  /\ clock \in 0..MaxClock /\ reports \in 0..MaxReports /\ asks \in 0..MaxAsks
  /\ recipients \in [Phones -> SUBSET Severities]
  /\ notices \subseteq Recorded
  /\ texting \in [Ids -> SUBSET Phones]

LEMMA AlertBooksStart == AlertPlaneInit => AlertBooksOK
  BY AlertBounds DEF AlertPlaneInit, AlertInit, AlertBooksOK

LEMMA Notified ==
  ASSUME AlertBooksOK, NEW a \in Ids, Notify(a) PROVE texting' \in [Ids -> SUBSET Phones]
BY DEF AlertBooksOK, Notify

LEMMA AlertBooksStep ==
  ASSUME AlertsTyped, AlertBooksOK, [AlertPlaneNext]_alertPlaneVars PROVE AlertBooksOK'
<1>0. Recorded \subseteq Recorded'
  BY RecordedGrows
<1>1. CASE PostAlert
  <2>1. PICK i \in Ids, c \in Conditions, s \in Severities, st \in Status, t \in 0..clock :
          CreateAlert(i, c, s, st, t)
    BY <1>1 DEF PostAlert
  <2>2. reports' \in 0..MaxReports
    BY <2>1, AlertBounds DEF CreateAlert, AlertBooksOK
  <2>3. notices' \subseteq Recorded'
    <3>1. CASE notices' = notices
      BY <1>0, <3>1 DEF AlertBooksOK
    <3>2. CASE RecordAlert(i, c, s, st, t)
      <4>0. PICK R \in Limited(OfTheWell(c), WellLimit), S \in Limited(CrossWell(c, Window), RuleLimit) :
              \E k \in Correlation(i, c, R), f \in Facility(i, c, S) :
                alerts' = [a \in Ids |->
                  IF a = i
                  THEN [at |-> c, severity |-> s, status |-> st, time |-> t, corr |-> k,
                        facility |-> f, count |-> 1, rca |-> "none"]
                  ELSE Backfill(a, i, f, S)]
        BY <3>2 DEF RecordAlert
      <4>1. PICK k \in Correlation(i, c, R), f \in Facility(i, c, S) :
              alerts' = [a \in Ids |->
                IF a = i
                THEN [at |-> c, severity |-> s, status |-> st, time |-> t, corr |-> k,
                      facility |-> f, count |-> 1, rca |-> "none"]
                ELSE Backfill(a, i, f, S)]
        BY <4>0
      <4> DEFINE r == [at |-> c, severity |-> s, status |-> st, time |-> t, corr |-> k,
                       facility |-> f, count |-> 1, rca |-> "none"]
      <4>2. r.status = st /\ st \in Status /\ r # Missing
        BY DEF Missing, Status
      <4>3. alerts'[i] = r
        BY <4>1
      <4>4. i \in Recorded' /\ notices' = notices \union {i}
        BY <3>2, <4>2, <4>3 DEF Recorded, RecordAlert
      <4> QED
        BY <1>0, <4>4 DEF AlertBooksOK
    <3> QED
      BY <2>1, <3>1, <3>2 DEF CreateAlert
  <2> QED
    BY <2>1, <2>2, <2>3 DEF CreateAlert, AlertBooksOK
<1>2. CASE UNCHANGED <<clock, recipients, notices, texting, reports, asks>>
  BY <1>0, <1>2 DEF AlertBooksOK
<1>3. Ask => asks' \in 0..MaxAsks
  BY AlertBounds DEF Ask, AlertBooksOK
<1>4. CASE Triage
  <2>1. asks' \in 0..MaxAsks /\ UNCHANGED <<clock, recipients, notices, texting, reports>>
    BY <1>3, <1>4 DEF Triage, ResolveAlert, RunAlertRca, AlertBooksOK
  <2> QED
    BY <1>0, <2>1 DEF AlertBooksOK
<1>5. CASE Texts
  <2>1. ASSUME NEW p \in Phones, NEW wanted \in SUBSET Severities, RegisterPhone(p, wanted)
        PROVE  AlertBooksOK'
    BY <1>0, <1>3, <2>1 DEF RegisterPhone, AlertBooksOK
  <2>2. ASSUME NEW a \in Ids, SendAlertSms(a) PROVE AlertBooksOK'
    <3>1. texting' \in [Ids -> SUBSET Phones]
      BY <2>2, Notified DEF SendAlertSms
    <3> QED
      BY <1>0, <1>3, <2>2, <3>1 DEF SendAlertSms, AlertBooksOK
  <2> QED
    BY <1>5, <2>1, <2>2 DEF Texts
<1>6. CASE Notices
  <2>1. ASSUME NEW a \in Ids, StartNotice(a) PROVE AlertBooksOK'
    <3>1. texting' \in [Ids -> SUBSET Phones]
      BY <2>1, Notified DEF StartNotice
    <3> QED
      BY <1>0, <2>1, <3>1 DEF StartNotice, AlertBooksOK
  <2>2. ASSUME NEW a \in Ids, NEW p \in Phones, SendSms(a, p) PROVE AlertBooksOK'
    <3>1. texting' \in [Ids -> SUBSET Phones]
      BY <2>2 DEF SendSms, AlertBooksOK
    <3> QED
      BY <1>0, <2>2, <3>1 DEF SendSms, AlertBooksOK
  <2> QED
    BY <1>6, <2>1, <2>2 DEF Notices
<1>7. CASE RestartAlerts
  <2>1. /\ recipients' \in [Phones -> SUBSET Severities] /\ texting' \in [Ids -> SUBSET Phones]
        /\ notices' \subseteq Recorded'
    BY <1>7 DEF RestartAlerts
  <2> QED
    BY <1>3, <1>7, <2>1 DEF RestartAlerts, AlertBooksOK
<1>8. CASE Tick
  <2>1. clock' \in 0..MaxClock
    BY <1>8, AlertBounds DEF Tick, AlertBooksOK
  <2> QED
    BY <1>0, <1>8, <2>1 DEF Tick, AlertBooksOK
<1> QED
  BY <1>1, <1>2, <1>4, <1>5, <1>6, <1>7, <1>8
     DEF AlertPlaneNext, AcknowledgeAlert, FlushItem, AppStep, alertVars, alertPlaneVars

LEMMA PhoneTyped ==
  ASSUME PhoneInv
  PROVE  /\ queue \in Seq(Recorded) /\ served \subseteq Recorded /\ queued \subseteq Recorded
         /\ flush \in [Flushes -> Mobile!Flushing \union {Mobile!Idle}]
         /\ tap \in [Taps -> Mobile!Tapping \union {Mobile!Idle}]
<1>0. Recorded \subseteq Ids
  BY DEF Recorded
<1>1. FlushOf(Ids) = Mobile!Flushing /\ TapOf(Ids) = Mobile!Tapping
  BY DEF FlushOf, TapOf, Mobile!Flushing, Mobile!Tapping
<1>2. ASSUME NEW f \in Flushes PROVE flush[f] \in Mobile!Flushing \union {Mobile!Idle}
  <2>1. FlushOK(flush[f], served, Ids)
    <3>1. FlushOK(flush[f], served, Recorded)
      BY DEF PhoneInv
    <3> QED
      BY <1>0, <3>1, FlushGrows
  <2> QED
    BY <1>1, <2>1 DEF FlushOK
<1>3. tap \in [Taps -> Mobile!Tapping \union {Mobile!Idle}]
  <2>1. ASSUME NEW t \in Taps PROVE tap[t] \in Mobile!Tapping \union {Mobile!Idle}
    BY <1>0, <1>1, TapGrows DEF PhoneInv, TapsOK
  <2>2. tap = [t \in Taps |-> tap[t]]
    BY DEF PhoneInv, TapsOK
  <2> QED
    BY <2>1, <2>2
<1>4. flush \in [Flushes -> Mobile!Flushing \union {Mobile!Idle}]
  <2>1. flush = [f \in Flushes |-> flush[f]]
    BY DEF PhoneInv
  <2> QED
    BY <1>2, <2>1
<1> QED
  BY <1>3, <1>4 DEF PhoneInv

LEMMA AlertPlaneTyped == ASSUME PhoneInv, AlertBooksOK PROVE AlertPlaneTypeOK
<1>1. alerts \in [Ids -> Alert \union {Missing}]
  BY DEF PhoneInv, AlertsTyped
<1> QED
  BY <1>1, PhoneTyped DEF AlertBooksOK, AlertPlaneTypeOK

-----------------------------------------------------------------------------
(* The plant's services together *)

\* A behaviour of the services together is one of each of them, which is what lets
\* every theorem about a service stand for the plant.
THEOREM PlantParts ==
  Spec => /\ AlertPlaneSpec /\ OrdersSpec /\ FieldSpec /\ ConsumerSpec /\ ModelSpec /\ FederatedSpec
          /\ OperationsSpec /\ ReportingSpec /\ CatalogSpec /\ TwinSpec /\ MonitorSpec
<1>1. Init => /\ AlertPlaneInit /\ OrdersInit /\ FieldInit /\ ConsumerInit /\ ModelInit
              /\ FederatedInit /\ OperationsInit /\ ReportingInit /\ CatalogInit
              /\ TwinInit /\ MonitorInit
  BY DEF Init
<1>2. [Next]_vars =>
        /\ [AlertPlaneNext]_alertPlaneVars /\ [OrdersNext]_orderVars /\ [FieldNext]_fieldVars
        /\ [ConsumerNext]_consumerVars /\ [ModelNext]_modelVars /\ [FederatedNext]_federatedVars
        /\ [OperationsNext]_operationsVars /\ [ReportingNext]_reportingVars
        /\ [CatalogNext]_catalogVars /\ [TwinNext]_twinVars /\ [MonitorNext]_monitorVars
  <2> SUFFICES ASSUME [Next]_vars
      PROVE  /\ [AlertPlaneNext]_alertPlaneVars /\ [OrdersNext]_orderVars /\ [FieldNext]_fieldVars
             /\ [ConsumerNext]_consumerVars /\ [ModelNext]_modelVars /\ [FederatedNext]_federatedVars
             /\ [OperationsNext]_operationsVars /\ [ReportingNext]_reportingVars
             /\ [CatalogNext]_catalogVars /\ [TwinNext]_twinVars /\ [MonitorNext]_monitorVars
    OBVIOUS
  <2>1. CASE AlertsStep
    BY <2>1 DEF AlertsStep
  <2>2. CASE OrdersStep
    BY <2>2 DEF OrdersStep
  <2>3. CASE FieldStep
    BY <2>3 DEF FieldStep
  <2>4. CASE ConsumerStep
    BY <2>4 DEF ConsumerStep
  <2>5. CASE ModelsStep
    BY <2>5 DEF ModelsStep
  <2>6. CASE FederatedStep
    BY <2>6 DEF FederatedStep
  <2>7. CASE OperationsStep
    BY <2>7 DEF OperationsStep
  <2>8. CASE ReportingStep
    BY <2>8 DEF ReportingStep
  <2>9. CASE CatalogStep
    BY <2>9 DEF CatalogStep
  <2>10. CASE TwinStep
    BY <2>10 DEF TwinStep
  <2>11. CASE MonitorStep
    BY <2>11 DEF MonitorStep
  <2>12. CASE UNCHANGED vars
    BY <2>12 DEF vars
  <2> QED
    BY <2>1, <2>2, <2>3, <2>4, <2>5, <2>6, <2>7, <2>8, <2>9, <2>10, <2>11, <2>12 DEF Next
<1> QED
  BY <1>1, <1>2, PTL
     DEF Spec, AlertPlaneSpec, OrdersSpec, FieldSpec, ConsumerSpec, ModelSpec, FederatedSpec,
         OperationsSpec, ReportingSpec, CatalogSpec, TwinSpec, MonitorSpec

\* The state below the types of the service that ingests from the field.
THEOREM FieldInvariant == FieldSpec => []FieldInv
  BY FieldStart, FieldKeeps, PTL DEF FieldSpec

\* What the coordinator of federated learning has of its nodes and its rounds.
THEOREM FederatedInvariant == FederatedSpec => []FederatedInv
  BY FederatedStart, FederatedKeeps, PTL DEF FederatedSpec

\* The global accuracy of a round is one that a node could have submitted, between 0
\* and 1000 thousandths, whatever the sizes the average is weighted by.
THEOREM GlobalAccuracyHolds ==
  FederatedSpec => [](\A i \in DOMAIN history : Between(0, history[i][1], history[i][2], 1000))
<1>1. FederatedInv => \A i \in DOMAIN history : Between(0, history[i][1], history[i][2], 1000)
  BY DEF FederatedInv
<1> QED
  BY <1>1, FederatedInvariant, PTL

\* A reading of the catalog is checked, repaired and reconciled within its types.
THEOREM CatalogInvariant == CatalogSpec => []CatalogInv
  BY CatalogStart, CatalogKeeps, PTL DEF CatalogSpec

\* Every service of the plant has its types, for any bounds.
THEOREM PlantTypes == Spec => []TypeOK
<1>1. AlertPlaneSpec => []AlertPlaneTypeOK
  <2>1. PhoneInv => AlertsTyped
    BY DEF PhoneInv
  <2>2. AlertPlaneSpec => []AlertBooksOK
    BY <2>1, PhoneInvariant, AlertBooksStart, AlertBooksStep, PTL DEF AlertPlaneSpec
  <2>3. PhoneInv /\ AlertBooksOK => AlertPlaneTypeOK
    BY AlertPlaneTyped
  <2> QED
    BY <2>2, <2>3, PhoneInvariant, PTL
<1>2. OrdersSpec => []OrdersTypeOK
  BY OrdersTypedStart, OrdersTypedStep, PTL DEF OrdersSpec
<1>3. FieldSpec => []FieldTypeOK
  BY FieldInvariant, FieldTyped, PTL
<1>4. ConsumerSpec => []ConsumerTypeOK
  BY ConsumerTypedStart, ConsumerTypedStep, PTL DEF ConsumerSpec
<1>5. ModelSpec => []ModelTypeOK
  BY RegistryInvariant, LimitsStart, LimitsStep, ModelTyped, PTL DEF ModelSpec
<1>6. FederatedSpec => []FederatedTypeOK
  BY FederatedInvariant, FederatedTyped, PTL
<1>7. OperationsSpec => []OperationsTypeOK
  BY DeclineInvariant, TablesStart, TablesStep, OperationsTyped, PTL DEF OperationsSpec
<1>8. ReportingSpec => []ReportingTypeOK
  BY RunsInvariant, ReportingTyped, PTL
<1>9. CatalogSpec => []CatalogTypeOK
  BY CatalogInvariant, CatalogTyped, PTL
<1>10. TwinSpec => []TwinTypeOK
  <2>1. TwinInv => TwinTypeOK
    BY DEF TwinInv
  <2> QED
    BY <2>1, TwinInvariant, PTL
<1>11. MonitorSpec => []MonitorTypeOK
  BY MonitorInvariant, MonitorTyped, PTL
<1>12. /\ AlertPlaneTypeOK /\ OrdersTypeOK /\ FieldTypeOK /\ ConsumerTypeOK /\ ModelTypeOK
       /\ FederatedTypeOK /\ OperationsTypeOK /\ ReportingTypeOK /\ CatalogTypeOK
       /\ TwinTypeOK /\ MonitorTypeOK
       => TypeOK
  BY DEF TypeOK
<1> QED
  BY <1>1, <1>2, <1>3, <1>4, <1>5, <1>6, <1>7, <1>8, <1>9, <1>10, <1>11, <1>12, PlantParts, PTL

\* Subscriptions and records in the life of the ingestion service, which starts its
\* client and its bridge once and closes them when it stops.
THEOREM FieldSafe == FieldSpec => [](SubscribedWhileUp /\ OnlyRetriesRepeat)
<1>1. MqttInv => SubscribedWhileUp
  BY DEF MqttInv, NothingLeftOut, SubscribedWhileUp, Pending
<1>2. FieldSpec => BridgeSpec
  <2>1. FieldInit => BridgeInit
    BY DEF FieldInit
  <2>2. [FieldNext]_fieldVars => [BridgeNext]_bridgeVars
    BY FieldMoves
  <2> QED
    BY <2>1, <2>2, PTL DEF FieldSpec, BridgeSpec
<1>3. FieldInv => MqttInv
  BY DEF FieldInv
<1> QED
  BY <1>1, <1>2, <1>3, FieldInvariant, OnlyRetriesRepeatHolds, PTL

\* What is proved of each service holds of the services together.
THEOREM PlantSafe ==
  Spec => /\ [](/\ OneOpenAlert /\ EveryReportCounted /\ FacilitySpansWells
                /\ SubscribedWhileUp /\ OnlyRetriesRepeat
                /\ AnsweredAsLabelled /\ DependenciesFirst /\ ReportFresh /\ DeclineGoesOn
                /\ PassedOverWasTried
                /\ BaselineIsFirstMedian /\ HealthAgrees /\ RowsMarked /\ ViewsRecent)
          /\ OnlyStaleWritesDrop
<1>1. Spec => [](/\ OneOpenAlert /\ EveryReportCounted /\ FacilitySpansWells)
  BY PlantParts, OneOpenAlertHolds, EveryReportCountedHolds, FacilitySpansWellsHolds, PTL
<1>2. Spec => [](/\ SubscribedWhileUp /\ OnlyRetriesRepeat)
  BY PlantParts, FieldSafe, PTL
<1>3. Spec => [](AnsweredAsLabelled /\ DependenciesFirst /\ ReportFresh /\ DeclineGoesOn)
  BY PlantParts, AnsweredAsLabelledHolds, DependenciesFirstHolds, ReportFreshHolds, DeclineGoesOnHolds, PTL
<1>4. Spec => [](PassedOverWasTried /\ BaselineIsFirstMedian /\ HealthAgrees /\ RowsMarked
                 /\ ViewsRecent)
  BY PlantParts, PassedOverHolds, BaselineIsFirstMedianHolds, HealthAgreesHolds, RowsMarkedHolds,
     ViewsRecentHolds, PTL
<1>5. Spec => OnlyStaleWritesDrop
  BY PlantParts, OnlyStaleWritesDropHolds
<1> QED
  BY <1>1, <1>2, <1>3, <1>4, <1>5, PTL

=============================================================================
