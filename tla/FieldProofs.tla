----------------------------- MODULE FieldProofs ------------------------------
(***************************************************************************)
(* What the bridge gives to the producer, for any batch size, number of    *)
(* records, failing sends and restarts; what the broker knows of the       *)
(* topics that the MQTT client has listed, for any topics and sessions;    *)
(* the baseline and the health of every sensor and the rows that ingestion *)
(* writes of its readings; and what a page shows of a well: its depth, cut *)
(* in segments, and the age of the view.                                   *)
(***************************************************************************)
EXTENDS EdgeToStream, MqttClient, SensorHealth, DigitalTwin, SumTheorems, SequenceTheorems

Increasing(s) == \A i, j \in 1..Len(s) : i < j => s[i] < s[j]

\* Every member of s is less than every member of t.
Before(s, t) == \A i \in 1..Len(s), j \in 1..Len(t) : s[i] < t[j]

Within(s, n) == \A i \in 1..Len(s) : s[i] <= n

\* The records sent and those in the batch, apart: each in order, the former
\* before the latter, and all of them known.
Ordered(done, waiting, n) ==
  /\ done \in Seq(Nat) /\ waiting \in Seq(Nat) /\ n \in Nat
  /\ Increasing(done) /\ Increasing(waiting) /\ Before(done, waiting)
  /\ Within(done, n) /\ Within(waiting, n)

HandOverInv ==
  /\ Ordered(sent, batch, streamed)
  /\ Len(batch) < BatchSize

\* The records given to the producer.
Given(s) == {s[i] : i \in 1..Len(s)}

Message == [record : Records, try : Nat \ {0}]

\* What the producer has of its records, against the topic.
ProducerInv ==
  /\ open \subseteq Given(sent)
  /\ tries \in [Records -> Nat]
  /\ arrived \in Seq(Message)
  /\ \A r \in Records : tries[r] > 0 => r \in Given(sent)
  /\ \A r, q \in Records : r \in open /\ r < q /\ tries[q] > 0 => tries[r] > 0

TopicInv ==
  /\ \A i \in 1..Len(arrived) : arrived[i].try <= tries[arrived[i].record]
  /\ \A i, j \in 1..Len(arrived) : arrived[i] = arrived[j] => i = j
  /\ \A i, j \in 1..Len(arrived) :
       i < j /\ arrived[j].record < arrived[i].record => arrived[j].try > 1

BridgeInv == HandOverInv /\ ProducerInv /\ TopicInv

-----------------------------------------------------------------------------
(* Sequences in order *)

\* A new record is the last of the batch.
LEMMA OrderedAppend ==
  ASSUME NEW s, NEW t, NEW n, Ordered(s, t, n)
  PROVE  Ordered(s, Append(t, n + 1), n + 1) /\ Len(Append(t, n + 1)) = Len(t) + 1
<1>1. /\ Append(t, n + 1) \in Seq(Nat) /\ n + 1 \in Nat
      /\ Len(Append(t, n + 1)) = Len(t) + 1 /\ Len(t) \in Nat
      /\ Append(t, n + 1)[Len(t) + 1] = n + 1
      /\ \A i \in 1..Len(t) : Append(t, n + 1)[i] = t[i]
  BY DEF Ordered
<1>2. /\ \A i \in 1..Len(s) : s[i] \in Nat
      /\ \A i \in 1..Len(t) : t[i] \in Nat
  BY DEF Ordered
<1> DEFINE a == Append(t, n + 1)
<1>3. Increasing(a)
  <2> SUFFICES ASSUME NEW i \in 1..Len(a), NEW j \in 1..Len(a), i < j
               PROVE  a[i] < a[j]
    BY DEF Increasing
  <2>1. i \in 1..Len(t) /\ a[i] = t[i]
    BY <1>1
  <2>2. CASE j = Len(t) + 1
    BY <2>1, <2>2, <1>1, <1>2 DEF Ordered, Within
  <2>3. CASE j # Len(t) + 1
    <3>1. j \in 1..Len(t) /\ a[j] = t[j]
      BY <2>3, <1>1
    <3> QED
      BY <2>1, <3>1 DEF Ordered, Increasing
  <2> QED
    BY <2>2, <2>3
<1>4. Before(s, Append(t, n + 1))
  BY <1>1, <1>2 DEF Ordered, Before, Within
<1>5. Within(s, n + 1) /\ Within(Append(t, n + 1), n + 1)
  BY <1>1, <1>2, SMTT(30) DEF Ordered, Within
<1> QED
  BY <1>1, <1>3, <1>4, <1>5 DEF Ordered

\* Some of the first records of a batch follow what has been sent.
LEMMA OrderedSend ==
  ASSUME NEW s, NEW t, NEW n, Ordered(s, t, n), NEW k \in 0..Len(t)
  PROVE  Ordered(s \o SubSeq(t, 1, k), <<>>, n) /\ Ordered(s, <<>>, n)
<1> DEFINE u == SubSeq(t, 1, k)
           r == s \o u
<1>1. /\ s \in Seq(Nat) /\ t \in Seq(Nat) /\ n \in Nat /\ Len(t) \in Nat /\ Len(s) \in Nat
      /\ \A i \in 1..Len(s) : s[i] \in Nat
      /\ \A i \in 1..Len(t) : t[i] \in Nat
  BY DEF Ordered
<1>2. u \in Seq(Nat) /\ Len(u) = k /\ \A i \in 1..k : u[i] = t[i]
  BY <1>1
<1> HIDE DEF u
<1>3. /\ r \in Seq(Nat) /\ Len(r) = Len(s) + k
      /\ \A i \in 1..Len(s) : r[i] = s[i]
      /\ \A i \in Len(s) + 1..Len(s) + k : r[i] = t[i - Len(s)] /\ i - Len(s) \in 1..Len(t)
  <2>1. /\ r \in Seq(Nat) /\ Len(r) = Len(s) + k
        /\ \A i \in 1..Len(s) + k : r[i] = IF i <= Len(s) THEN s[i] ELSE u[i - Len(s)]
    BY <1>1, <1>2, ConcatProperties
  <2> HIDE DEF r
  <2>2. \A i \in Len(s) + 1..Len(s) + k :
          /\ i - Len(s) \in 1..k /\ i - Len(s) \in 1..Len(t)
          /\ i \in 1..Len(s) + k /\ ~(i <= Len(s))
    BY <1>1
  <2>3. \A i \in 1..Len(s) : i \in 1..Len(s) + k /\ i <= Len(s)
    BY <1>1
  <2>4. \A i \in 1..Len(s) : r[i] = s[i]
    BY <2>1, <2>3
  <2>5. \A i \in Len(s) + 1..Len(s) + k : r[i] = t[i - Len(s)]
    BY <2>1, <2>2, <1>2
  <2> QED
    BY <2>1, <2>2, <2>4, <2>5
<1> HIDE DEF r
<1>4. ASSUME NEW i \in 1..Len(r), NEW j \in 1..Len(r), i < j PROVE r[i] < r[j]
  <2>1. CASE j <= Len(s)
    <3>1. i \in 1..Len(s) /\ j \in 1..Len(s)
      BY <2>1, <1>4, <1>3, <1>1
    <3> QED
      BY <3>1, <1>3, <1>4 DEF Ordered, Increasing
  <2>2. CASE i <= Len(s) /\ j > Len(s)
    <3>1. i \in 1..Len(s) /\ j \in Len(s) + 1..Len(s) + k
      BY <2>2, <1>3, <1>1
    <3> QED
      BY <3>1, <1>3 DEF Ordered, Before
  <2>3. CASE i > Len(s)
    <3>1. i \in Len(s) + 1..Len(s) + k /\ j \in Len(s) + 1..Len(s) + k
      BY <2>3, <1>4, <1>3, <1>1, SMTT(30)
    <3>2. i - Len(s) < j - Len(s)
      BY <1>4, <1>1, <1>3
    <3> QED
      BY <3>1, <3>2, <1>3 DEF Ordered, Increasing
  <2>4. i \in Int /\ j \in Int /\ Len(s) \in Int
    BY <1>1, <1>3
  <2>5. j <= Len(s) \/ (i <= Len(s) /\ j > Len(s)) \/ i > Len(s)
    BY <2>4
  <2> QED
    BY <2>1, <2>2, <2>3, <2>5
<1>5. Within(r, n)
  <2> SUFFICES ASSUME NEW i \in 1..Len(r) PROVE r[i] <= n
    BY DEF Within
  <2>1. CASE i \in 1..Len(s)
    BY <2>1, <1>3 DEF Ordered, Within
  <2>2. CASE i \in Len(s) + 1..Len(s) + k
    BY <2>2, <1>3 DEF Ordered, Within
  <2> QED
    BY <2>1, <2>2, <1>1, <1>3
<1>6. ASSUME NEW q \in Seq(Nat), Increasing(q), Within(q, n) PROVE Ordered(q, <<>>, n)
  BY <1>1, <1>6 DEF Ordered, Increasing, Before, Within
<1> QED
  BY <1>1, <1>3, <1>4, <1>5, <1>6 DEF Ordered, Increasing, r, u

-----------------------------------------------------------------------------
LEMMA FlushKeeps ==
  ASSUME NEW b, NEW k \in 0..Len(b), Ordered(sent, b, streamed'), Flush(b, k)
  PROVE  HandOverInv'
<1>1. Ordered(sent', batch', streamed')
  BY OrderedSend DEF Flush, Give
<1> QED
  BY <1>1, BridgeAssumption DEF HandOverInv, Flush

\* What is given to the producer comes after all that it was given before.
LEMMA GivenLater ==
  ASSUME NEW b, NEW k \in 0..Len(b), Ordered(sent, b, streamed'), Flush(b, k)
  PROVE  /\ Given(sent) \subseteq Given(sent')
         /\ open' \subseteq open \union Given(sent')
         /\ \A r \in open' \ open : \A q \in Given(sent) : q < r
<1>1. CASE bridge # "ready"
  BY <1>1 DEF Flush, Give
<1>2. CASE bridge = "ready"
  <2> DEFINE u == SubSeq(b, 1, k)
  <2>1. sent' = sent \o u /\ open' = open \union {u[i] : i \in DOMAIN u}
    BY <1>2 DEF Flush, Give
  <2>2. sent \in Seq(Nat) /\ b \in Seq(Nat) /\ Len(sent) \in Nat /\ Len(b) \in Nat
    BY DEF Ordered
  <2>3. u \in Seq(Nat) /\ Len(u) = k /\ DOMAIN u = 1..k /\ \A i \in 1..k : u[i] = b[i]
    BY <2>2
  <2> HIDE DEF u
  <2>4. /\ Len(sent') = Len(sent) + k
        /\ \A i \in 1..Len(sent) + k : sent'[i] = IF i <= Len(sent) THEN sent[i] ELSE u[i - Len(sent)]
    BY <2>1, <2>2, <2>3, ConcatProperties
  <2>5. Given(sent) \subseteq Given(sent')
    <3>1. \A i \in 1..Len(sent) : i \in 1..Len(sent') /\ i \in 1..Len(sent) + k /\ i <= Len(sent)
      BY <2>2, <2>4
    <3>2. \A i \in 1..Len(sent) : i \in 1..Len(sent') /\ sent'[i] = sent[i]
      BY <2>4, <3>1, Zenon
    <3> QED
      BY <3>2 DEF Given
  <2>6. ASSUME NEW i \in 1..k PROVE u[i] \in Given(sent') /\ \A q \in Given(sent) : q < u[i]
    <3> DEFINE n == Len(sent) + i
    <3>1. n \in 1..Len(sent') /\ sent'[n] = u[i]
      <4>1. n \in 1..Len(sent) + k /\ ~(n <= Len(sent)) /\ n - Len(sent) = i
        BY <2>2
      <4> HIDE DEF n
      <4> QED
        BY <2>4, <4>1
    <3>2. \A q \in Given(sent) : q < u[i]
      <4>1. u[i] = b[i] /\ i \in 1..Len(b)
        BY <2>2, <2>3
      <4> QED
        BY <4>1 DEF Ordered, Before, Given
    <3> HIDE DEF n
    <3> QED
      BY <3>1, <3>2 DEF Given
  <2> QED
    BY <2>1, <2>3, <2>5, <2>6
<1> QED
  BY <1>1, <1>2

\* The producer and the topic keep in step while records are given to it.
LEMMA GivingKeeps ==
  ASSUME BridgeInv, UNCHANGED <<tries, arrived>>,
         Given(sent) \subseteq Given(sent'),
         open' \subseteq open \union Given(sent'),
         \A r \in open' \ open : \A q \in Given(sent) : q < r,
         sent' \in Seq(Nat)
  PROVE  ProducerInv' /\ TopicInv'
<1>1. open' \subseteq Given(sent')
  BY DEF BridgeInv, ProducerInv
<1>2. ASSUME NEW r \in Records, NEW q \in Records, r \in open', r < q, tries[q] > 0
      PROVE  tries[r] > 0
  <2>1. CASE r \in open
    BY <1>2, <2>1 DEF BridgeInv, ProducerInv
  <2>2. CASE r \notin open
    <3>1. q \in Given(sent)
      BY <1>2 DEF BridgeInv, ProducerInv
    <3>2. q < r
      BY <1>2, <2>2, <3>1
    <3> QED
      BY <1>2, <3>2 DEF Records
  <2> QED
    BY <2>1, <2>2
<1>3. ProducerInv'
  BY <1>1, <1>2 DEF BridgeInv, ProducerInv
<1> QED
  BY <1>3 DEF BridgeInv, TopicInv

LEMMA ArrivedMessages ==
  ASSUME arrived \in Seq(Message)
  PROVE  /\ Len(arrived) \in Nat
         /\ \A i \in 1..Len(arrived) : /\ arrived[i].record \in Records
                                       /\ arrived[i].try \in Nat \ {0}
<1>1. Len(arrived) \in Nat /\ \A i \in 1..Len(arrived) : arrived[i] \in Message
  BY ElementOfSeq
<1>2. \A m \in Message : m.record \in Records /\ m.try \in Nat \ {0}
  BY DEF Message
<1> QED
  BY <1>1, <1>2

LEMMA RequestKeeps ==
  ASSUME BridgeInv, NEW r \in Records, Request(r)
  PROVE  ProducerInv' /\ TopicInv'
<1> DEFINE m == [record |-> r, try |-> tries[r] + 1]
<1>1. /\ tries \in [Records -> Nat] /\ tries[r] \in Nat
      /\ arrived \in Seq(Message)
      /\ Len(arrived) \in Nat
      /\ \A i \in 1..Len(arrived) : /\ arrived[i].record \in Records
                                    /\ arrived[i].try \in Nat \ {0}
  <2>1. tries \in [Records -> Nat] /\ arrived \in Seq(Message)
    BY DEF BridgeInv, ProducerInv
  <2> QED
    BY <2>1, ArrivedMessages DEF Message
<1>2. /\ tries' = [tries EXCEPT ![r] = @ + 1] /\ UNCHANGED sent
      /\ r \in open /\ open' \subseteq open
      /\ tries[r] = 0 => \A q \in open : q < r => tries[q] > 0
      /\ arrived' = arrived \/ arrived' = Append(arrived, m)
  BY DEF Request
<1>3. /\ tries' \in [Records -> Nat] /\ tries'[r] = tries[r] + 1
      /\ \A q \in Records : q # r => tries'[q] = tries[q]
      /\ \A q \in Records : tries'[q] >= tries[q]
  BY <1>1, <1>2
<1>4. m \in Message /\ m.record = r /\ m.try = tries[r] + 1
  BY <1>1 DEF Message
<1> HIDE DEF m
<1>5. ProducerInv'
  <2>1. arrived' \in Seq(Message)
    <3>1. arrived \in Seq(Message) /\ m \in Message
      BY <1>1, <1>4
    <3>2. Append(arrived, m) \in Seq(Message)
      BY <3>1, AppendProperties
    <3> QED
      BY <1>2, <3>1, <3>2
  <2>2. ASSUME NEW p \in Records, NEW q \in Records, p \in open', p < q, tries'[q] > 0
        PROVE  tries'[p] > 0
    <3>1. CASE p = r
      BY <3>1, <1>1, <1>3
    <3>2. CASE p # r /\ q # r
      BY <3>2, <2>2, <1>2, <1>3 DEF BridgeInv, ProducerInv
    <3>3. CASE p # r /\ q = r /\ tries[r] = 0
      BY <3>3, <2>2, <1>2, <1>3
    <3>4. CASE p # r /\ q = r /\ tries[r] # 0
      <4>1. tries[q] > 0 /\ p \in open
        BY <3>4, <2>2, <1>1, <1>2
      <4>2. tries[p] > 0
        BY <4>1, <2>2 DEF BridgeInv, ProducerInv
      <4> QED
        BY <4>2, <3>4, <1>3
    <3> QED
      BY <3>1, <3>2, <3>3, <3>4
  <2>3. ASSUME NEW p \in Records, tries'[p] > 0 PROVE p \in Given(sent')
    <3>1. CASE p = r
      BY <3>1, <1>2 DEF BridgeInv, ProducerInv, Given
    <3>2. CASE p # r
      BY <3>2, <2>3, <1>2, <1>3 DEF BridgeInv, ProducerInv, Given
    <3> QED
      BY <3>1, <3>2
  <2>4. open' \subseteq Given(sent')
    BY <1>2 DEF BridgeInv, ProducerInv, Given
  <2> QED
    BY <2>1, <2>2, <2>3, <2>4, <1>3 DEF ProducerInv
<1>6. CASE arrived' = arrived
  <2>1. ASSUME NEW i \in 1..Len(arrived) PROVE arrived[i].try <= tries'[arrived[i].record]
    <3>1. /\ arrived[i].try \in Nat /\ arrived[i].try <= tries[arrived[i].record]
          /\ arrived[i].record \in Records
      BY <1>1 DEF BridgeInv, TopicInv
    <3>2. tries'[arrived[i].record] >= tries[arrived[i].record]
      BY <1>3, <3>1
    <3>3. tries[arrived[i].record] \in Nat /\ tries'[arrived[i].record] \in Nat
      BY <1>1, <1>3, <3>1
    <3> QED
      BY <3>1, <3>2, <3>3
  <2> QED
    BY <1>5, <1>6, <2>1 DEF BridgeInv, TopicInv
<1>7. CASE arrived' = Append(arrived, m)
  <2> DEFINE n == Len(arrived)
  <2>1. /\ Len(arrived') = n + 1 /\ arrived'[n + 1] = m
        /\ \A i \in 1..n : arrived'[i] = arrived[i]
    BY <1>1, <1>4, <1>7, AppendProperties
  <2>2. \A i \in 1..n + 1 : i \in 1..n \/ i = n + 1
    BY <1>1
  <2>3. ASSUME NEW i \in 1..n
        PROVE  /\ arrived[i].try <= tries[arrived[i].record]
               /\ arrived[i] # m
               /\ r < arrived[i].record => m.try > 1
    <3>1. arrived[i].try <= tries[arrived[i].record] /\ arrived[i].try > 0 /\ arrived[i].record \in Records
      BY <1>1 DEF BridgeInv, TopicInv
    <3>2. arrived[i] # m
      BY <3>1, <1>1, <1>4
    <3>3. ASSUME r < arrived[i].record PROVE m.try > 1
      <4>1. tries[arrived[i].record] > 0
        BY <3>1, <1>1
      <4>2. tries[r] > 0
        BY <3>1, <3>3, <4>1, <1>2 DEF BridgeInv, ProducerInv
      <4> QED
        BY <4>2, <1>1, <1>4
    <3> QED
      BY <3>1, <3>2, <3>3
  <2>4. ASSUME NEW i \in 1..n + 1 PROVE arrived'[i].try <= tries'[arrived'[i].record]
    <3>1. CASE i \in 1..n
      BY <3>1, <2>1, <2>3, <1>1, <1>3
    <3>2. CASE i = n + 1
      BY <3>2, <2>1, <1>1, <1>3, <1>4
    <3> QED
      BY <2>2, <3>1, <3>2
  <2>5. ASSUME NEW i \in 1..n + 1, NEW j \in 1..n + 1, arrived'[i] = arrived'[j] PROVE i = j
    <3>1. CASE i \in 1..n /\ j \in 1..n
      BY <3>1, <2>1, <2>5 DEF BridgeInv, TopicInv
    <3> QED
      BY <3>1, <2>1, <2>2, <2>3, <2>5
  <2>6. ASSUME NEW i \in 1..n + 1, NEW j \in 1..n + 1, i < j, arrived'[j].record < arrived'[i].record
        PROVE  arrived'[j].try > 1
    <3>1. i \in 1..n
      BY <1>1, <2>6
    <3>2. CASE j \in 1..n
      BY <3>1, <3>2, <2>1, <2>6 DEF BridgeInv, TopicInv
    <3>3. CASE j = n + 1
      BY <3>1, <3>3, <2>1, <2>3, <2>6, <1>4
    <3> QED
      BY <2>2, <3>2, <3>3
  <2> QED
    BY <1>5, <2>1, <2>4, <2>5, <2>6 DEF TopicInv
<1> QED
  BY <1>2, <1>6, <1>7

LEMMA InitBridge == BridgeInit => BridgeInv
<1> SUFFICES ASSUME BridgeInit PROVE BridgeInv
  OBVIOUS
<1>1. HandOverInv
  BY BridgeAssumption DEF BridgeInit, HandOverInv, Ordered, Increasing, Before, Within
<1>2. ProducerInv
  BY EmptySeq DEF BridgeInit, ProducerInv
<1>3. TopicInv
  BY DEF BridgeInit, TopicInv
<1> QED
  BY <1>1, <1>2, <1>3 DEF BridgeInv

LEMMA NextBridge == BridgeInv /\ [BridgeNext]_bridgeVars => BridgeInv'
<1> SUFFICES ASSUME BridgeInv, [BridgeNext]_bridgeVars PROVE BridgeInv'
  OBVIOUS
<1>0. sent \in Seq(Nat)
  BY DEF BridgeInv, HandOverInv, Ordered
<1>1. ASSUME UNCHANGED <<sent, open, tries, arrived>> PROVE ProducerInv' /\ TopicInv'
  BY <1>0, <1>1, GivingKeeps
<1>2. ASSUME NEW b, Ordered(sent, b, streamed'), NEW k \in 0..Len(b), Flush(b, k),
             UNCHANGED <<tries, arrived>>
      PROVE  BridgeInv'
  <2>1. HandOverInv'
    BY <1>2, FlushKeeps
  <2>2. sent' \in Seq(Nat)
    BY <2>1 DEF HandOverInv, Ordered
  <2> QED
    BY <1>2, <2>1, <2>2, GivenLater, GivingKeeps DEF BridgeInv
<1>3. CASE Initialize
  <2>1. HandOverInv'
    BY <1>3 DEF Initialize, BridgeInv, HandOverInv
  <2> QED
    BY <1>1, <1>3, <2>1 DEF Initialize, BridgeInv
<1>4. CASE StreamFromEdge
  <2> DEFINE b == Append(batch, streamed + 1)
  <2>1. Ordered(sent, b, streamed') /\ Len(b) = Len(batch) + 1
    BY <1>4, OrderedAppend DEF StreamFromEdge, BridgeInv, HandOverInv
  <2>2. CASE Len(b) >= BatchSize
    <3>1. PICK k \in 0..Len(b) : Flush(b, k)
      BY <1>4, <2>2 DEF StreamFromEdge
    <3>2. UNCHANGED <<tries, arrived>>
      BY <1>4 DEF StreamFromEdge
    <3> HIDE DEF b
    <3> QED
      BY <2>1, <3>1, <3>2, <1>2
  <2>3. CASE ~(Len(b) >= BatchSize)
    <3>1. batch' = b /\ UNCHANGED <<sent, open, tries, arrived>>
      BY <1>4, <2>3 DEF StreamFromEdge
    <3>2. Len(b) < BatchSize
      BY <2>1, <2>3, BridgeAssumption DEF BridgeInv, HandOverInv, Ordered
    <3>3. HandOverInv'
      BY <2>1, <3>1, <3>2 DEF HandOverInv
    <3> QED
      BY <1>1, <3>1, <3>3 DEF BridgeInv
  <2> QED
    BY <2>2, <2>3
<1>5. CASE PeriodicFlush
  <2>1. PICK k \in 0..Len(batch) : Flush(batch, k)
    BY <1>5 DEF PeriodicFlush
  <2>2. UNCHANGED <<streamed, tries, arrived>>
    BY <1>5 DEF PeriodicFlush
  <2>3. Ordered(sent, batch, streamed')
    BY <2>2 DEF BridgeInv, HandOverInv
  <2> QED
    BY <2>1, <2>2, <2>3, <1>2
<1>6. CASE StopBridge
  <2>1. Ordered(sent, <<>>, streamed)
    BY OrderedSend, SMTT(30) DEF BridgeInv, HandOverInv, Ordered
  <2>2. HandOverInv'
    BY <1>6, <2>1, BridgeAssumption DEF StopBridge, HandOverInv
  <2> QED
    BY <1>1, <1>6, <2>2 DEF StopBridge, BridgeInv
<1>7. CASE Producer
  <2>1. HandOverInv'
    BY <1>7 DEF Producer, Request, GiveUp, BridgeInv, HandOverInv
  <2>2. ASSUME NEW r \in Records, GiveUp(r) PROVE ProducerInv' /\ TopicInv'
    BY <2>2, <1>0, GivingKeeps DEF GiveUp
  <2> QED
    BY <1>7, <2>1, <2>2, RequestKeeps DEF Producer, BridgeInv
<1>8. CASE UNCHANGED bridgeVars
  <2>1. HandOverInv'
    BY <1>8 DEF bridgeVars, BridgeInv, HandOverInv
  <2> QED
    BY <1>1, <1>8, <2>1 DEF bridgeVars, BridgeInv
<1> QED
  BY <1>3, <1>4, <1>5, <1>6, <1>7, <1>8 DEF BridgeNext

\* Records keep their order on the way to the producer and wait in no full
\* batch, and its first requests go out in that order.
THEOREM BridgeInvariant == BridgeSpec => []BridgeInv
  BY InitBridge, NextBridge, PTL DEF BridgeSpec

\* No record is given to the producer twice or after a later one, whatever
\* sends fail and whenever the service stops, and only what the producer tried
\* again is in the topic twice or behind a later record, for any number of
\* retries and of requests in flight.
THEOREM OnlyRetriesRepeatHolds == BridgeSpec => []OnlyRetriesRepeat
<1>1. ASSUME BridgeInv PROVE OnlyRetriesRepeat
  <2> DEFINE all == sent \o batch
  <2>1. /\ sent \in Seq(Nat) /\ batch \in Seq(Nat) /\ Len(batch) \in Nat
        /\ batch = SubSeq(batch, 1, Len(batch))
    BY <1>1 DEF BridgeInv, HandOverInv, Ordered
  <2>2. Ordered(sent \o SubSeq(batch, 1, Len(batch)), <<>>, streamed)
    <3>1. Ordered(sent, batch, streamed) /\ Len(batch) \in 0..Len(batch)
      BY <1>1, <2>1 DEF BridgeInv, HandOverInv
    <3> QED
      BY <3>1, OrderedSend
  <2>3. Ordered(all, <<>>, streamed)
    <3>1. all = sent \o SubSeq(batch, 1, Len(batch))
      BY <2>1
    <3> HIDE DEF all
    <3> QED
      BY <2>2, <3>1
  <2>4. DOMAIN all = 1..Len(all)
    <3>1. all \in Seq(Nat)
      BY <2>1, ConcatProperties
    <3> HIDE DEF all
    <3> QED
      BY <3>1, LenProperties
  <2>5. /\ \A i, j \in DOMAIN all : i < j => all[i] < all[j]
        /\ Len(batch) < BatchSize
    BY <1>1, <2>3, <2>4 DEF BridgeInv, HandOverInv, Ordered, Increasing
  <2>6. DOMAIN sent = 1..Len(sent) /\ DOMAIN arrived = 1..Len(arrived)
    BY <1>1, <2>1, LenProperties DEF BridgeInv, ProducerInv
  <2>7. \A i \in DOMAIN arrived : \E k \in DOMAIN sent : sent[k] = arrived[i].record
    <3> SUFFICES ASSUME NEW i \in 1..Len(arrived)
                 PROVE  \E k \in 1..Len(sent) : sent[k] = arrived[i].record
      BY <2>6
    <3>1. arrived[i].record \in Records /\ arrived[i].try \in Nat \ {0}
      BY <1>1, <2>6, ArrivedMessages DEF BridgeInv, ProducerInv
    <3>2. tries[arrived[i].record] > 0
      BY <1>1, <3>1 DEF BridgeInv, TopicInv, ProducerInv
    <3>3. arrived[i].record \in Given(sent)
      BY <1>1, <3>1, <3>2 DEF BridgeInv, ProducerInv
    <3> QED
      BY <3>3 DEF Given
  <2>8. \A i, j \in DOMAIN arrived :
          /\ arrived[i] = arrived[j] => i = j
          /\ i < j /\ arrived[j].record < arrived[i].record => arrived[j].try > 1
    BY <1>1, <2>6 DEF BridgeInv, TopicInv
  <2> HIDE DEF all
  <2> QED
    BY <2>5, <2>7, <2>8 DEF OnlyRetriesRepeat, all
<1> QED
  BY <1>1, BridgeInvariant, PTL

-----------------------------------------------------------------------------
(* Subscriptions *)

CallerPlaces == {"off", "waiting", "failed", "subscribe", "test", "send", "register", "ready"}

\* The topic that the starting thread has listed and may still send.
Pending == IF caller.at \in {"test", "send"} THEN {Topics[caller.n]} ELSE {}

ClientTyped ==
  /\ subscribed \in Seq(TopicSet)
  /\ isConnected \in BOOLEAN
  /\ session \in [up : BOOLEAN, topics : SUBSET TopicSet]
  /\ loop \in [at : {"off", "idle", "connack", "listing"}, n : Nat]
  /\ caller \in [at : CallerPlaces, n : Nat]
  /\ caller.at \in {"test", "send", "register"} => caller.n \in DOMAIN Topics
  /\ caller.at = "off" => loop.at = "off"
  /\ loop.at = "off" => ~session.up

\* on_connect has sent what it has passed of the list.
ListingOK ==
  loop.at = "listing" =>
    /\ isConnected
    /\ loop.n \in 1..Len(subscribed) + 1
    /\ session.up => \A i \in 1..loop.n - 1 : subscribed[i] \in session.topics

\* After on_connect the broker lacks at most what the other thread is to send.
NothingLeftOut ==
  session.up /\ loop.at = "idle" => isConnected /\ Listed \subseteq session.topics \union Pending

MqttInv == ClientTyped /\ ListingOK /\ NothingLeftOut

LEMMA InitMqtt == MqttInit => MqttInv
<1> SUFFICES ASSUME MqttInit PROVE MqttInv
  OBVIOUS
<1>1. subscribed \in Seq(TopicSet)
  BY EmptySeq DEF MqttInit
<1>2. /\ session = [up |-> FALSE, topics |-> {}] /\ isConnected = FALSE
      /\ loop = [at |-> "off", n |-> 0] /\ caller = [at |-> "off", n |-> 0]
  BY DEF MqttInit, NoSession
<1>3. session \in [up : BOOLEAN, topics : SUBSET TopicSet] /\ ~session.up
  BY <1>2
<1>4. /\ loop \in [at : {"off", "idle", "connack", "listing"}, n : Nat] /\ loop.at = "off"
      /\ caller \in [at : CallerPlaces, n : Nat] /\ caller.at = "off"
  BY <1>2 DEF CallerPlaces
<1> QED
  BY <1>1, <1>2, <1>3, <1>4 DEF MqttInv, ClientTyped, ListingOK, NothingLeftOut

\* A subscription only adds to what the broker knows.
LEMMA SubscribedMore ==
  ASSUME ClientTyped, NEW t \in TopicSet
  PROVE  /\ SubscribedAt(t) \in [up : BOOLEAN, topics : SUBSET TopicSet]
         /\ SubscribedAt(t).up = session.up
         /\ session.topics \subseteq SubscribedAt(t).topics
         /\ session.up => t \in SubscribedAt(t).topics
BY DEF ClientTyped, SubscribedAt

LEMMA TopicKnown ==
  ASSUME NEW n \in DOMAIN Topics
  PROVE  Topics[n] \in TopicSet
BY DEF TopicSet

LEMMA ListedLonger ==
  ASSUME ClientTyped, NEW t \in TopicSet
  PROVE  LET s == Append(subscribed, t)
         IN /\ s \in Seq(TopicSet) /\ Len(s) = Len(subscribed) + 1 /\ Len(subscribed) \in Nat
            /\ \A i \in 1..Len(subscribed) : s[i] = subscribed[i]
            /\ {s[i] : i \in DOMAIN s} = Listed \union {t}
<1> DEFINE s == Append(subscribed, t)
<1>1. /\ subscribed \in Seq(TopicSet) /\ Len(subscribed) \in Nat
      /\ s \in Seq(TopicSet) /\ Len(s) = Len(subscribed) + 1 /\ s[Len(subscribed) + 1] = t
      /\ \A i \in 1..Len(subscribed) : s[i] = subscribed[i]
  BY AppendProperties DEF ClientTyped
<1>2. DOMAIN s = 1..Len(subscribed) + 1 /\ DOMAIN subscribed = 1..Len(subscribed)
  BY <1>1
<1> HIDE DEF s
<1>3. {s[i] : i \in DOMAIN s} = {subscribed[i] : i \in DOMAIN subscribed} \union {t}
  <2>1. \A i \in DOMAIN s : i = Len(subscribed) + 1 \/ i \in 1..Len(subscribed)
    BY <1>1, <1>2
  <2>2. Len(subscribed) + 1 \in DOMAIN s
    BY <1>1, <1>2
  <2>3. \A i \in DOMAIN subscribed : i \in DOMAIN s /\ s[i] = subscribed[i]
    BY <1>1, <1>2
  <2> QED
    BY <1>1, <1>2, <2>1, <2>2, <2>3
<1> QED
  BY <1>1, <1>3 DEF s, Listed

LEMMA NextMqtt == MqttInv /\ [MqttNext]_mqttVars => MqttInv'
<1> SUFFICES ASSUME MqttInv, [MqttNext]_mqttVars PROVE MqttInv'
  OBVIOUS
<1>0. ClientTyped /\ ListingOK /\ NothingLeftOut
  BY DEF MqttInv
<1>1. CASE Connect
  BY <1>0, <1>1 DEF Connect, Idle, MqttInv, ClientTyped, CallerPlaces, ListingOK, NothingLeftOut
<1>2. CASE Connected
  BY <1>0, <1>2 DEF Connected, MqttInv, ClientTyped, CallerPlaces, ListingOK, NothingLeftOut,
                    Listed, Pending
<1>3. CASE AppendTopic
  <2> DEFINE t == Topics[caller.n]
  <2>1. t \in TopicSet /\ caller.at = "subscribe" /\ caller.n \in DOMAIN Topics
    BY <1>3, TopicKnown DEF AppendTopic
  <2>2. CASE t \in Listed
    BY <1>0, <1>3, <2>1, <2>2 DEF AppendTopic, MqttInv, ClientTyped, CallerPlaces, ListingOK,
                                  NothingLeftOut, Listed, Pending
  <2>3. CASE t \notin Listed
    <3>1. /\ caller' = [caller EXCEPT !.at = "test"] /\ subscribed' = Append(subscribed, t)
          /\ UNCHANGED <<isConnected, session, loop>>
      BY <1>3, <2>3 DEF AppendTopic
    <3>2. /\ subscribed' \in Seq(TopicSet) /\ Len(subscribed') = Len(subscribed) + 1
          /\ Len(subscribed) \in Nat
          /\ \A i \in 1..Len(subscribed) : subscribed'[i] = subscribed[i]
          /\ Listed' = Listed \union {t}
      BY <1>0, <2>1, <3>1, ListedLonger DEF Listed
    <3>3. caller' \in [at : CallerPlaces, n : Nat] /\ caller'.at = "test" /\ caller'.n = caller.n
      BY <1>0, <3>1 DEF ClientTyped, CallerPlaces
    <3>4. Pending' = {t} /\ Pending = {}
      BY <2>1, <3>3 DEF Pending
    <3>5. ClientTyped'
      BY <1>0, <2>1, <3>1, <3>2, <3>3 DEF ClientTyped
    <3>6. ListingOK'
      BY <1>0, <3>1, <3>2 DEF ClientTyped, ListingOK
    <3>7. NothingLeftOut'
      BY <1>0, <3>1, <3>2, <3>4 DEF NothingLeftOut
    <3> QED
      BY <3>5, <3>6, <3>7 DEF MqttInv
  <2> QED
    BY <2>2, <2>3
<1>4. CASE TestConnected
  <2>1. CASE isConnected
    BY <1>0, <1>4, <2>1 DEF TestConnected, MqttInv, ClientTyped, CallerPlaces, ListingOK,
                            NothingLeftOut, Listed, Pending
  <2>2. CASE ~isConnected
    BY <1>0, <1>4, <2>2 DEF TestConnected, MqttInv, ClientTyped, CallerPlaces, ListingOK,
                            NothingLeftOut, Listed, Pending
  <2> QED
    BY <2>1, <2>2
<1>5. CASE SendSubscribe
  <2> DEFINE t == Topics[caller.n]
  <2>1. t \in TopicSet /\ caller.at = "send"
    BY <1>0, <1>5, TopicKnown DEF SendSubscribe, ClientTyped
  <2>2. /\ session' \in [up : BOOLEAN, topics : SUBSET TopicSet]
        /\ session'.up = session.up /\ session.topics \subseteq session'.topics
        /\ session.up => t \in session'.topics
        /\ caller' = [caller EXCEPT !.at = "register"]
        /\ UNCHANGED <<isConnected, subscribed, loop>>
    BY <1>0, <1>5, <2>1, SubscribedMore DEF SendSubscribe
  <2>3. Listed' = Listed /\ Pending = {t} /\ caller' \in [at : CallerPlaces, n : Nat]
        /\ caller'.at = "register" /\ caller'.n = caller.n
    BY <1>0, <2>1, <2>2 DEF Listed, Pending, ClientTyped, CallerPlaces
  <2>4. ClientTyped'
    BY <1>0, <2>1, <2>2, <2>3 DEF ClientTyped
  <2>5. ListingOK'
    BY <1>0, <2>2 DEF ListingOK
  <2>6. NothingLeftOut'
    BY <1>0, <2>2, <2>3 DEF NothingLeftOut
  <2> QED
    BY <2>4, <2>5, <2>6 DEF MqttInv
<1>6. CASE RegisterCallback \/ AllSubscribed
  BY <1>0, <1>6 DEF RegisterCallback, AllSubscribed, MqttInv, ClientTyped, CallerPlaces, ListingOK,
                    NothingLeftOut, Listed, Pending
<1>7. CASE Accepted
  BY <1>0, <1>7 DEF Accepted, MqttInv, ClientTyped, CallerPlaces, ListingOK, NothingLeftOut
<1>8. CASE OnConnect
  <2>1. CASE loop.at = "connack"
    BY <1>0, <1>8, <2>1 DEF OnConnect, MqttInv, ClientTyped, CallerPlaces, ListingOK, NothingLeftOut
  <2>2. CASE loop.at = "listing" /\ loop.n \in DOMAIN subscribed
    <3> DEFINE t == subscribed[loop.n]
    <3>1. t \in TopicSet /\ Len(subscribed) \in Nat /\ DOMAIN subscribed = 1..Len(subscribed)
          /\ loop.n \in 1..Len(subscribed)
      BY <1>0, <2>2, ElementOfSeq, LenProperties DEF ClientTyped
    <3>2. /\ session' \in [up : BOOLEAN, topics : SUBSET TopicSet]
          /\ session'.up = session.up /\ session.topics \subseteq session'.topics
          /\ session.up => t \in session'.topics
          /\ loop' = [loop EXCEPT !.n = @ + 1]
          /\ UNCHANGED <<isConnected, subscribed, caller>>
      BY <1>0, <1>8, <2>2, <3>1, SubscribedMore DEF OnConnect
    <3>3. loop'.at = "listing" /\ loop'.n = loop.n + 1
          /\ loop' \in [at : {"off", "idle", "connack", "listing"}, n : Nat]
      BY <1>0, <2>2, <3>1, <3>2 DEF ClientTyped
    <3>4. ClientTyped'
      BY <1>0, <2>2, <3>2, <3>3 DEF ClientTyped
    <3>5. ListingOK'
      <4>1. \A i \in 1..loop'.n - 1 : i = loop.n \/ i \in 1..loop.n - 1
        BY <3>1, <3>3
      <4> QED
        BY <1>0, <2>2, <3>1, <3>2, <3>3, <4>1 DEF ListingOK
    <3>6. NothingLeftOut'
      BY <3>3 DEF NothingLeftOut
    <3> QED
      BY <3>4, <3>5, <3>6 DEF MqttInv
  <2>3. CASE loop.at = "listing" /\ loop.n \notin DOMAIN subscribed
    <3>1. Len(subscribed) \in Nat /\ DOMAIN subscribed = 1..Len(subscribed) /\ loop.n = Len(subscribed) + 1
      BY <1>0, <2>3, LenProperties DEF ClientTyped, ListingOK
    <3>2. loop' = Idle /\ UNCHANGED <<isConnected, subscribed, caller, session>>
      BY <1>8, <2>3 DEF OnConnect
    <3>3. session.up => isConnected /\ Listed \subseteq session.topics
      BY <1>0, <2>3, <3>1 DEF ListingOK, Listed
    <3>4. Listed' = Listed /\ loop'.at = "idle" /\ loop' \in [at : {"off", "idle", "connack", "listing"}, n : Nat]
      BY <3>2 DEF Idle, Listed
    <3>5. ClientTyped'
      BY <1>0, <2>3, <3>2, <3>4 DEF ClientTyped
    <3> QED
      BY <3>2, <3>3, <3>4, <3>5 DEF MqttInv, ListingOK, NothingLeftOut
  <2>4. loop.at = "connack" \/ loop.at = "listing"
    BY <1>8 DEF OnConnect
  <2> QED
    BY <2>1, <2>2, <2>3, <2>4
<1>9. CASE SessionLost
  <2>1. /\ session' = [up |-> FALSE, topics |-> {}]
        /\ UNCHANGED <<isConnected, subscribed, loop, caller>>
    BY <1>9 DEF SessionLost, NoSession
  <2>2. session' \in [up : BOOLEAN, topics : SUBSET TopicSet] /\ ~session'.up
    BY <2>1
  <2> QED
    BY <1>0, <2>1, <2>2 DEF MqttInv, ClientTyped, ListingOK, NothingLeftOut
<1>12. CASE OnDisconnect
  <2>1. /\ isConnected' = FALSE /\ loop.at = "idle" /\ ~session.up
        /\ UNCHANGED <<subscribed, session, loop, caller>>
    BY <1>12 DEF OnDisconnect
  <2> QED
    BY <1>0, <2>1 DEF MqttInv, ClientTyped, ListingOK, NothingLeftOut
<1>10. CASE UNCHANGED <<isConnected, subscribed, session, loop, caller>>
  BY <1>0, <1>10 DEF MqttInv, ClientTyped, ListingOK, NothingLeftOut, Listed, Pending
<1>11. ASSUME NEW i \in DOMAIN Topics, OnMessage(Topics[i])
       PROVE  UNCHANGED <<isConnected, subscribed, session, loop, caller>>
  BY <1>11 DEF OnMessage
<1> QED
  BY <1>1, <1>2, <1>3, <1>4, <1>5, <1>6, <1>7, <1>8, <1>9, <1>10, <1>11, <1>12 DEF MqttNext, mqttVars

\* The invariant below SubscribedWhileUp.
THEOREM MqttInvariant == MqttSpec => []MqttInv
  BY InitMqtt, NextMqtt, PTL DEF MqttSpec

\* Neither the starting thread nor paho's leaves a topic to the other, for any
\* list of topics and any number of lost sessions.
THEOREM SubscribedWhileUpHolds == MqttSpec => []SubscribedWhileUp
<1>1. MqttInv => SubscribedWhileUp
  BY DEF MqttInv, NothingLeftOut, SubscribedWhileUp, Pending
<1> QED
  BY <1>1, MqttInvariant, PTL

-----------------------------------------------------------------------------
(* The health of the sensors *)

LEMMA MediansAreNumbers ==
  ASSUME NEW xs \in Seq(Samples) PROVE Medians(xs) \subseteq Int
<1>1. \A i \in DOMAIN xs : xs[i] \in Int
  <2>1. DOMAIN xs = 1..Len(xs)
    BY LenProperties
  <2>2. \A i \in 1..Len(xs) : xs[i] \in Samples
    BY ElementOfSeq
  <2> QED
    BY <2>1, <2>2, SamplesAssumption
<1>2. Occurring(xs) \subseteq Int
  BY <1>1 DEF Occurring
<1> QED
  BY <1>2 DEF Medians

\* A drift is a quotient of natural numbers.
LEMMA DriftTyped ==
  ASSUME NEW b \in Int, NEW v \in Int
  PROVE  Unit(b) \in Nat \ {0} /\ Deviation(b, v) \in Nat
  BY DEF Unit, Deviation, Abs

\* What the score of a reading in range says: a drifted one costs more than
\* the two tenths below which the handler corrects it, and half at most.
LEMMA QualityOfReading ==
  ASSUME NEW s, NEW b, NEW xs, NEW v \in Int, InRange(s, v), Drifted(b, xs, v) => b \in Int
  PROVE  /\ ~Drifted(b, xs, v) => DataQuality(Score(s, b, xs, v)) = "good"
         /\ Drifted(b, xs, v) => /\ DataQuality(Score(s, b, xs, v)) \in {"degraded", "poor"}
                                 /\ CorrectionApplied(s, b, xs, v)
         /\ CorrectionApplied(s, b, xs, v) => Drifted(b, xs, v)
<1>1. CASE ~Drifted(b, xs, v)
  <2>1. Score(s, b, xs, v) = [unit |-> 1, tenths |-> 10]
    BY <1>1 DEF Score
  <2> QED
    BY <1>1, <2>1 DEF DataQuality, CorrectionApplied
<1>2. CASE Drifted(b, xs, v)
  <2>1. b \in Int /\ 10 * Deviation(b, v) > Unit(b)
    BY <1>2 DEF Drifted
  <2>2. Unit(b) \in Nat \ {0} /\ Deviation(b, v) \in Nat
    BY <2>1, DriftTyped
  <2>3. Score(s, b, xs, v) = [unit |-> Unit(b), tenths |-> 10 * Unit(b) - DriftPenalty(b, v) - 0]
    BY <1>2 DEF Score
  <2>4. DriftPenalty(b, v) \in Int /\ DriftPenalty(b, v) > 2 * Unit(b) /\ DriftPenalty(b, v) <= 5 * Unit(b)
    BY <2>1, <2>2 DEF DriftPenalty
  <2> DEFINE n == 10 * Unit(b) - DriftPenalty(b, v) - 0
  <2>5. n \in Int /\ n < 8 * Unit(b) /\ n >= 5 * Unit(b)
    BY <2>2, <2>4
  <2>6. ~(n >= 9 * Unit(b)) /\ n < 8 * Unit(b) /\ n >= 5 * Unit(b)
    BY <2>2, <2>5
  <2>7. Score(s, b, xs, v).unit = Unit(b) /\ Score(s, b, xs, v).tenths = n
    BY <2>3
  <2> HIDE DEF n
  <2>8. CorrectionApplied(s, b, xs, v)
    BY <1>2, <2>6, <2>7 DEF CorrectionApplied
  <2>9. CASE n >= 7 * Unit(b)
    <3>1. n < 9 * Unit(b)
      BY <2>2, <2>5
    <3>2. ~(n < 7 * Unit(b))
      BY <2>2, <2>5, <2>9
    <3>3. DataQuality(Score(s, b, xs, v)) = "degraded"
      BY <2>6, <2>7, <2>9, <3>1, <3>2 DEF DataQuality
    <3> QED
      BY <1>2, <2>8, <3>3
  <2>10. CASE ~(n >= 7 * Unit(b))
    <3>1. n < 7 * Unit(b)
      BY <2>2, <2>5, <2>10
    <3>2. DataQuality(Score(s, b, xs, v)) = "poor"
      BY <2>6, <2>7, <2>10, <3>1 DEF DataQuality
    <3> QED
      BY <1>2, <2>8, <3>2
  <2> QED
    BY <2>9, <2>10
<1> QED
  BY <1>1, <1>2

\* What the monitor remembers of a sensor: its last readings, its first ones,
\* its baseline and its health.  Until there are Enough of them the last are
\* the first; from then on the baseline stays.
SensorOK(s, xs, fs, b, h) ==
  /\ xs \in Seq(Samples) /\ fs \in Seq(Samples)
  /\ Len(xs) <= HistorySize /\ Len(fs) <= Enough
  /\ IF Len(xs) < Enough THEN xs = fs /\ b = NoBaseline
     ELSE Len(fs) = Enough /\ b \in Medians(fs)
  /\ IF xs = <<>> THEN h = "unchecked"
     ELSE InRange(s, xs[Len(xs)]) /\ h = DataQuality(Score(s, b, xs, xs[Len(xs)]))

\* A memory that is full loses its oldest reading only.
LEMMA RememberedLasts ==
  ASSUME NEW xs \in Seq(Samples), NEW v \in Samples, Len(xs) <= HistorySize
  PROVE  /\ Remembered(xs, v) \in Seq(Samples)
         /\ Len(Remembered(xs, v)) = IF Len(xs) < HistorySize THEN Len(xs) + 1 ELSE HistorySize
         /\ Remembered(xs, v)[Len(Remembered(xs, v))] = v
         /\ Len(xs) < HistorySize => Remembered(xs, v) = Append(xs, v)
<1>0. HistorySize \in Nat /\ HistorySize # 0 /\ Len(xs) \in Nat
  BY HistoryAssumption, LenProperties
<1>1. CASE Len(xs) < HistorySize
  BY <1>0, <1>1, AppendProperties DEF Remembered
<1>2. CASE ~(Len(xs) < HistorySize)
  <2>1. xs # <<>> /\ Len(xs) = HistorySize
    BY <1>0, <1>2, EmptySeq
  <2>2. Tail(xs) \in Seq(Samples) /\ Len(Tail(xs)) = HistorySize - 1
    BY <2>1, HeadTailProperties
  <2>3. Remembered(xs, v) = Append(Tail(xs), v)
    BY <1>2 DEF Remembered
  <2> QED
    BY <1>0, <1>2, <2>2, <2>3, AppendProperties
<1> QED
  BY <1>1, <1>2

LEMMA FewerAreEarliest ==
  ASSUME NEW xs \in Seq(Samples), Len(xs) = Enough PROVE EarliestOf(xs) = xs
<1>1. Enough \in Nat /\ ~(Enough \div 5 > Enough)
  BY HistoryAssumption
<1>2. EarliestOf(xs) = SubSeq(xs, 1, Len(xs))
  BY <1>1 DEF EarliestOf
<1> QED
  BY <1>2, SubSeqFull

LEMMA ReadingKeeps ==
  ASSUME NEW s, NEW xs, NEW fs, NEW b, NEW h, SensorOK(s, xs, fs, b, h),
         NEW v \in Samples, InRange(s, v), NEW c \in Baselines(b, Remembered(xs, v))
  PROVE  LET ys == Remembered(xs, v)
         IN SensorOK(s, ys, IF Len(fs) < Enough THEN Append(fs, v) ELSE fs, c,
                     DataQuality(Score(s, c, ys, v)))
<1> DEFINE ys == Remembered(xs, v)
           gs == IF Len(fs) < Enough THEN Append(fs, v) ELSE fs
<1>1. /\ xs \in Seq(Samples) /\ fs \in Seq(Samples) /\ Len(xs) <= HistorySize /\ Len(fs) <= Enough
      /\ Len(xs) \in Nat /\ Len(fs) \in Nat
      /\ Enough \in Nat \ {0} /\ HistorySize \in Nat /\ Enough <= HistorySize
  BY HistoryAssumption, LenProperties DEF SensorOK
<1>2. /\ ys \in Seq(Samples) /\ ys[Len(ys)] = v /\ Len(ys) \in Nat
      /\ Len(ys) = IF Len(xs) < HistorySize THEN Len(xs) + 1 ELSE HistorySize
      /\ Len(xs) < HistorySize => ys = Append(xs, v)
  BY <1>1, RememberedLasts, LenProperties
<1>3. ys # <<>> /\ Len(ys) <= HistorySize
  BY <1>1, <1>2, EmptySeq
<1>4. gs \in Seq(Samples) /\ Len(gs) <= Enough
  BY <1>1, AppendProperties
<1>5. IF Len(ys) < Enough THEN ys = gs /\ c = NoBaseline ELSE Len(gs) = Enough /\ c \in Medians(gs)
  <2>1. CASE Len(xs) < Enough
    <3>1. xs = fs /\ b = NoBaseline
      BY <2>1 DEF SensorOK
    <3>2. ys = Append(xs, v) /\ gs = ys /\ Len(ys) = Len(xs) + 1
      BY <1>1, <1>2, <2>1, <3>1
    <3>3. CASE Len(ys) < Enough
      BY <3>1, <3>2, <3>3 DEF Baselines
    <3>4. CASE ~(Len(ys) < Enough)
      <4>1. Len(ys) = Enough
        BY <1>1, <2>1, <3>2, <3>4
      <4>2. EarliestOf(ys) = ys
        BY <1>2, <4>1, FewerAreEarliest
      <4> QED
        BY <3>1, <3>2, <3>4, <4>1, <4>2 DEF Baselines
    <3> QED
      BY <3>3, <3>4
  <2>2. CASE ~(Len(xs) < Enough)
    <3>1. Len(fs) = Enough /\ b \in Medians(fs) /\ gs = fs
      BY <1>1, <2>2 DEF SensorOK
    <3>2. b # NoBaseline
      BY <1>1, <3>1, MediansAreNumbers, BaselineAssumption
    <3>3. ~(Len(ys) < Enough)
      BY <1>1, <1>2, <2>2
    <3> QED
      BY <3>1, <3>2, <3>3 DEF Baselines
  <2> QED
    BY <2>1, <2>2
<1> HIDE DEF ys, gs
<1>6. SensorOK(s, ys, gs, c, DataQuality(Score(s, c, ys, v)))
  BY <1>2, <1>3, <1>4, <1>5 DEF SensorOK
<1> QED
  BY <1>6 DEF ys, gs

\* A drift is measured from a number.
LEMMA DriftFromNumber ==
  ASSUME NEW s, NEW xs, NEW fs, NEW b, NEW h, SensorOK(s, xs, fs, b, h), NEW v, Drifted(b, xs, v)
  PROVE  b \in Int
<1>1. Len(xs) \in Nat /\ Enough \in Nat /\ Len(xs) >= Enough /\ fs \in Seq(Samples)
  BY LenProperties, HistoryAssumption DEF SensorOK, Drifted
<1>2. b \in Medians(fs)
  BY <1>1 DEF SensorOK
<1> QED
  BY <1>1, <1>2, MediansAreNumbers

\* The correction takes D / 2U of the distance off twice, D the deviation and
\* U its unit: the row is nearer to the baseline than the reading as long as
\* the drift is less than 400%, and farther from it beyond.
THEOREM CorrectionOvershoots ==
  ASSUME NEW b \in Int, NEW v \in Int, Deviation(b, v) > 0
  PROVE  LET off == Abs(Corrected(b, v) - 2 * Unit(b) * b)
             was == 2 * Unit(b) * Deviation(b, v)
         IN /\ off < was <=> Deviation(b, v) < 4 * Unit(b)
            /\ off > was <=> Deviation(b, v) > 4 * Unit(b)
<1> DEFINE U == Unit(b)
           d == 2 * v - b
           D == Deviation(b, v)
<1>1. U \in Nat \ {0} /\ d \in Int /\ D \in Nat /\ D = Abs(d) /\ D > 0
  BY DriftTyped DEF Deviation
<1>2. Corrected(b, v) - 2 * Unit(b) * b = d * (2 * U - D)
  <2>1. Corrected(b, v) = 2 * U * b + d * (2 * U - D)
    BY DEF Corrected
  <2> HIDE DEF U, d, D
  <2>2. 2 * U * b \in Int /\ d * (2 * U - D) \in Int
    BY <1>1
  <2>3. \A x, y \in Int : (x + y) - x = y
    OBVIOUS
  <2> QED
    BY <2>1, <2>2, <2>3 DEF U
<1> HIDE DEF U, d, D
<1> DEFINE off == Abs(d * (2 * U - D))
<1>3. off = D * Abs(2 * U - D)
  <2>1. \A x, y \in Int : Abs(x * y) = Abs(x) * Abs(y)
    BY DEF Abs
  <2> QED
    BY <1>1, <2>1
<1>4. Abs(2 * U - D) \in Nat
  BY <1>1 DEF Abs
<1> DEFINE e == Abs(2 * U - D)
<1>5. /\ e < 2 * U <=> D < 4 * U
      /\ e > 2 * U <=> D > 4 * U
  BY <1>1 DEF Abs
<1>6. \A x, y \in Nat : (D * x < D * y <=> x < y) /\ (D * x > D * y <=> x > y)
  BY <1>1
<1>7. 2 * U \in Nat /\ 2 * U * D = D * (2 * U)
  BY <1>1
<1>8. /\ off < D * (2 * U) <=> D < 4 * U
      /\ off > D * (2 * U) <=> D > 4 * U
  BY <1>3, <1>4, <1>5, <1>6, <1>7
<1> QED
  BY <1>2, <1>7, <1>8 DEF U, D

Quality == {"good", "degraded", "poor"}

\* A row is the reading as it came, or another value with a quality.
RowOK(row) ==
  /\ row.value \in Int /\ row.over \in Nat \ {0} /\ row.published \in Samples
  /\ row.quality \in Quality \union {"as_sent"}
  /\ row.quality = "as_sent" <=> row.value = row.over * row.published

Row == {row \in [value : Int, over : Nat \ {0}, published : Samples,
                 quality : Quality \union {"as_sent"}] : RowOK(row)}

MonitorInv ==
  /\ past \in [Monitored -> Seq(Samples)] /\ first \in [Monitored -> Seq(Samples)]
  /\ DOMAIN baseline = Monitored /\ baseline = [s \in Monitored |-> baseline[s]]
  /\ DOMAIN health = Monitored /\ health = [s \in Monitored |-> health[s]]
  /\ \A s \in Monitored : SensorOK(s, past[s], first[s], baseline[s], health[s])
  /\ todo \in Seq(Sample)
  /\ added \in Seq(Row)

\* The correction of a drifted reading is never the reading.
LEMMA StoredRowIsRow ==
  ASSUME NEW s, NEW xs, NEW fs, NEW b, NEW h, SensorOK(s, xs, fs, b, h),
         NEW v \in Samples, InRange(s, v)
  PROVE  StoredRow(s, b, xs, v) \in Row
<1>1. v \in Int
  BY SamplesAssumption
<1>2. Drifted(b, xs, v) => b \in Int
  BY DriftFromNumber
<1>3. CASE ~CorrectionApplied(s, b, xs, v)
  <2>1. StoredRow(s, b, xs, v) = [value |-> v, over |-> 1, published |-> v, quality |-> "as_sent"]
    BY <1>3 DEF StoredRow
  <2> QED
    BY <1>1, <2>1 DEF Row, RowOK
<1>4. CASE CorrectionApplied(s, b, xs, v)
  <2>1. Drifted(b, xs, v) /\ b \in Int
    BY <1>1, <1>2, <1>4, QualityOfReading
  <2>2. DataQuality(Score(s, b, xs, v)) \in {"degraded", "poor"}
    BY <1>1, <1>2, <2>1, QualityOfReading
  <2> DEFINE U == Unit(b)
             D == Deviation(b, v)
             d == 2 * v - b
  <2>3. U \in Nat \ {0} /\ D \in Nat /\ d \in Int /\ D = Abs(d) /\ D > 0
    <3>1. U \in Nat \ {0} /\ D \in Nat
      BY <1>1, <2>1, DriftTyped
    <3>2. 10 * D > U
      BY <2>1 DEF Drifted
    <3> QED
      BY <1>1, <2>1, <3>1, <3>2 DEF Deviation
  <2>4. Corrected(b, v) = 2 * U * b + d * (2 * U - D)
    BY DEF Corrected
  <2>5. d # 0 /\ d * D # 0
    BY <2>3 DEF Abs
  <2>6. 4 * U * v = 2 * U * b + d * (2 * U)
    <3>1. 4 * U * v = (2 * U) * (b + d) /\ (2 * U) * b = 2 * U * b
      BY <1>1, <2>1, <2>3
    <3>2. 2 * U \in Int /\ d \in Int /\ b \in Int
      BY <2>1, <2>3
    <3>3. \A x, y, z \in Int : x * (y + z) = x * y + z * x
      OBVIOUS
    <3> HIDE DEF U, d
    <3> QED
      BY <3>1, <3>2, <3>3
  <2>7. Corrected(b, v) \in Int /\ 4 * U \in Nat \ {0} /\ Corrected(b, v) # 4 * U * v
    <3> HIDE DEF U, D
    <3>1. d * (2 * U - D) = d * (2 * U) - d * D
      BY <2>3
    <3>2. d * (2 * U) \in Int /\ d * D \in Int /\ 2 * U * b \in Int
      BY <2>1, <2>3
    <3> HIDE DEF d
    <3> QED
      BY <2>3, <2>4, <2>5, <2>6, <3>1, <3>2
  <2>8. StoredRow(s, b, xs, v) = [value |-> Corrected(b, v), over |-> 4 * U, published |-> v,
                                  quality |-> DataQuality(Score(s, b, xs, v))]
    BY <1>4 DEF StoredRow
  <2> DEFINE q == DataQuality(Score(s, b, xs, v))
             w == Corrected(b, v)
             o == 4 * U
  <2>9. q \in Quality /\ q # "as_sent"
    BY <2>2 DEF Quality
  <2>10. w \in Int /\ o \in Nat \ {0} /\ w # o * v
    BY <2>7
  <2>11. StoredRow(s, b, xs, v) = [value |-> w, over |-> o, published |-> v, quality |-> q]
    BY <2>8
  <2> HIDE DEF q, w, o
  <2> QED
    BY <2>9, <2>10, <2>11 DEF Row, RowOK
<1> QED
  BY <1>3, <1>4

LEMMA NothingRemembered ==
  ASSUME NEW s, NEW h, h = "unchecked" PROVE SensorOK(s, <<>>, <<>>, NoBaseline, h)
  BY HistoryAssumption, EmptySeq DEF SensorOK

LEMMA MonitorStart ==
  /\ MonitorInit => MonitorInv
  /\ RestartMonitor => MonitorInv'
<1>1. <<>> \in Seq(Samples) /\ <<>> \in Seq(Sample) /\ <<>> \in Seq(Row)
  BY EmptySeq
<1>2. \A s \in Monitored : SensorOK(s, <<>>, <<>>, NoBaseline, "unchecked")
  BY NothingRemembered
<1>3. MonitorInit => MonitorInv
  BY <1>1, <1>2 DEF MonitorInit, MonitorInv
<1>4. RestartMonitor => MonitorInv'
  BY <1>1, <1>2 DEF RestartMonitor, MonitorInv
<1> QED
  BY <1>3, <1>4

LEMMA AssessKeeps == MonitorInv /\ AssessRecord => MonitorInv'
<1> SUFFICES ASSUME MonitorInv, AssessRecord PROVE MonitorInv'
  OBVIOUS
<1> DEFINE s == Head(todo).sensor
           v == Head(todo).value
           xs == Remembered(past[s], v)
           fs == IF Len(first[s]) < Enough THEN Append(first[s], v) ELSE first[s]
<1>1. PICK b \in Baselines(baseline[s], xs) :
        /\ past' = [past EXCEPT ![s] = xs]
        /\ first' = [first EXCEPT ![s] = IF Len(@) < Enough THEN Append(@, v) ELSE @]
        /\ baseline' = [baseline EXCEPT ![s] = b]
        /\ health' = [health EXCEPT ![s] = DataQuality(Score(s, b, xs, v))]
        /\ added' = Append(added, StoredRow(s, b, xs, v))
  BY DEF AssessRecord
<1>2. todo # <<>> /\ todo \in Seq(Sample) /\ Admitted(Head(todo)) /\ todo' = Tail(todo)
  BY DEF AssessRecord, MonitorInv
<1>3. Head(todo) \in Sample /\ todo' \in Seq(Sample)
  BY <1>2, HeadTailProperties
<1>4. s \in Monitored /\ v \in Samples /\ InRange(s, v)
  BY <1>2, <1>3 DEF Sample, Admitted
<1>5. /\ SensorOK(s, past[s], first[s], baseline[s], health[s])
      /\ past \in [Monitored -> Seq(Samples)] /\ first \in [Monitored -> Seq(Samples)]
  BY <1>4 DEF MonitorInv
<1> DEFINE q == DataQuality(Score(s, b, xs, v))
<1>6. SensorOK(s, xs, fs, b, q)
  BY <1>4, <1>5, ReadingKeeps
<1>7. xs \in Seq(Samples) /\ fs \in Seq(Samples)
  BY <1>6 DEF SensorOK
<1>8. StoredRow(s, b, xs, v) \in Row
  BY <1>4, <1>6, StoredRowIsRow
<1>9. added' \in Seq(Row)
  BY <1>1, <1>8, AppendProperties DEF MonitorInv
<1>10. first' = [first EXCEPT ![s] = fs]
  BY <1>1
<1> HIDE DEF s, v, xs, fs, q
<1>11. /\ past' \in [Monitored -> Seq(Samples)] /\ first' \in [Monitored -> Seq(Samples)]
       /\ past'[s] = xs /\ first'[s] = fs
       /\ \A x \in Monitored : x # s => past'[x] = past[x] /\ first'[x] = first[x]
  BY <1>1, <1>4, <1>5, <1>7, <1>10
<1>12. /\ DOMAIN baseline' = Monitored /\ baseline' = [x \in Monitored |-> baseline'[x]]
       /\ baseline'[s] = b /\ \A x \in Monitored : x # s => baseline'[x] = baseline[x]
  BY <1>1, <1>4 DEF MonitorInv
<1>13. /\ DOMAIN health' = Monitored /\ health' = [x \in Monitored |-> health'[x]]
       /\ health'[s] = q /\ \A x \in Monitored : x # s => health'[x] = health[x]
  BY <1>1, <1>4 DEF MonitorInv, q
<1>14. ASSUME NEW x \in Monitored PROVE SensorOK(x, past'[x], first'[x], baseline'[x], health'[x])
  <2>1. CASE x = s
    BY <1>6, <1>11, <1>12, <1>13, <2>1
  <2>2. CASE x # s
    <3>1. SensorOK(x, past[x], first[x], baseline[x], health[x])
      BY DEF MonitorInv
    <3> QED
      BY <1>11, <1>12, <1>13, <2>2, <3>1
  <2> QED
    BY <2>1, <2>2
<1> QED
  BY <1>3, <1>9, <1>11, <1>12, <1>13, <1>14 DEF MonitorInv

LEMMA MonitorKeeps ==
  MonitorInv /\ [MonitorNext]_monitorVars => MonitorInv'
<1> SUFFICES ASSUME MonitorInv, [MonitorNext]_monitorVars PROVE MonitorInv'
  OBVIOUS
<1>1. ASSUME NEW n \in 1..MaxBatch, NEW records \in [1..n -> Sample], IngestBatch(records)
      PROVE  MonitorInv'
  <2>1. records \in Seq(Sample)
    BY <1>1, BatchAssumption, SeqDef
  <2> QED
    BY <1>1, <2>1 DEF IngestBatch, MonitorInv
<1>2. CASE RefuseRecord
  <2>1. <<>> \in Seq(Sample) /\ <<>> \in Seq(Row)
    BY EmptySeq
  <2> QED
    BY <1>2, <2>1 DEF RefuseRecord, MonitorInv
<1>3. CASE EndBatch
  <2>1. <<>> \in Seq(Row)
    BY EmptySeq
  <2> QED
    BY <1>3, <2>1 DEF EndBatch, MonitorInv
<1>4. CASE UNCHANGED monitorVars
  BY <1>4 DEF monitorVars, MonitorInv
<1> QED
  BY <1>1, <1>2, <1>3, <1>4, AssessKeeps, MonitorStart DEF MonitorNext

\* What the monitor keeps of a sensor belongs together, for any sensors, readings
\* and restarts: its baseline is of the readings since the start, its health is of
\* the last of them, and the rows were written by a sensor in that state.
THEOREM MonitorInvariant == MonitorSpec => []MonitorInv
  BY MonitorStart, MonitorKeeps, PTL DEF MonitorSpec

LEMMA MonitorTyped == MonitorInv => MonitorTypeOK
<1> SUFFICES ASSUME MonitorInv PROVE MonitorTypeOK
  OBVIOUS
<1>1. ASSUME NEW s \in Monitored
      PROVE  /\ Len(past[s]) <= HistorySize /\ Len(first[s]) <= Enough
             /\ baseline[s] \in Int \union {NoBaseline}
             /\ health[s] \in {"unchecked", "good", "degraded", "poor", "failed"}
  <2>1. SensorOK(s, past[s], first[s], baseline[s], health[s])
    BY DEF MonitorInv
  <2>2. baseline[s] \in Int \union {NoBaseline}
    BY <2>1, MediansAreNumbers DEF SensorOK
  <2>3. health[s] = "unchecked" \/ \E score : health[s] = DataQuality(score)
    BY <2>1 DEF SensorOK
  <2>4. \A score : DataQuality(score) \in {"good", "degraded", "poor", "failed"}
    BY DEF DataQuality
  <2> QED
    BY <2>1, <2>2, <2>3, <2>4 DEF SensorOK
<1>2. baseline \in [Monitored -> Int \union {NoBaseline}]
  BY <1>1 DEF MonitorInv
<1>3. health \in [Monitored -> {"unchecked", "good", "degraded", "poor", "failed"}]
  BY <1>1 DEF MonitorInv
<1>4. added \in Seq([value : Int, over : Nat \ {0}, published : Samples,
                     quality : {"as_sent", "good", "degraded", "poor", "failed"}])
  <2>1. Row \subseteq [value : Int, over : Nat \ {0}, published : Samples,
                       quality : {"as_sent", "good", "degraded", "poor", "failed"}]
    BY DEF Row, Quality
  <2> HIDE DEF Row
  <2> QED
    BY <2>1, SeqMonotonic DEF MonitorInv
<1> QED
  BY <1>1, <1>2, <1>3, <1>4 DEF MonitorInv, MonitorTypeOK

\* For any sensors, ranges, sizes of the memory and restarts: a baseline is
\* the median of a sensor's first readings and stays so.
THEOREM BaselineIsFirstMedianHolds == MonitorSpec => []BaselineIsFirstMedian
<1>1. MonitorInv => BaselineIsFirstMedian
  <2> SUFFICES ASSUME MonitorInv, NEW s \in Monitored
               PROVE  IF Len(first[s]) < Enough THEN baseline[s] = NoBaseline
                      ELSE baseline[s] \in Medians(first[s])
    BY DEF BaselineIsFirstMedian
  <2>1. SensorOK(s, past[s], first[s], baseline[s], health[s])
    BY DEF MonitorInv
  <2>2. Len(first[s]) \in Nat /\ Len(past[s]) \in Nat /\ Enough \in Nat
    BY <2>1, LenProperties, HistoryAssumption DEF SensorOK
  <2> QED
    BY <2>1, <2>2 DEF SensorOK
<1> QED
  BY <1>1, MonitorInvariant, PTL

\* The remembered score and the one computed from the last reading agree.
THEOREM HealthAgreesHolds == MonitorSpec => []HealthAgrees
<1>1. MonitorInv => HealthAgrees
  <2> SUFFICES ASSUME MonitorInv, NEW s \in Monitored
               PROVE  /\ health[s] = "unchecked" <=> past[s] = <<>>
                      /\ health[s] \in {"degraded", "poor"} <=> SummaryDrifted(s)
                      /\ health[s] # "failed"
    BY DEF HealthAgrees
  <2> DEFINE xs == past[s]
             v == xs[Len(xs)]
  <2>1. SensorOK(s, xs, first[s], baseline[s], health[s])
    BY DEF MonitorInv
  <2>2. CASE xs = <<>>
    BY <2>1, <2>2 DEF SensorOK, SummaryDrifted
  <2>3. CASE xs # <<>>
    <3>1. v \in Samples
      <4>1. Len(xs) \in 1..Len(xs)
        BY <2>1, <2>3, EmptySeq, LenProperties DEF SensorOK
      <4> QED
        BY <2>1, <4>1, ElementOfSeq DEF SensorOK
    <3>2. v \in Int /\ InRange(s, v) /\ health[s] = DataQuality(Score(s, baseline[s], xs, v))
      BY <2>1, <2>3, <3>1, SamplesAssumption DEF SensorOK
    <3>3. Drifted(baseline[s], xs, v) => baseline[s] \in Int
      BY <2>1, DriftFromNumber
    <3>4. SummaryDrifted(s) <=> Drifted(baseline[s], xs, v)
      BY <2>3 DEF SummaryDrifted
    <3> HIDE DEF xs, v
    <3>5. /\ ~Drifted(baseline[s], xs, v) => health[s] = "good"
          /\ Drifted(baseline[s], xs, v) => health[s] \in {"degraded", "poor"}
      BY <3>2, <3>3, QualityOfReading
    <3> QED
      BY <2>3, <3>4, <3>5 DEF xs
  <2> QED
    BY <2>2, <2>3
<1> QED
  BY <1>1, MonitorInvariant, PTL

\* A row says that its value was corrected exactly when it is not the one that
\* is published.
THEOREM RowsMarkedHolds == MonitorSpec => []RowsMarked
<1>1. MonitorInv => RowsMarked
  <2> SUFFICES ASSUME MonitorInv, NEW i \in DOMAIN added
               PROVE  added[i].quality = "as_sent" <=> added[i].value = added[i].over * added[i].published
    BY DEF RowsMarked
  <2>1. added[i] \in Row
    BY ElementOfSeq, LenProperties DEF MonitorInv
  <2> QED
    BY <2>1 DEF Row, RowOK
<1> QED
  BY <1>1, MonitorInvariant, PTL

-----------------------------------------------------------------------------
(* The depth of a well *)

\* The depths that a well's total is taken from.
Depths(tags) == {DefaultDepth} \union {TwinTag[t].depth : t \in tags}

\* It is a depth, and none is deeper.
LEMMA DeepestTag ==
  ASSUME NEW tags \in SUBSET TwinTags
  PROVE  Max(Depths(tags)) \in Depths(tags) /\ \A d \in Depths(tags) : Max(Depths(tags)) >= d
<1> DEFINE G == {T \in SUBSET tags : \E m \in Depths(T) : \A d \in Depths(T) : m >= d}
<1>1. DefaultDepth \in Nat /\ \A t \in TwinTags : TwinTag[t].depth \in Int
  BY TwinAssumption
<1>2. IsFiniteSet(tags)
  BY TwinAssumption, FS_Subset
<1>3. {} \in G
  BY <1>1 DEF Depths
<1>4. ASSUME NEW T \in SUBSET tags, NEW t \in tags \ T, T \in G PROVE T \union {t} \in G
  <2>1. PICK m \in Depths(T) : \A d \in Depths(T) : m >= d
    BY <1>4
  <2>2. Depths(T \union {t}) = Depths(T) \union {TwinTag[t].depth}
    BY DEF Depths
  <2>3. Depths(T) \subseteq Int /\ TwinTag[t].depth \in Int
    BY <1>1 DEF Depths
  <2> DEFINE e == IF TwinTag[t].depth > m THEN TwinTag[t].depth ELSE m
  <2>4. e \in Depths(T \union {t}) /\ \A d \in Depths(T \union {t}) : e >= d
    BY <2>1, <2>2, <2>3
  <2> QED
    BY <2>4
<1>5. tags \in G
  <2> HIDE DEF G
  <2>1. \A T \in SUBSET tags : \A t \in tags \ T : T \in G => T \union {t} \in G
    BY <1>4
  <2> QED
    BY <1>2, <1>3, <2>1, SetInduction
<1>6. \E m \in Depths(tags) : \A d \in Depths(tags) : m >= d
  BY <1>5
<1> QED
  BY <1>6, Zenon DEF Max

LEMMA WellDepth ==
  ASSUME fitted \subseteq TwinTags, NEW w
  PROVE  /\ TotalDepth(w) \in Nat \ {0}
         /\ \A t \in FittedTo(w) : TwinTag[t].depth \in Int /\ TwinTag[t].depth <= TotalDepth(w)
<1>1. FittedTo(w) \in SUBSET TwinTags
  BY DEF FittedTo
<1>2. DefaultDepth \in Nat \ {0} /\ \A t \in TwinTags : TwinTag[t].depth \in Int
  BY TwinAssumption
<1>3. TotalDepth(w) = Max(Depths(FittedTo(w)))
  BY Zenon DEF TotalDepth, Depths
<1>4. TotalDepth(w) \in Depths(FittedTo(w)) /\ \A d \in Depths(FittedTo(w)) : TotalDepth(w) >= d
  BY <1>1, <1>3, DeepestTag
<1>5. /\ DefaultDepth \in Depths(FittedTo(w)) /\ Depths(FittedTo(w)) \subseteq Int
      /\ \A t \in FittedTo(w) : TwinTag[t].depth \in Depths(FittedTo(w))
  BY <1>1, <1>2 DEF Depths
<1> QED
  BY <1>2, <1>4, <1>5

\* Where a depth is among segments of equal height.
LEMMA SegmentOf ==
  ASSUME NEW total \in Nat \ {0}, NEW depth \in Nat, depth < total
  PROVE  \E i \in 0 .. Segments - 1 : InSegment(total, i, depth)
<1> DEFINE a == depth * Segments
           i == a \div total
<1>1. Segments \in Nat \ {0} /\ a \in Nat
  BY TwinAssumption
<1>2. a < Segments * total
  <2>1. \A x, y \in Nat, z \in Nat \ {0} : x < y => x * z < z * y
    OBVIOUS
  <2> QED
    BY <1>1, <2>1
<1> HIDE DEF a
<1>3. i \in Nat /\ i * total <= a /\ a < (i + 1) * total
  BY <1>1
<1> HIDE DEF i
<1>4. i < Segments
  <2>1. \A x, y \in Nat, z \in Nat \ {0} : x * z < y * z => x < y
    OBVIOUS
  <2>2. i * total < Segments * total
    <3>1. i * total \in Int /\ Segments * total \in Int
      BY <1>1, <1>3
    <3> QED
      BY <1>1, <1>2, <1>3, <3>1
  <2> QED
    BY <1>1, <1>3, <2>1, <2>2
<1>5. i \in 0 .. Segments - 1
  BY <1>1, <1>3, <1>4
<1> QED
  BY <1>3, <1>5 DEF a, InSegment

LEMMA SegmentsApart ==
  ASSUME NEW total \in Nat \ {0}, NEW depth \in Nat, NEW i \in Nat, NEW j \in Nat,
         InSegment(total, i, depth), InSegment(total, j, depth)
  PROVE  i = j
<1>1. \A x, y \in Nat, z \in Nat \ {0} : x < y => (x + 1) * z <= y * z
  OBVIOUS
<1> DEFINE a == depth * Segments
<1>2. a \in Int /\ i * total <= a /\ a < (i + 1) * total /\ j * total <= a /\ a < (j + 1) * total
  BY TwinAssumption DEF InSegment
<1>3. i * total \in Int /\ (i + 1) * total \in Int /\ j * total \in Int /\ (j + 1) * total \in Int
  OBVIOUS
<1> HIDE DEF a
<1>4. ASSUME i < j PROVE FALSE
  <2>1. (i + 1) * total <= j * total
    BY <1>1, <1>4
  <2> QED
    BY <1>2, <1>3, <2>1
<1>5. ASSUME j < i PROVE FALSE
  <2>1. (j + 1) * total <= i * total
    BY <1>1, <1>5
  <2> QED
    BY <1>2, <1>3, <2>1
<1> QED
  BY <1>4, <1>5

LEMMA DeepestIsUnseen == fitted \subseteq TwinTags => DeepestUnseen
<1> SUFFICES ASSUME fitted \subseteq TwinTags, NEW w \in TwinWells, NEW t \in FittedTo(w),
                    TwinTag[t].depth = TotalDepth(w), NEW i \in 0 .. Segments - 1,
                    t \in SegmentTags(w, i)
             PROVE  FALSE
  BY DEF DeepestUnseen
<1>1. TotalDepth(w) \in Nat \ {0} /\ Segments \in Nat \ {0}
  BY WellDepth, TwinAssumption
<1>2. TotalDepth(w) * Segments < (i + 1) * TotalDepth(w)
  BY DEF SegmentTags, InSegment
<1>3. i + 1 \in Nat /\ i + 1 <= Segments
  BY <1>1
<1>4. \A x, y \in Nat, z \in Nat \ {0} : x <= y => x * z <= z * y
  OBVIOUS
<1>5. (i + 1) * TotalDepth(w) <= TotalDepth(w) * Segments
  BY <1>1, <1>3, <1>4
<1> DEFINE p == (i + 1) * TotalDepth(w)
           q == TotalDepth(w) * Segments
<1>6. p \in Int /\ q \in Int /\ q < p /\ p <= q
  BY <1>1, <1>2, <1>3, <1>5
<1> HIDE DEF p, q
<1> QED
  BY <1>6

LEMMA OthersAreOnce == fitted \subseteq TwinTags => OthersOnce
<1> SUFFICES ASSUME fitted \subseteq TwinTags, NEW w \in TwinWells, NEW t \in FittedTo(w),
                    0 <= TwinTag[t].depth, TwinTag[t].depth < TotalDepth(w)
             PROVE  \E i \in 0 .. Segments - 1 :
                      \A j \in 0 .. Segments - 1 : t \in SegmentTags(w, j) <=> i = j
  BY DEF OthersOnce
<1>1. TotalDepth(w) \in Nat \ {0} /\ TwinTag[t].depth \in Nat
  BY WellDepth
<1>2. PICK i \in 0 .. Segments - 1 : InSegment(TotalDepth(w), i, TwinTag[t].depth)
  BY <1>1, SegmentOf
<1>3. \A j \in 0 .. Segments - 1 : t \in SegmentTags(w, j) <=> InSegment(TotalDepth(w), j, TwinTag[t].depth)
  BY DEF SegmentTags
<1>4. ASSUME NEW j \in 0 .. Segments - 1, InSegment(TotalDepth(w), j, TwinTag[t].depth) PROVE i = j
  <2>1. i \in Nat /\ j \in Nat
    BY TwinAssumption
  <2> QED
    BY <1>1, <1>2, <1>4, <2>1, SegmentsApart
<1> QED
  BY <1>2, <1>3, <1>4

-----------------------------------------------------------------------------
(* What a page shows of a well *)

\* A view in memory: how old it can be, and of which tags it is.
ViewOK(view, w, now, tags) ==
  /\ view.expiresAt = view.at + ViewTtl /\ view.at <= now
  /\ view.of \subseteq {t \in tags : TwinTag[t].well = w}

TwinInv ==
  /\ TwinTypeOK
  /\ \A w \in TwinWells : views[w] = NoView \/ ViewOK(views[w], w, twinTime, fitted)
  /\ ViewsRecent

LEMMA RiskOfSegment ==
  /\ \A p, q : SegmentStatus(p, q) \in Risk
  /\ \A t : SceneStatus(t) \in Risk /\ ModelStatus(t) \in Risk
  BY DEF SegmentStatus, SceneStatus, ModelStatus, Risk

LEMMA StatusesTyped ==
  ASSUME NEW w, NEW status \in WellStatuses(w) PROVE status \in [0 .. Segments - 1 -> Risk]
<1>1. CASE FittedTo(w) = {}
  BY <1>1 DEF WellStatuses
<1>2. CASE FittedTo(w) # {}
  <2>1. ASSUME NEW i PROVE StatusAt(w, i) \in Risk
    <3>1. \A p, q : SegmentStatus(p, q) \in Risk
      BY RiskOfSegment
    <3> QED
      BY <3>1 DEF StatusAt
  <2>2. status = [i \in 0 .. Segments - 1 |-> StatusAt(w, i)]
    BY <1>2, Zenon DEF WellStatuses
  <2> QED
    BY <2>1, <2>2
<1> QED
  BY <1>1, <1>2

LEMMA SurfaceTyped ==
  ASSUME TwinTypeOK, NEW w, NEW surface \in SurfaceValues(w)
  PROVE  surface \in [pressure : Int, temperature : Int, flow : Int]
<1>1. \A t \in TwinTags : latest[t] # NoNumber => latest[t] \in Int
  BY TwinAssumption DEF TwinTypeOK
<1>2. FittedTo(w) \subseteq TwinTags
  BY DEF FittedTo, TwinTypeOK
<1>3. ASSUME NEW s \in SUBSET TwinTags, NEW kind, NEW default \in Int
      PROVE  ReadingsOf(s, kind, default) \subseteq Int
  BY <1>1 DEF ReadingsOf
<1>4. PICK s \in ShownTags(w) : surface \in SurfaceOf(s)
  BY DEF SurfaceValues
<1>5. PICK p \in ReadingsOf(s, "pressure", 500), t \in ReadingsOf(s, "temperature", 30),
           f \in ReadingsOf(s, "flow", 150) : surface = [pressure |-> p, temperature |-> t, flow |-> f]
  BY <1>4 DEF SurfaceOf
<1>6. s \in SUBSET TwinTags
  BY <1>2, <1>4 DEF ShownTags
<1>7. 500 \in Int /\ 30 \in Int /\ 150 \in Int
  OBVIOUS
<1>8. p \in Int /\ t \in Int /\ f \in Int
  BY <1>3, <1>6, <1>7
<1> QED
  BY <1>5, <1>8

\* Time passes and tags are fitted; what was of a well's tags stays so.
LEMMA ViewAges ==
  ASSUME NEW view, NEW w, NEW now \in Nat, NEW later \in Nat, now <= later,
         NEW tags, NEW more, tags \subseteq more, view \in View \union {NoView},
         view = NoView \/ ViewOK(view, w, now, tags)
  PROVE  view = NoView \/ ViewOK(view, w, later, more)
<1>1. CASE view = NoView
  BY <1>1
<1>2. CASE view # NoView
  <2>1. view \in View /\ ViewOK(view, w, now, tags)
    BY <1>2
  <2>2. view.at \in Nat
    BY <2>1 DEF View
  <2> QED
    BY <2>1, <2>2 DEF ViewOK
<1> QED
  BY <1>1, <1>2

LEMMA WellViewKeeps ==
  ASSUME TwinInv, NEW w \in TwinWells, WellView(w) PROVE TwinInv'
<1>1. /\ twinTime \in Nat /\ fitted \subseteq TwinTags /\ views \in [TwinWells -> View \union {NoView}]
      /\ ViewTtl \in Nat \ {0}
      /\ UNCHANGED <<twinTime, fitted, latest, simulations>>
      /\ given' = [is |-> "view", well |-> w, view |-> views'[w], on |-> twinTime]
  BY TwinAssumption DEF TwinInv, TwinTypeOK, WellView
<1>2. /\ views' \in [TwinWells -> View \union {NoView}]
      /\ views'[w] \in View /\ ViewOK(views'[w], w, twinTime, fitted)
      /\ twinTime < views'[w].expiresAt
      /\ \A x \in TwinWells : x # w => views'[x] = views[x]
  <2>1. CASE ViewCached(w)
    <3>1. views' = views
      BY <2>1 DEF WellView
    <3>2. views[w] \in View /\ views[w].expiresAt > twinTime
      BY <1>1, <2>1 DEF ViewCached
    <3>3. ViewOK(views[w], w, twinTime, fitted)
      BY <2>1 DEF TwinInv, ViewCached
    <3>4. views[w].expiresAt \in Nat
      BY <3>2 DEF View
    <3> QED
      BY <1>1, <3>1, <3>2, <3>3, <3>4
  <2>2. CASE ~ViewCached(w)
    <3>1. PICK surface \in SurfaceValues(w), status \in WellStatuses(w) :
            views' = [views EXCEPT ![w] = NewView(w, status, surface)]
      BY <2>2 DEF WellView
    <3> DEFINE view == NewView(w, status, surface)
    <3>2. status \in [0 .. Segments - 1 -> Risk] /\ surface \in [pressure : Int, temperature : Int, flow : Int]
      BY <3>1, StatusesTyped, SurfaceTyped DEF TwinInv
    <3>3. FittedTo(w) \in SUBSET TwinTags
      BY <1>1 DEF FittedTo
    <3>4. view \in View
      BY <1>1, <3>2, <3>3 DEF NewView, View
    <3>5. ViewOK(view, w, twinTime, fitted) /\ twinTime < view.expiresAt
      BY <1>1 DEF NewView, ViewOK, FittedTo
    <3> HIDE DEF view
    <3>6. views' = [views EXCEPT ![w] = view]
      BY <3>1 DEF view
    <3>7. views'[w] = view /\ \A x \in TwinWells : x # w => views'[x] = views[x]
      BY <1>1, <3>6
    <3>8. views' \in [TwinWells -> View \union {NoView}]
      BY <1>1, <3>4, <3>6
    <3> QED
      BY <3>4, <3>5, <3>7, <3>8
  <2> QED
    BY <2>1, <2>2
<1>3. given' \in TwinAnswers
  BY <1>1, <1>2 DEF TwinAnswers
<1>4. TwinTypeOK'
  BY <1>1, <1>2, <1>3 DEF TwinInv, TwinTypeOK
<1>5. \A x \in TwinWells : views'[x] = NoView \/ ViewOK(views'[x], x, twinTime', fitted')
  <2>1. \A x \in TwinWells : views[x] = NoView \/ ViewOK(views[x], x, twinTime, fitted)
    BY DEF TwinInv
  <2> QED
    BY <1>1, <1>2, <2>1
<1>6. ViewsRecent'
  <2>1. /\ given'.well = w /\ given'.view = views'[w] /\ given'.on = twinTime
        /\ FittedTo(w)' = {t \in fitted : TwinTag[t].well = w}
    BY <1>1 DEF FittedTo
  <2>2. views'[w].at \in Nat
    BY <1>2 DEF View
  <2>3. /\ views'[w].at <= twinTime /\ twinTime < views'[w].at + ViewTtl
        /\ views'[w].of \subseteq {t \in fitted : TwinTag[t].well = w}
    BY <1>1, <1>2, <2>2 DEF ViewOK
  <2>4. FittedTo(given.well)' = {t \in fitted : TwinTag[t].well = w}
    BY <1>1, <2>1 DEF FittedTo
  <2> QED
    BY <2>1, <2>3, <2>4 DEF ViewsRecent
<1> QED
  BY <1>4, <1>5, <1>6 DEF TwinInv

\* A handler that answers with something else.
LEMMA AnswerKeeps ==
  ASSUME TwinInv, UNCHANGED <<twinTime, fitted, latest, views>>,
         simulations' \in Seq([id : Nat, well : TwinWells]),
         given' \in TwinAnswers, given'.is # "view"
  PROVE  TwinInv'
<1>1. TwinTypeOK'
  BY DEF TwinInv, TwinTypeOK
<1>2. ViewsRecent'
  BY DEF ViewsRecent
<1>3. \A w \in TwinWells : (views[w] = NoView \/ ViewOK(views[w], w, twinTime, fitted))'
  BY DEF TwinInv
<1> QED
  BY <1>1, <1>2, <1>3 DEF TwinInv

\* The tables and time go on under what was answered.
LEMMA SurroundKeeps ==
  ASSUME TwinInv, UNCHANGED <<simulations, views, given>>,
         twinTime' \in 0..MaxTwinTime, twinTime <= twinTime', fitted \subseteq fitted',
         fitted' \subseteq TwinTags, latest' \in [TwinTags -> TwinValues \union {NoNumber}]
  PROVE  TwinInv'
<1>1. TwinTypeOK'
  BY DEF TwinInv, TwinTypeOK
<1>2. twinTime \in Nat /\ twinTime' \in Nat /\ views \in [TwinWells -> View \union {NoView}]
  BY TwinAssumption DEF TwinInv, TwinTypeOK
<1>3. ASSUME NEW w \in TwinWells PROVE views'[w] = NoView \/ ViewOK(views'[w], w, twinTime', fitted')
  <2>1. views[w] \in View \union {NoView} /\ (views[w] = NoView \/ ViewOK(views[w], w, twinTime, fitted))
    BY <1>2 DEF TwinInv
  <2>2. views[w] = NoView \/ ViewOK(views[w], w, twinTime', fitted')
    BY <1>2, <2>1, ViewAges
  <2> QED
    BY <2>2
<1>4. ViewsRecent'
  <2>1. FittedTo(given.well) \subseteq FittedTo(given.well)'
    BY DEF FittedTo
  <2> QED
    BY <2>1 DEF TwinInv, ViewsRecent
<1> QED
  BY <1>1, <1>3, <1>4 DEF TwinInv

LEMMA RunSimulationKeeps ==
  ASSUME TwinInv, NEW w \in TwinWells, RunSimulation(w) PROVE TwinInv'
<1>1. twinTime \in Nat /\ simulations \in Seq([id : Nat, well : TwinWells])
  BY TwinAssumption DEF TwinInv, TwinTypeOK
<1>2. simulations' \in Seq([id : Nat, well : TwinWells])
  BY <1>1, AppendProperties DEF RunSimulation
<1>3. given' \in TwinAnswers /\ given'.is # "view"
  BY <1>1 DEF RunSimulation, TwinAnswers
<1> QED
  BY <1>2, <1>3, AnswerKeeps DEF RunSimulation

LEMMA GetSceneKeeps ==
  ASSUME TwinInv, NEW w \in TwinWells, GetScene(w) PROVE TwinInv'
<1>1. FittedTo(w) \subseteq TwinTags
  BY DEF FittedTo, TwinInv, TwinTypeOK
<1>2. \A t \in FittedTo(w) : ModelId(t) \in [by : {"model"}, id : TwinTags] /\ SceneStatus(t) \in Risk
  BY <1>1, RiskOfSegment DEF ModelId
<1> DEFINE models == {ModelId(t) : t \in FittedTo(w)}
           states == {<<ModelId(t), SceneStatus(t)>> : t \in {u \in FittedTo(w) : latest[u] # NoNumber}}
<1>3. models \in SUBSET [by : {"model"}, id : TwinTags]
  BY <1>2
<1>4. states \in SUBSET ([by : {"model"}, id : TwinTags] \X Risk)
  BY <1>2
<1>5. given' = [is |-> "scene", models |-> models, states |-> states]
  BY DEF GetScene
<1> HIDE DEF models, states
<1>6. given' \in TwinAnswers /\ given'.is # "view"
  BY <1>3, <1>4, <1>5 DEF TwinAnswers
<1> QED
  BY <1>6, AnswerKeeps DEF GetScene, TwinInv, TwinTypeOK

LEMMA GetModelStateKeeps ==
  ASSUME TwinInv, NEW asked \in Asked, GetModelState(asked) PROVE TwinInv'
<1>1. given' = [is |-> "404"] \/ \E t : given' = [is |-> "state", model |-> asked, status |-> ModelStatus(t)]
  BY DEF GetModelState
<1>2. given' \in TwinAnswers /\ given'.is # "view"
  <2>1. CASE given' = [is |-> "404"]
    BY <2>1 DEF TwinAnswers
  <2>2. ASSUME NEW t, given' = [is |-> "state", model |-> asked, status |-> ModelStatus(t)]
        PROVE  given' \in TwinAnswers /\ given'.is # "view"
    BY <2>2, RiskOfSegment DEF TwinAnswers
  <2> QED
    BY <1>1, <2>1, <2>2
<1> QED
  BY <1>2, AnswerKeeps DEF GetModelState, TwinInv, TwinTypeOK

LEMMA TwinKeeps == TwinInv /\ [TwinNext]_twinVars => TwinInv'
<1> SUFFICES ASSUME TwinInv, [TwinNext]_twinVars PROVE TwinInv'
  OBVIOUS
<1>1. /\ twinTime \in 0..MaxTwinTime /\ fitted \subseteq TwinTags /\ MaxTwinTime \in Nat
      /\ latest \in [TwinTags -> TwinValues \union {NoNumber}]
      /\ simulations \in Seq([id : Nat, well : TwinWells]) /\ given \in TwinAnswers
  BY TwinAssumption DEF TwinInv, TwinTypeOK
<1>2. CASE TwinTick
  BY <1>1, <1>2, SurroundKeeps DEF TwinTick
<1>3. CASE RestartTwin
  <2>1. <<>> \in Seq([id : Nat, well : TwinWells])
    BY EmptySeq
  <2>2. TwinTypeOK'
    BY <1>1, <1>3, <2>1 DEF RestartTwin, TwinTypeOK
  <2>3. ViewsRecent'
    BY <1>3 DEF RestartTwin, TwinInv, ViewsRecent, FittedTo
  <2>4. \A w \in TwinWells : views'[w] = NoView
    BY <1>3 DEF RestartTwin
  <2> QED
    BY <2>2, <2>3, <2>4 DEF TwinInv
<1>4. CASE ListWells
  <2>1. {TwinTag[t].well : t \in fitted} \subseteq TwinWells
    BY <1>1, TwinAssumption
  <2> DEFINE wells == IF fitted = {} THEN {"mock"} ELSE {TwinTag[t].well : t \in fitted}
  <2>2. wells \in SUBSET (TwinWells \union {"mock"}) /\ given' = [is |-> "wells", wells |-> wells]
    BY <1>4, <2>1 DEF ListWells
  <2> HIDE DEF wells
  <2>3. given' \in TwinAnswers /\ given'.is # "view"
    BY <2>2 DEF TwinAnswers
  <2> QED
    BY <1>1, <1>4, <2>3, AnswerKeeps DEF ListWells
<1>5. ASSUME NEW t \in TwinTags, FitTag(t) \/ \E v \in TwinValues : ReadTag(t, v) PROVE TwinInv'
  <2>1. CASE FitTag(t)
    BY <1>1, <2>1, SurroundKeeps DEF FitTag
  <2>2. ASSUME NEW v \in TwinValues, ReadTag(t, v) PROVE TwinInv'
    <3>1. latest' \in [TwinTags -> TwinValues \union {NoNumber}]
      BY <1>1, <2>2 DEF ReadTag
    <3> QED
      BY <1>1, <2>2, <3>1, SurroundKeeps DEF ReadTag
  <2> QED
    BY <1>5, <2>1, <2>2
<1>6. ASSUME NEW s \in Scenarios, WhatIf(s) PROVE TwinInv'
  <2>1. IntegrityRisk(s) \in {"low", "medium", "high"}
    BY DEF IntegrityRisk
  <2>2. given' \in TwinAnswers /\ given'.is # "view"
    BY <1>6, <2>1 DEF WhatIf, TwinAnswers
  <2> QED
    BY <1>1, <1>6, <2>2, AnswerKeeps DEF WhatIf
<1>7. CASE UNCHANGED twinVars
  BY <1>1, <1>7, SurroundKeeps DEF twinVars
<1> QED
  BY <1>2, <1>3, <1>4, <1>5, <1>6, <1>7, WellViewKeeps, RunSimulationKeeps, GetSceneKeeps,
     GetModelStateKeeps DEF TwinNext

LEMMA TwinStart == TwinInit => TwinInv
<1> SUFFICES ASSUME TwinInit PROVE TwinInv
  OBVIOUS
<1>1. <<>> \in Seq([id : Nat, well : TwinWells])
  BY EmptySeq
<1>2. TwinTypeOK
  BY <1>1, TwinAssumption DEF TwinInit, TwinTypeOK, TwinAnswers
<1> QED
  BY <1>2 DEF TwinInit, TwinInv, ViewsRecent

\* Every view that the digital twin keeps was taken in the past, of tags of its
\* well, and expires one time to live later, for any wells, tags and requests.
THEOREM TwinInvariant == TwinSpec => []TwinInv
  BY TwinStart, TwinKeeps, PTL DEF TwinSpec

\* For any wells, tags, segments, time to live and restarts: what a page shows
\* is younger than the time to live and of tags that the well has.
THEOREM ViewsRecentHolds == TwinSpec => []ViewsRecent
<1>1. TwinInv => ViewsRecent
  BY DEF TwinInv
<1> QED
  BY <1>1, TwinInvariant, PTL

\* Every tag but the deepest is in one segment of the view; the deepest, in none.
THEOREM SegmentsPartition == TwinSpec => [](DeepestUnseen /\ OthersOnce)
<1>1. TwinInv => DeepestUnseen /\ OthersOnce
  BY DeepestIsUnseen, OthersAreOnce DEF TwinInv, TwinTypeOK
<1> QED
  BY <1>1, TwinInvariant, PTL

=============================================================================
