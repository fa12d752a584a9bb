----------------------------- MODULE KafkaConsumer -----------------------------
(***************************************************************************)
(* KafkaConsumerWrapper reading one partition: poll, decode, call back and *)
(* commit, or send to the dead letter topic.  In the standard mode it      *)
(* commits each message itself, and does not wait for the commit; in the   *)
(* low-latency mode librdkafka commits, in the background and at close,    *)
(* what poll has returned, whether it has been processed or not.           *)
(***************************************************************************)
EXTENDS Integers, Sequences

CONSTANT MaxTopic  \* bound on the messages

ASSUME ConsumerAssumption == MaxTopic \in Nat

VARIABLES
  lowLatency,   \* low_latency, or settings.KAFKA_LOW_LATENCY_MODE
  offsetReset,  \* auto_offset_reset
  topic,        \* the messages of the partition: can they be decoded
  committed,    \* the group's offset, -1 without one
  asked,        \* the offset of the commit under way, -1 without one
  position,     \* the next offset to poll, -1 when nobody consumes
  storedOffset, \* what librdkafka would commit, -1 before the first message
  inHand,       \* the offset that consume_messages is at, -1 between two
  handled,      \* history: the callback returned, or the dead letter arrived
  abandoned,    \* history: the callback raised and the dead letter was lost
  endedAt,      \* history: the offsets in hand when a consumer ended
  unseen        \* history: the offsets before the place where a consumer began

consumerVars == <<lowLatency, offsetReset, topic, committed, asked, position,
                  storedOffset, inHand, handled, abandoned, endedAt, unseen>>

Fixed == UNCHANGED <<lowLatency, offsetReset>>

Consuming == position >= 0
AtPoll == Consuming /\ inHand = -1

Produce(m) ==
  /\ Len(topic) < MaxTopic
  /\ topic' = Append(topic, m)
  /\ Fixed /\ UNCHANGED <<committed, asked, position, storedOffset, inHand, handled, abandoned, endedAt, unseen>>

\* Where a consumer begins: at the committed offset, or where
\* auto_offset_reset says as long as there is none.
Beginning ==
  IF committed >= 0 THEN committed ELSE IF offsetReset = "earliest" THEN 0 ELSE Len(topic)

StartConsumer ==
  /\ ~Consuming
  /\ position' = Beginning
  /\ unseen' = IF committed < 0 THEN unseen \union 0..(Beginning - 1) ELSE unseen
  /\ Fixed /\ UNCHANGED <<topic, committed, asked, storedOffset, inHand, handled, abandoned, endedAt>>

\* Mutant: the message is committed as soon as it is there.
Poll_Commit ==
  /\ AtPoll /\ position < Len(topic)
  /\ inHand' = position
  /\ position' = position + 1 /\ storedOffset' = position + 1
  /\ asked' = position + 1
  /\ Fixed /\ UNCHANGED <<topic, committed, handled, abandoned, endedAt, unseen>>

Poll ==
  /\ AtPoll /\ position < Len(topic)
  /\ inHand' = position
  /\ position' = position + 1 /\ storedOffset' = position + 1
  /\ Fixed /\ UNCHANGED <<topic, committed, asked, handled, abandoned, endedAt, unseen>>

InCallback == inHand >= 0 /\ topic[inHand + 1] = "readable"

\* The callback returns; the commit that is sent then is not waited for.
Processed ==
  /\ InCallback
  /\ handled' = handled \union {inHand}
  /\ asked' = IF lowLatency THEN asked ELSE inHand + 1
  /\ inHand' = -1
  /\ Fixed /\ UNCHANGED <<topic, committed, position, storedOffset, abandoned, endedAt, unseen>>

\* The callback raises, or the commit after it: send_to_dlq, and the next
\* message; the commit of a later one covers this one.  A dead letter that
\* cannot be sent, or is still in the producer when flush(10) is over and is
\* lost there, is at best logged, and the loop goes on the same.
ToDlq ==
  /\ InCallback
  /\ \/ handled' = handled \union {inHand} /\ UNCHANGED abandoned
     \/ abandoned' = abandoned \union {inHand} /\ UNCHANGED handled
  /\ inHand' = -1
  /\ Fixed /\ UNCHANGED <<topic, committed, asked, position, storedOffset, endedAt, unseen>>

\* The commit under way, or the next of librdkafka.
CommitLands ==
  /\ \/ /\ asked >= 0
        /\ committed' = asked
        /\ asked' = -1
     \/ /\ lowLatency /\ storedOffset >= 0
        /\ committed' = storedOffset
        /\ UNCHANGED asked
  /\ Fixed /\ UNCHANGED <<topic, position, storedOffset, inHand, handled, abandoned, endedAt, unseen>>

CommitLost ==
  /\ asked >= 0
  /\ asked' = -1
  /\ Fixed /\ UNCHANGED <<topic, committed, position, storedOffset, inHand, handled, abandoned, endedAt, unseen>>

Ends ==
  /\ position' = -1 /\ storedOffset' = -1 /\ inHand' = -1
  /\ endedAt' = IF inHand >= 0 THEN endedAt \union {inHand} ELSE endedAt
  /\ Fixed /\ UNCHANGED <<topic, asked, handled, abandoned, unseen>>

\* A message that cannot be decoded, an error of Kafka, a producer of dead
\* letters that cannot be made or an interrupt ends the loop, and close
\* commits what is stored in low-latency mode.
StopConsumer ==
  /\ Consuming
  /\ committed' = IF lowLatency /\ storedOffset >= 0 THEN storedOffset ELSE committed
  /\ Ends

CrashConsumer == Consuming /\ Ends /\ UNCHANGED committed

ConsumerInit ==
  /\ lowLatency \in BOOLEAN /\ offsetReset \in {"earliest", "latest"}
  /\ topic = <<>>
  /\ committed = -1 /\ asked = -1 /\ position = -1 /\ storedOffset = -1 /\ inHand = -1
  /\ handled = {} /\ abandoned = {} /\ endedAt = {} /\ unseen = {}

ConsumerNext ==
  \/ \E m \in {"readable", "unreadable"} : Produce(m)
  \/ StartConsumer \/ Poll \/ Processed \/ ToDlq
  \/ CommitLands \/ CommitLost \/ StopConsumer \/ CrashConsumer

ConsumerSpec == ConsumerInit /\ [][ConsumerNext]_consumerVars

-----------------------------------------------------------------------------
(* Properties *)

\* The offsets have their types.
ConsumerTypeOK ==
  /\ lowLatency \in BOOLEAN /\ offsetReset \in {"earliest", "latest"}
  /\ topic \in Seq({"readable", "unreadable"}) /\ Len(topic) <= MaxTopic
  /\ {committed, asked, position, storedOffset, inHand} \subseteq -1..Len(topic)
  /\ inHand < Len(topic)
  /\ handled \union abandoned \union endedAt \union unseen \subseteq 0..(Len(topic) - 1)

\* A message below the committed offset is never read again.  So its callback
\* has returned, or raised and the message went to the dead letter topic, or
\* raised and the dead letter was lost too, or the group began behind it, or
\* librdkafka committed it in the low-latency mode and the consumer ended
\* with it in hand.  Without that mode no crash passes over a message that was
\* not tried, and a dead letter that is lost is final only after a later
\* message has been dealt with, for its commit is what passes over the first:
\* the last message below the offset is never such a one.
PassedOverWasTried ==
  /\ \A m \in 0..(committed - 1) :
       \/ m \in handled \union abandoned \union unseen
       \/ lowLatency /\ m \in endedAt \union {inHand}
  /\ ~lowLatency /\ committed > 0 => committed - 1 \in handled

=============================================================================
