------------------------------ MODULE MqttClient ------------------------------
(***************************************************************************)
(* The MQTT client of the data ingestion service: the thread of paho,      *)
(* which runs the callbacks, and the thread that starts the service, which *)
(* connects and then subscribes the configured topics one by one.  Both    *)
(* read and write is_connected and subscribed_topics, without a lock.      *)
(***************************************************************************)
EXTENDS Integers, Sequences

CONSTANTS
  Topics,      \* MQTT_TOPICS, a sequence
  Plus,        \* the topics among them with the wildcard +
  MaxSessions, \* bound on the sessions with the broker
  MaxMessages  \* bound on the messages of sensors

ASSUME MqttAssumption ==
  /\ Topics \in Seq(STRING)
  /\ MaxSessions \in Nat /\ MaxMessages \in Nat

VARIABLES
  isConnected, \* is_connected
  subscribed,  \* subscribed_topics
  callbacks,   \* the topics of message_callbacks
  session,     \* at the broker: is there one, and its subscriptions
  loop,        \* where the thread of paho is
  caller,      \* where the starting thread is, and with which topic
  sessions,    \* sessions so far
  heard        \* messages that came, and those handled

mqttVars == <<isConnected, subscribed, callbacks, session, loop, caller, sessions, heard>>

Listed == {subscribed[i] : i \in DOMAIN subscribed}

NoSession == [up |-> FALSE, topics |-> {}]

Idle == [at |-> "idle", n |-> 0]

\* A SUBSCRIBE reaches the broker only while there is a session.
SubscribedAt(t) == IF session.up THEN [session EXCEPT !.topics = @ \union {t}] ELSE session

-----------------------------------------------------------------------------
(* The starting thread *)

\* connect: the client cannot be reached, or paho's thread is started.
Connect ==
  /\ caller.at = "off"
  /\ \/ caller' = [at |-> "failed", n |-> 0] /\ UNCHANGED loop
     \/ caller' = [at |-> "waiting", n |-> 0] /\ loop' = Idle
  /\ UNCHANGED <<isConnected, subscribed, callbacks, session, sessions, heard>>

\* connect waits for is_connected, five seconds at most; the thread of paho
\* goes on trying.
Connected ==
  /\ caller.at = "waiting"
  /\ caller' = IF isConnected THEN [at |-> "subscribe", n |-> 1] ELSE [at |-> "failed", n |-> 0]
  /\ UNCHANGED <<isConnected, subscribed, callbacks, session, loop, sessions, heard>>

\* subscribe, first step: a topic is listed once.
AppendTopic ==
  /\ caller.at = "subscribe"
  /\ caller.n \in DOMAIN Topics
  /\ IF Topics[caller.n] \in Listed
     THEN caller' = [caller EXCEPT !.at = "register"] /\ UNCHANGED subscribed
     ELSE caller' = [caller EXCEPT !.at = "test"] /\ subscribed' = Append(subscribed, Topics[caller.n])
  /\ UNCHANGED <<isConnected, callbacks, session, loop, sessions, heard>>

TestConnected ==
  /\ caller.at = "test"
  /\ caller' = [caller EXCEPT !.at = IF isConnected THEN "send" ELSE "register"]
  /\ UNCHANGED <<isConnected, subscribed, callbacks, session, loop, sessions, heard>>

SendSubscribe ==
  /\ caller.at = "send"
  /\ session' = SubscribedAt(Topics[caller.n])
  /\ caller' = [caller EXCEPT !.at = "register"]
  /\ UNCHANGED <<isConnected, subscribed, callbacks, loop, sessions, heard>>

\* The callback is known only after the subscription was sent.
RegisterCallback ==
  /\ caller.at = "register"
  /\ callbacks' = callbacks \union {Topics[caller.n]}
  /\ caller' = [at |-> "subscribe", n |-> caller.n + 1]
  /\ UNCHANGED <<isConnected, subscribed, session, loop, sessions, heard>>

AllSubscribed ==
  /\ caller.at = "subscribe"
  /\ caller.n \notin DOMAIN Topics
  /\ caller' = [at |-> "ready", n |-> 0]
  /\ UNCHANGED <<isConnected, subscribed, callbacks, session, loop, sessions, heard>>

-----------------------------------------------------------------------------
(* The thread of paho and the broker *)

\* A clean session starts without subscriptions.
Accepted ==
  /\ loop.at = "idle" /\ ~session.up /\ ~isConnected
  /\ sessions < MaxSessions
  /\ sessions' = sessions + 1
  /\ session' = [up |-> TRUE, topics |-> {}]
  /\ loop' = [at |-> "connack", n |-> 0]
  /\ UNCHANGED <<isConnected, subscribed, callbacks, caller, heard>>

\* Mutant: is_connected is set when the topics have been subscribed again.
OnConnect_FlagLast ==
  /\ \/ loop.at = "connack" /\ loop' = [at |-> "listing", n |-> 1] /\ UNCHANGED <<isConnected, session>>
     \/ /\ loop.at = "listing" /\ loop.n \in DOMAIN subscribed
        /\ session' = SubscribedAt(subscribed[loop.n])
        /\ loop' = [loop EXCEPT !.n = @ + 1]
        /\ UNCHANGED isConnected
     \/ /\ loop.at = "listing" /\ loop.n = Len(subscribed) + 1
        /\ loop' = [loop EXCEPT !.n = Len(Topics) + 2]
        /\ UNCHANGED <<isConnected, session>>
     \/ /\ loop.at = "listing" /\ loop.n = Len(Topics) + 2
        /\ isConnected' = TRUE /\ loop' = Idle /\ UNCHANGED session
  /\ UNCHANGED <<subscribed, callbacks, caller, sessions, heard>>

\* _on_connect: is_connected first, then every topic of the list, which the
\* other thread may still append to.
OnConnect ==
  /\ \/ loop.at = "connack" /\ isConnected' = TRUE
        /\ loop' = [at |-> "listing", n |-> 1] /\ UNCHANGED session
     \/ /\ loop.at = "listing" /\ loop.n \in DOMAIN subscribed
        /\ session' = SubscribedAt(subscribed[loop.n])
        /\ loop' = [loop EXCEPT !.n = @ + 1]
        /\ UNCHANGED isConnected
     \/ loop.at = "listing" /\ loop.n \notin DOMAIN subscribed
        /\ loop' = Idle /\ UNCHANGED <<isConnected, session>>
  /\ UNCHANGED <<subscribed, callbacks, caller, sessions, heard>>

SessionLost ==
  /\ session.up
  /\ session' = NoSession
  /\ UNCHANGED <<isConnected, subscribed, callbacks, loop, caller, sessions, heard>>

OnDisconnect ==
  /\ loop.at = "idle" /\ ~session.up /\ isConnected
  /\ isConnected' = FALSE
  /\ UNCHANGED <<subscribed, callbacks, session, loop, caller, sessions, heard>>

\* _on_message compares a topic with the names of the callbacks and with
\* patterns that end in /#: a pattern with + meets no topic.
Handles(t) == t \in callbacks /\ t \notin Plus

OnMessage(t) ==
  /\ loop.at = "idle" /\ session.up /\ isConnected
  /\ t \in session.topics
  /\ heard.came < MaxMessages
  /\ heard' = [came |-> heard.came + 1,
               handled |-> heard.handled + IF Handles(t) THEN 1 ELSE 0]
  /\ UNCHANGED <<isConnected, subscribed, callbacks, session, loop, caller, sessions>>

\* disconnect, when the service stops.
Disconnect ==
  /\ loop' = [at |-> "off", n |-> 0]
  /\ session' = NoSession
  /\ isConnected' = FALSE
  /\ UNCHANGED <<subscribed, callbacks, caller, sessions, heard>>

MqttInit ==
  /\ isConnected = FALSE
  /\ subscribed = <<>>
  /\ callbacks = {}
  /\ session = NoSession
  /\ loop = [at |-> "off", n |-> 0]
  /\ caller = [at |-> "off", n |-> 0]
  /\ sessions = 0
  /\ heard = [came |-> 0, handled |-> 0]

MqttNext ==
  \/ Connect \/ Connected \/ AppendTopic \/ TestConnected \/ SendSubscribe
  \/ RegisterCallback \/ AllSubscribed \/ Accepted \/ OnConnect \/ SessionLost \/ OnDisconnect
  \/ \E i \in DOMAIN Topics : OnMessage(Topics[i])

MqttSpec == MqttInit /\ [][MqttNext]_mqttVars

-----------------------------------------------------------------------------
(* Properties *)

TopicSet == {Topics[i] : i \in DOMAIN Topics}

\* The client's state has its types.
MqttTypeOK ==
  /\ isConnected \in BOOLEAN
  /\ subscribed \in Seq(TopicSet)
  /\ callbacks \subseteq TopicSet
  /\ session \in [up : BOOLEAN, topics : SUBSET TopicSet]
  /\ loop \in [at : {"off", "idle", "connack", "listing"}, n : 0..Len(Topics) + 2]
  /\ caller \in [at : {"off", "waiting", "failed", "subscribe", "test", "send", "register", "ready"},
                 n : 0..Len(Topics) + 1]
  /\ sessions \in 0..MaxSessions
  /\ heard \in [came : 0..MaxMessages, handled : 0..MaxMessages]

\* With a session up, paho's thread out of its callbacks and the starting
\* thread out of subscribe, the broker has every topic of the list: neither
\* thread leaves a topic to the other, however a lost session, the next one
\* and the subscriptions interleave.
SubscribedWhileUp ==
  session.up /\ loop.at = "idle" /\ caller.at \notin {"test", "send"} =>
    Listed \subseteq session.topics

=============================================================================
