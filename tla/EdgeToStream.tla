------------------------------ MODULE EdgeToStream -----------------------------
(***************************************************************************)
(* EdgeToStreamBridge: records from OPC UA and Modbus wait in a batch, and *)
(* are given to the producer when it is full or at the next tick of        *)
(* periodic_flush.  The producer is a low-latency one: it tries again what *)
(* no answer came for, with several requests under way.  A record is its   *)
(* number, and those of one partition are considered.                      *)
(***************************************************************************)
EXTENDS Integers, Sequences, FiniteSets

CONSTANTS
  BatchSize,   \* batch_size
  Retries,     \* retries of a low-latency producer
  InFlight,    \* its max.in.flight.requests.per.connection
  MaxRecords   \* bound on the records

ASSUME BridgeAssumption ==
  BatchSize \in Nat \ {0} /\ Retries \in Nat /\ InFlight \in Nat \ {0} /\ MaxRecords \in Nat

VARIABLES
  bridge,     \* "off", "ready", or "broken" without a producer
  batch,      \* batch_buffer
  streamed,   \* records answered with "streamed"
  sent,       \* records given to the producer
  open,       \* those of them that it has not reported on
  tries,      \* requests so far with each record
  arrived     \* the topic: the record and the request that brought it

bridgeVars == <<bridge, batch, streamed, sent, open, tries, arrived>>

Records == 1..MaxRecords

Arrival == [record : Records, try : 1..Retries + 1]

\* initialize reports no failure, and records are answered all the same.
Initialize ==
  /\ bridge = "off"
  /\ bridge' \in {"ready", "broken"}
  /\ UNCHANGED <<batch, streamed, sent, open, tries, arrived>>

\* Without a producer the records are dropped.
Give(s) ==
  IF bridge = "ready"
  THEN sent' = sent \o s /\ open' = open \union {s[i] : i \in DOMAIN s}
  ELSE UNCHANGED <<sent, open>>

\* Mutant: the batch is cleared when all of it was sent.
Flush_ClearLast(b, n) ==
  /\ Give(SubSeq(b, 1, n))
  /\ batch' = IF n = Len(b) THEN <<>> ELSE b

\* _flush_batch of batch b: the buffer is emptied, then n of its records are
\* given to the producer; a send that raises loses those after it.
Flush(b, n) ==
  /\ Give(SubSeq(b, 1, n))
  /\ batch' = <<>>

\* stream_from_edge, for POST /stream/opcua and /stream/modbus.
StreamFromEdge ==
  /\ streamed < MaxRecords
  /\ streamed' = streamed + 1
  /\ LET b == Append(batch, streamed + 1)
     IN IF Len(b) >= BatchSize THEN \E n \in 0..Len(b) : Flush(b, n)
        ELSE batch' = b /\ UNCHANGED <<sent, open>>
  /\ UNCHANGED <<bridge, tries, arrived>>

PeriodicFlush ==
  /\ bridge # "off"
  /\ batch # <<>>
  /\ \E n \in 0..Len(batch) : Flush(batch, n)
  /\ UNCHANGED <<bridge, streamed, tries, arrived>>

\* Nothing flushes the batch when the service stops.
StopBridge ==
  /\ bridge' = "off"
  /\ batch' = <<>>
  /\ UNCHANGED <<streamed, sent, open, tries, arrived>>

\* A request with record r, for the first time in the order of produce() and
\* as far as InFlight allows.  It gets through or not, and so does its answer;
\* the producer is not idempotent, so the broker takes a record again.
Request(r) ==
  /\ r \in open
  /\ tries[r] <= Retries
  /\ tries[r] = 0 => /\ \A q \in open : q < r => tries[q] > 0
                     /\ Cardinality({q \in open : tries[q] > 0}) < InFlight
  /\ tries' = [tries EXCEPT ![r] = @ + 1]
  /\ \/ /\ arrived' = Append(arrived, [record |-> r, try |-> tries[r] + 1])
        /\ open' \in {open, open \ {r}}
     \/ UNCHANGED <<arrived, open>>
  /\ UNCHANGED <<bridge, batch, streamed, sent>>

\* Out of tries or of time; delivery_callback only logs it.
GiveUp(r) ==
  /\ r \in open
  /\ open' = open \ {r}
  /\ UNCHANGED <<bridge, batch, streamed, sent, tries, arrived>>

Producer == \E r \in Records : Request(r) \/ GiveUp(r)

BridgeInit ==
  /\ bridge = "off"
  /\ batch = <<>>
  /\ streamed = 0
  /\ sent = <<>>
  /\ open = {}
  /\ tries = [r \in Records |-> 0]
  /\ arrived = <<>>

BridgeNext == Initialize \/ StreamFromEdge \/ PeriodicFlush \/ StopBridge \/ Producer

BridgeSpec == BridgeInit /\ [][BridgeNext]_bridgeVars

-----------------------------------------------------------------------------
(* Properties *)

\* The bridge's state has its types.
BridgeTypeOK ==
  /\ bridge \in {"off", "ready", "broken"}
  /\ batch \in Seq(Records)
  /\ streamed \in 0..MaxRecords
  /\ sent \in Seq(Records)
  /\ open \subseteq Records
  /\ tries \in [Records -> 0..Retries + 1]
  /\ arrived \in Seq(Arrival)

\* The bridge gives each record to the producer in the order they came and at
\* most once, though sends fail and the batch is cleared before them, and a
\* full batch does not wait.  So the topic holds only what was given, a record
\* more than once only because the producer tried again (once, with
\* retries = 1), and one behind a later record only if it was tried again.
OnlyRetriesRepeat ==
  LET all == sent \o batch
  IN /\ \A i, j \in DOMAIN all : i < j => all[i] < all[j]
     /\ Len(batch) < BatchSize
     /\ \A i \in DOMAIN arrived : \E k \in DOMAIN sent : sent[k] = arrived[i].record
     /\ \A i, j \in DOMAIN arrived :
          /\ arrived[i] = arrived[j] => i = j
          /\ i < j /\ arrived[j].record < arrived[i].record => arrived[j].try > 1

=============================================================================
