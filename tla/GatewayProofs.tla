---------------------------- MODULE GatewayProofs -----------------------------
(***************************************************************************)
(* The gateway's doors: the age of what it answers from its cache, for any *)
(* number of users, requests and processes; one page and its queue, for    *)
(* any queue size and any number of events, errors and timers.             *)
(***************************************************************************)
EXTENDS Gateway, RealtimeStream, SequenceTheorems, TLAPS

-----------------------------------------------------------------------------
(* RealtimeStream *)

Pages ==
  [socket : {"none", "connecting", "open", "failed"}, zombie : BOOLEAN,
   sse : {"none", "opening", "live"}, wsRetry : BOOLEAN, sseRetry : BOOLEAN,
   stray : Int, giveUp : BOOLEAN, local : BOOLEAN, closed : BOOLEAN]

\* A page that holds nothing remote, and one that will try a socket again.
Quiet(p) == p.socket = "none" /\ ~Streams(p) /\ ~p.wsRetry /\ ~p.giveUp

Trying(p) == p.socket # "none" \/ p.wsRetry

Calm(p) == p \in Pages /\ (Settled(p) => Quiet(p))

PageInv == Calm(page) /\ (~Settled(page) => Trying(page))

\* The queue holds the newest events, and the page shows none of them yet.
QueueInv ==
  /\ queue \in Seq(Int) /\ pushed \in Int /\ shown \in Int
  /\ \A i \in 1..Len(queue) : queue[i] = pushed - Len(queue) + i
  /\ Len(queue) <= QueueSize
  /\ shown + Len(queue) <= pushed
  /\ sender = "none" => queue = <<>>

-----------------------------------------------------------------------------
(* The page *)

\* What cleanupRemote leaves is quiet, settled or not.
LEMMA CleanedQuiet ==
  ASSUME NEW p \in Pages
  PROVE  /\ Cleaned(p) \in Pages /\ Quiet(Cleaned(p))
         /\ [Cleaned(p) EXCEPT !.local = TRUE] \in Pages
         /\ Quiet([Cleaned(p) EXCEPT !.local = TRUE]) /\ Settled([Cleaned(p) EXCEPT !.local = TRUE])
         /\ [Cleaned(p) EXCEPT !.closed = TRUE] \in Pages
         /\ Quiet([Cleaned(p) EXCEPT !.closed = TRUE]) /\ Settled([Cleaned(p) EXCEPT !.closed = TRUE])
<1> DEFINE c == Cleaned(p)
<1>1. c \in Pages /\ Quiet(c)
  <2>1. p.zombie \in BOOLEAN /\ (p.socket # "none") \in BOOLEAN
    BY DEF Pages
  <2>2. (p.zombie \/ p.socket # "none") \in BOOLEAN
    OBVIOUS
  <2> DEFINE z == p.zombie \/ p.socket # "none"
  <2>3. c = [p EXCEPT !.wsRetry = FALSE, !.sseRetry = FALSE, !.giveUp = FALSE, !.sse = "none",
                      !.socket = "none", !.zombie = z]
    BY DEF Cleaned
  <2>4. z \in BOOLEAN
    BY <2>2
  <2> HIDE DEF z, c
  <2> QED
    BY <2>3, <2>4 DEF Pages, Quiet, Streams
<1> HIDE DEF c
<1>2. /\ [c EXCEPT !.local = TRUE] \in Pages /\ Settled([c EXCEPT !.local = TRUE])
      /\ Quiet([c EXCEPT !.local = TRUE])
  BY <1>1 DEF Pages, Quiet, Streams, Settled
<1>3. /\ [c EXCEPT !.closed = TRUE] \in Pages /\ Settled([c EXCEPT !.closed = TRUE])
      /\ Quiet([c EXCEPT !.closed = TRUE])
  BY <1>1 DEF Pages, Quiet, Streams, Settled
<1> QED
  BY <1>1, <1>2, <1>3 DEF c

LEMMA FallBackCalm ==
  ASSUME NEW p, Calm(p)
  PROVE  Calm(FallBackToLocal(p)) /\ Settled(FallBackToLocal(p))
<1>1. CASE Settled(p)
  BY <1>1 DEF FallBackToLocal
<1>2. CASE ~Settled(p)
  <2>1. FallBackToLocal(p) = [Cleaned(p) EXCEPT !.local = TRUE] /\ p \in Pages
    BY <1>2 DEF FallBackToLocal, Calm
  <2> QED
    BY <2>1, CleanedQuiet DEF Calm
<1> QED
  BY <1>1, <1>2

\* Looking for another source settles the page or leaves its socket alone.
LEMMA SseFallbackCalm ==
  ASSUME NEW p, Calm(p), NEW ok \in BOOLEAN
  PROVE  /\ Calm(TrySSEFallback(p, ok))
         /\ ~Settled(TrySSEFallback(p, ok)) =>
              /\ ~Settled(p) /\ TrySSEFallback(p, ok).socket = p.socket
              /\ TrySSEFallback(p, ok).wsRetry = p.wsRetry
<1> DEFINE r == TrySSEFallback(p, ok)
<1>1. CASE Settled(p) \/ Streams(p)
  BY <1>1 DEF TrySSEFallback
<1>2. CASE ~(Settled(p) \/ Streams(p)) /\ ok
  <2>1. r = [p EXCEPT !.sse = "opening"]
    BY <1>2 DEF TrySSEFallback
  <2> HIDE DEF r
  <2>2. /\ r \in Pages /\ r.socket = p.socket /\ r.wsRetry = p.wsRetry
        /\ r.closed = p.closed /\ r.local = p.local
    BY <2>1 DEF Calm, Pages
  <2>3. ~Settled(r)
    BY <1>2, <2>2 DEF Settled
  <2> QED
    BY <1>2, <2>2, <2>3 DEF Calm, r
<1>3. CASE ~(Settled(p) \/ Streams(p)) /\ ~ok
  <2>1. r = FallBackToLocal(p)
    BY <1>3 DEF TrySSEFallback
  <2> QED
    BY <2>1, FallBackCalm
<1> QED
  BY <1>1, <1>2, <1>3

\* The fields that only say who waits for what.
LEMMA FieldsCalm ==
  ASSUME NEW p, Calm(p)
  PROVE  /\ Calm([p EXCEPT !.zombie = FALSE]) /\ Calm([p EXCEPT !.sseRetry = FALSE])
         /\ \A n \in Int : Calm([p EXCEPT !.stray = n])
         /\ Calm([p EXCEPT !.sse = "none"]) /\ Calm([p EXCEPT !.giveUp = FALSE])
         /\ Calm([p EXCEPT !.wsRetry = FALSE]) /\ Calm([p EXCEPT !.socket = "none"])
BY DEF Calm, Pages, Settled, Quiet, Streams

LEMMA PageStep == PageInv /\ [StreamNext]_streamVars => PageInv'
<1> SUFFICES ASSUME PageInv, [StreamNext]_streamVars PROVE PageInv'
  OBVIOUS
<1>0. Calm(page) /\ page \in Pages /\ (~Settled(page) => Trying(page))
  BY DEF PageInv, Calm
<1> DEFINE Fine(p) == Calm(p) /\ (~Settled(p) => Trying(p))
<1>f. \A p : page' = p /\ Fine(p) => PageInv'
  BY DEF PageInv, Calm, Settled, Quiet, Trying, Streams
<1>1. CASE Publish \/ SendPushed \/ FetchSnapshot \/ SendSnapshot \/ Unsubscribe \/ UNCHANGED streamVars
  <2>1. page' = page
    BY <1>1 DEF Publish, SendPushed, FetchSnapshot, SendSnapshot, Unsubscribe, streamVars
  <2> QED
    BY <2>1, <1>0, <1>f
<1>2. CASE SocketOpens
  <2> DEFINE r == [page EXCEPT !.socket = "open", !.giveUp = FALSE, !.sse = "none"]
  <2>1. page.socket = "connecting" /\ page' = r
    BY <1>2 DEF SocketOpens
  <2>2. ~Settled(page)
    BY <1>0, <2>1 DEF Calm, Quiet
  <2>3. r \in Pages /\ r.socket = "open" /\ r.closed = page.closed /\ r.local = page.local
    BY <1>0 DEF Pages
  <2> HIDE DEF r
  <2>4. Fine(r)
    BY <2>2, <2>3 DEF Calm, Settled, Trying
  <2> QED
    BY <2>1, <2>4, <1>f
<1>3. CASE SocketFails
  <2>1. PICK ok \in BOOLEAN :
          \/ /\ page.socket \in {"connecting", "open"}
             /\ page' = TrySSEFallback([page EXCEPT !.socket = "failed"], ok)
          \/ page' = TrySSEFallback(page, ok)
    BY <1>3 DEF SocketFails
  <2>2. CASE page.socket \in {"connecting", "open"} /\ page' = TrySSEFallback([page EXCEPT !.socket = "failed"], ok)
    <3> DEFINE r == [page EXCEPT !.socket = "failed"]
    <3>1. ~Settled(page)
      BY <1>0, <2>2 DEF Calm, Quiet
    <3>2. r \in Pages /\ r.socket = "failed" /\ r.closed = page.closed /\ r.local = page.local
      BY <1>0 DEF Pages
    <3>3. page' = TrySSEFallback(r, ok)
      BY <2>2
    <3> HIDE DEF r
    <3>4. Calm(r) /\ Trying(r)
      BY <3>1, <3>2 DEF Calm, Settled, Trying
    <3>5. Fine(TrySSEFallback(r, ok))
      BY <3>4, SseFallbackCalm DEF Trying
    <3> QED
      BY <3>3, <3>5, <1>f
  <2>3. CASE page' = TrySSEFallback(page, ok)
    <3>1. Fine(TrySSEFallback(page, ok))
      BY <1>0, SseFallbackCalm DEF Trying
    <3> QED
      BY <2>3, <3>1, <1>f
  <2> QED
    BY <2>1, <2>2, <2>3
<1>4. CASE SocketCloses
  <2>1. ASSUME NEW p, Calm(p), NEW ok \in BOOLEAN, page' = OnClose(p, ok) PROVE PageInv'
    <3> DEFINE g == [p EXCEPT !.socket = "none"]
               t == TrySSEFallback(g, ok)
    <3>1. Calm(g)
      BY <2>1, FieldsCalm
    <3>2. p.closed = g.closed /\ p.local = g.local
      BY <2>1 DEF Calm, Pages
    <3>3. CASE Settled(p)
      <4>1. page' = g /\ Settled(g)
        BY <2>1, <3>2, <3>3 DEF OnClose, Settled
      <4> QED
        BY <3>1, <4>1, <1>f
    <3>4. CASE ~Settled(p)
      <4>1. page' = ScheduleWsRetry(t)
        BY <2>1, <3>4 DEF OnClose
      <4>2. Calm(t)
        BY <3>1, SseFallbackCalm
      <4> HIDE DEF t
      <4>3. CASE Settled(t)
        BY <4>1, <4>2, <4>3, <1>f DEF ScheduleWsRetry
      <4>4. CASE ~Settled(t)
        <5> DEFINE u == [t EXCEPT !.wsRetry = TRUE]
        <5>1. page' = u
          BY <4>1, <4>4 DEF ScheduleWsRetry
        <5>2. u \in Pages /\ u.wsRetry /\ u.closed = t.closed /\ u.local = t.local
          BY <4>2 DEF Calm, Pages
        <5> HIDE DEF u
        <5>3. Fine(u)
          BY <4>4, <5>2 DEF Calm, Settled, Trying
        <5> QED
          BY <5>1, <5>3, <1>f
      <4> QED
        BY <4>3, <4>4
    <3> QED
      BY <3>3, <3>4
  <2>2. Calm([page EXCEPT !.zombie = FALSE])
    BY <1>0, FieldsCalm
  <2> QED
    BY <1>0, <1>4, <2>1, <2>2 DEF SocketCloses
<1>5. CASE SseSnapshot
  <2> DEFINE r == [page EXCEPT !.sse = "live"]
  <2>1. page.sse = "opening" /\ page' = r
    BY <1>5 DEF SseSnapshot
  <2>2. ~Settled(page)
    BY <1>0, <2>1 DEF Calm, Quiet, Streams
  <2>3. /\ r \in Pages /\ r.socket = page.socket /\ r.wsRetry = page.wsRetry
        /\ r.closed = page.closed /\ r.local = page.local
    BY <1>0 DEF Pages
  <2> HIDE DEF r
  <2>4. Fine(r)
    BY <1>0, <2>2, <2>3 DEF Calm, Settled, Trying
  <2> QED
    BY <2>1, <2>4, <1>f
<1>6. CASE SseFails
  <2> DEFINE g == [page EXCEPT !.sse = "none"]
             r == ScheduleSseRetry(g)
  <2>1. page' = r
    BY <1>6 DEF SseFails
  <2>2. /\ Calm(g) /\ g.socket = page.socket /\ g.wsRetry = page.wsRetry
        /\ g.closed = page.closed /\ g.local = page.local
    <3>1. Calm(g)
      BY <1>0, FieldsCalm
    <3> QED
      BY <1>0, <3>1 DEF Pages
  <2> HIDE DEF g
  <2>3. Fine(g)
    BY <1>0, <2>2 DEF Settled, Trying
  <2>4. CASE r = g
    BY <2>1, <2>3, <2>4, <1>f
  <2>5. CASE r = [g EXCEPT !.sseRetry = TRUE, !.stray = IF g.sseRetry THEN @ + 1 ELSE @]
    <3> DEFINE n == IF g.sseRetry THEN g.stray + 1 ELSE g.stray
    <3>1. n \in Int /\ r = [g EXCEPT !.sseRetry = TRUE, !.stray = n]
      BY <2>2, <2>5 DEF Calm, Pages
    <3> HIDE DEF r, n
    <3>2. /\ r \in Pages /\ r.socket = g.socket /\ r.wsRetry = g.wsRetry /\ r.sse = g.sse
          /\ r.giveUp = g.giveUp /\ r.closed = g.closed /\ r.local = g.local
      BY <2>2, <3>1 DEF Calm, Pages
    <3>3. Fine(r)
      BY <2>3, <3>2 DEF Calm, Settled, Trying, Quiet, Streams
    <3> QED
      BY <2>1, <3>3, <1>f
  <2> QED
    BY <2>4, <2>5 DEF ScheduleSseRetry
<1>7. CASE WsTimer
  <2> DEFINE g == [page EXCEPT !.wsRetry = FALSE]
  <2>1. PICK ok \in BOOLEAN : page.wsRetry /\ page' = ConnectWebSocket(g, ok)
    BY <1>7 DEF WsTimer
  <2>2. Calm(g) /\ ~Settled(g)
    <3>1. Calm(g)
      BY <1>0, FieldsCalm
    <3>2. ~Settled(page)
      BY <1>0, <2>1 DEF Calm, Quiet
    <3> QED
      BY <1>0, <3>1, <3>2 DEF Settled, Pages
  <2> HIDE DEF g
  <2>3. CASE ok
    <3> DEFINE r == [g EXCEPT !.socket = "connecting"]
    <3>1. page' = r
      BY <2>1, <2>2, <2>3 DEF ConnectWebSocket
    <3>2. r \in Pages /\ r.socket = "connecting" /\ r.closed = g.closed /\ r.local = g.local
      BY <2>2 DEF Calm, Pages
    <3> HIDE DEF r
    <3>3. Fine(r)
      BY <2>2, <3>2 DEF Calm, Settled, Trying
    <3> QED
      BY <3>1, <3>3, <1>f
  <2>4. CASE ~ok
    <3>1. page' = FallBackToLocal(g)
      BY <2>1, <2>2, <2>4 DEF ConnectWebSocket
    <3>2. Fine(FallBackToLocal(g))
      BY <2>2, FallBackCalm
    <3> QED
      BY <3>1, <3>2, <1>f
  <2> QED
    BY <2>3, <2>4
<1>8. CASE SseTimer
  <2>1. ASSUME NEW g, Calm(g), g.socket = page.socket, g.wsRetry = page.wsRetry,
               g.closed = page.closed, g.local = page.local,
               NEW ok \in BOOLEAN, page' = TrySSEFallback(g, ok)
        PROVE  PageInv'
    <3>1. ~Settled(g) => Trying(g)
      BY <1>0, <2>1 DEF Settled, Trying
    <3>2. Fine(TrySSEFallback(g, ok))
      BY <2>1, <3>1, SseFallbackCalm DEF Trying
    <3> QED
      BY <2>1, <3>2, <1>f
  <2>2. ASSUME NEW ok \in BOOLEAN, page' = TrySSEFallback([page EXCEPT !.sseRetry = FALSE], ok)
        PROVE  PageInv'
    <3> DEFINE g == [page EXCEPT !.sseRetry = FALSE]
    <3>1. Calm(g)
      BY <1>0, FieldsCalm
    <3>2. /\ g.socket = page.socket /\ g.wsRetry = page.wsRetry
          /\ g.closed = page.closed /\ g.local = page.local
      BY <1>0 DEF Pages
    <3>3. page' = TrySSEFallback(g, ok)
      BY <2>2
    <3> HIDE DEF g
    <3> QED
      BY <3>1, <3>2, <3>3, <2>1
  <2>3. ASSUME NEW ok \in BOOLEAN, page' = TrySSEFallback([page EXCEPT !.stray = page.stray - 1], ok)
        PROVE  PageInv'
    <3> DEFINE g == [page EXCEPT !.stray = page.stray - 1]
    <3>1. Calm(g)
      <4>1. page.stray - 1 \in Int
        BY <1>0 DEF Pages
      <4> QED
        BY <1>0, <4>1, FieldsCalm
    <3>2. /\ g.socket = page.socket /\ g.wsRetry = page.wsRetry
          /\ g.closed = page.closed /\ g.local = page.local
      BY <1>0 DEF Pages
    <3>3. page' = TrySSEFallback(g, ok)
      BY <2>3
    <3> HIDE DEF g
    <3> QED
      BY <3>1, <3>2, <3>3, <2>1
  <2> QED
    BY <1>8, <2>2, <2>3 DEF SseTimer
<1>9. CASE GiveUpTimer
  <2>1. page' = FallBackToLocal([page EXCEPT !.giveUp = FALSE])
    BY <1>9 DEF GiveUpTimer
  <2>2. Fine(FallBackToLocal([page EXCEPT !.giveUp = FALSE]))
    BY <1>0, FieldsCalm, FallBackCalm
  <2> QED
    BY <2>1, <2>2, <1>f
<1>10. CASE StopStream
  <2>1. page' = [Cleaned(page) EXCEPT !.closed = TRUE]
    BY <1>10 DEF StopStream
  <2>2. Fine([Cleaned(page) EXCEPT !.closed = TRUE])
    BY <1>0, CleanedQuiet DEF Calm
  <2> QED
    BY <2>1, <2>2, <1>f
<1> QED
  BY <1>1, <1>2, <1>3, <1>4, <1>5, <1>6, <1>7, <1>8, <1>9, <1>10 DEF StreamNext

LEMMA PageStart == StreamInit => PageInv
<1> SUFFICES ASSUME StreamInit PROVE PageInv
  OBVIOUS
<1>1. PICK isLocal \in BOOLEAN, ok \in BOOLEAN : page = ConnectWebSocket(Fresh(isLocal), ok)
  BY DEF StreamInit
<1> DEFINE p == Fresh(isLocal)
<1>2. /\ p \in Pages /\ p.socket = "none" /\ p.sse = "none" /\ ~p.wsRetry
      /\ p.giveUp = ~isLocal /\ p.local = isLocal /\ ~p.closed
  BY DEF Fresh, Pages
<1> HIDE DEF p
<1>3. Calm(p)
  BY <1>2 DEF Calm, Settled, Quiet, Streams
<1>4. CASE isLocal
  BY <1>1, <1>2, <1>3, <1>4 DEF ConnectWebSocket, PageInv, Settled, p
<1>5. CASE ~isLocal /\ ok
  <2> DEFINE r == [p EXCEPT !.socket = "connecting"]
  <2>1. page = r
    BY <1>1, <1>2, <1>5 DEF ConnectWebSocket, Settled, p
  <2>2. r \in Pages /\ r.socket = "connecting" /\ ~r.local /\ ~r.closed
    BY <1>2, <1>5 DEF Pages
  <2> QED
    BY <2>1, <2>2 DEF PageInv, Calm, Settled, Trying
<1>6. CASE ~isLocal /\ ~ok
  <2>1. page = FallBackToLocal(p)
    BY <1>1, <1>2, <1>6 DEF ConnectWebSocket, Settled, p
  <2> QED
    BY <2>1, <1>3, FallBackCalm DEF PageInv
<1> QED
  BY <1>4, <1>5, <1>6

-----------------------------------------------------------------------------
(* The queue *)

LEMMA PublishKeeps == QueueInv /\ Publish => QueueInv'
<1> SUFFICES ASSUME QueueInv, Publish PROVE QueueInv'
  OBVIOUS
<1> DEFINE q == queue
           e == pushed + 1
<1>1. /\ q \in Seq(Int) /\ Len(q) \in Nat /\ e \in Int /\ QueueSize \in Nat \ {0}
      /\ \A i \in 1..Len(q) : q[i] = pushed - Len(q) + i
      /\ pushed' = e /\ shown' = shown /\ sender' = sender /\ page' = page
  BY QueueSizeAssumption DEF QueueInv, Publish
<1>2. CASE sender = "none"
  <2>1. queue' = <<>> /\ queue = <<>>
    BY <1>2 DEF QueueInv, Publish
  <2> QED
    BY <2>1, <1>1 DEF QueueInv
<1>3. CASE sender # "none" /\ Len(q) < QueueSize
  <2>1. queue' = Append(q, e)
    BY <1>1, <1>3 DEF Publish, Put
  <2>2. /\ queue' \in Seq(Int) /\ Len(queue') = Len(q) + 1 /\ queue'[Len(q) + 1] = e
        /\ \A i \in 1..Len(q) : queue'[i] = q[i]
    BY <2>1, <1>1, AppendProperties
  <2>3. \A i \in 1..Len(queue') : queue'[i] = e - Len(queue') + i
    <3> SUFFICES ASSUME NEW i \in 1..Len(queue') PROVE queue'[i] = e - Len(queue') + i
      OBVIOUS
    <3>1. CASE i = Len(q) + 1
      BY <3>1, <2>2, <1>1
    <3>2. CASE i # Len(q) + 1
      <4>1. i \in 1..Len(q)
        BY <3>2, <2>2, <1>1
      <4>2. queue'[i] = pushed - Len(q) + i
        BY <4>1, <2>2, <1>1
      <4> QED
        BY <4>1, <4>2, <2>2, <1>1 DEF QueueInv
    <3> QED
      BY <3>1, <3>2
  <2> QED
    BY <2>2, <2>3, <1>1, <1>3 DEF QueueInv
<1>4. CASE sender # "none" /\ ~(Len(q) < QueueSize)
  <2>1. queue' = Append(Tail(q), e)
    BY <1>1, <1>4 DEF Publish, Put
  <2>2. Len(q) = QueueSize /\ q # <<>>
    BY <1>1, <1>4 DEF QueueInv
  <2>3. /\ Tail(q) \in Seq(Int) /\ Len(Tail(q)) = Len(q) - 1
        /\ \A i \in 1..Len(Tail(q)) : Tail(q)[i] = q[i + 1]
    BY <2>2, <1>1, HeadTailProperties
  <2>4. /\ queue' \in Seq(Int) /\ Len(queue') = Len(q) /\ queue'[Len(q)] = e
        /\ \A i \in 1..Len(q) - 1 : queue'[i] = q[i + 1]
    <3> DEFINE t == Tail(q)
    <3>1. t \in Seq(Int) /\ Len(t) = Len(q) - 1 /\ \A i \in 1..Len(t) : t[i] = q[i + 1]
      BY <2>3
    <3>2. queue' = Append(t, e)
      BY <2>1
    <3> HIDE DEF t
    <3>3. /\ queue' \in Seq(Int) /\ Len(queue') = Len(t) + 1 /\ queue'[Len(t) + 1] = e
          /\ \A i \in 1..Len(t) : queue'[i] = t[i]
      BY <3>1, <3>2, <1>1, AppendProperties
    <3> QED
      BY <3>1, <3>3, <1>1
  <2>5. \A i \in 1..Len(queue') : queue'[i] = e - Len(queue') + i
    <3> SUFFICES ASSUME NEW i \in 1..Len(queue') PROVE queue'[i] = e - Len(queue') + i
      OBVIOUS
    <3>1. CASE i = Len(q)
      BY <3>1, <2>4, <1>1
    <3>2. CASE i # Len(q)
      <4>1. i \in 1..Len(q) - 1 /\ i + 1 \in 1..Len(q)
        BY <3>2, <2>4, <1>1
      <4>2. queue'[i] = pushed - Len(q) + (i + 1)
        BY <4>1, <2>4, <1>1
      <4> QED
        BY <4>1, <4>2, <2>4, <1>1 DEF QueueInv
    <3> QED
      BY <3>1, <3>2
  <2> QED
    BY <2>2, <2>4, <2>5, <1>1, <1>4 DEF QueueInv
<1> QED
  BY <1>2, <1>3, <1>4

LEMMA SendKeeps == QueueInv /\ SendPushed => QueueInv'
<1> SUFFICES ASSUME QueueInv, SendPushed PROVE QueueInv'
  OBVIOUS
<1>1. /\ queue \in Seq(Int) /\ Len(queue) \in Nat /\ queue # <<>> /\ sender = "waiting"
      /\ \A i \in 1..Len(queue) : queue[i] = pushed - Len(queue) + i
      /\ queue' = Tail(queue) /\ sender' = sender /\ pushed' = pushed
      /\ shown' = Head(queue) \/ shown' = shown
  BY DEF QueueInv, SendPushed
<1>2. /\ queue' \in Seq(Int) /\ Len(queue') = Len(queue) - 1 /\ Len(queue') \in Nat
      /\ \A i \in 1..Len(queue') : queue'[i] = queue[i + 1]
      /\ Head(queue) = queue[1]
  BY <1>1, HeadTailProperties
<1>3. Head(queue) = pushed - Len(queue) + 1
  BY <1>1, <1>2
<1>4. \A i \in 1..Len(queue') : queue'[i] = pushed - Len(queue') + i
  <2> SUFFICES ASSUME NEW i \in 1..Len(queue') PROVE queue'[i] = pushed - Len(queue') + i
    OBVIOUS
  <2>1. i + 1 \in 1..Len(queue) /\ i \in Int
    BY <1>1, <1>2
  <2>2. queue'[i] = pushed - Len(queue) + (i + 1)
    BY <2>1, <1>1, <1>2
  <2> QED
    BY <2>1, <2>2, <1>1, <1>2 DEF QueueInv
<1>5. shown' \in Int /\ shown' + Len(queue') <= pushed
  BY <1>1, <1>2, <1>3 DEF QueueInv
<1> QED
  BY <1>1, <1>2, <1>4, <1>5, QueueSizeAssumption DEF QueueInv

LEMMA QueueStep == QueueInv /\ [StreamNext]_streamVars => QueueInv'
<1> SUFFICES ASSUME QueueInv, [StreamNext]_streamVars PROVE QueueInv'
  OBVIOUS
<1>1. CASE UNCHANGED <<queue, pushed, shown>> /\ (sender' = "none" => sender = "none")
  BY <1>1 DEF QueueInv
<1>2. CASE queue' = <<>> /\ UNCHANGED <<pushed, shown>>
  BY <1>2, QueueSizeAssumption DEF QueueInv
<1>3. CASE FetchSnapshot \/ SendSnapshot
  BY <1>1, <1>3 DEF FetchSnapshot, SendSnapshot
<1>4. CASE SocketOpens \/ Unsubscribe
  BY <1>2, <1>4 DEF SocketOpens, Unsubscribe
<1>5. CASE \/ SocketFails \/ SocketCloses \/ SseSnapshot \/ SseFails
           \/ WsTimer \/ SseTimer \/ GiveUpTimer \/ StopStream
  BY <1>1, <1>5 DEF SocketFails, SocketCloses, SseSnapshot, SseFails, WsTimer, SseTimer,
     GiveUpTimer, StopStream, Unheard
<1> QED
  BY <1>1, <1>3, <1>4, <1>5, PublishKeeps, SendKeeps DEF StreamNext, streamVars

LEMMA QueueStart == StreamInit => QueueInv
  BY QueueSizeAssumption DEF StreamInit, QueueInv

-----------------------------------------------------------------------------
\* The invariants below the properties of the page and of its queue.
THEOREM StreamInvariant == StreamSpec => [](PageInv /\ QueueInv)
  BY PageStart, PageStep, QueueStart, QueueStep, PTL DEF StreamSpec

\* Whatever the order of errors, ends and timers, a page that has settled holds
\* nothing remote, and any other one will try a socket again.
THEOREM OneSourceHolds == StreamSpec => []OneSource
<1>1. PageInv => OneSource
  BY DEF PageInv, Calm, Quiet, Trying, OneSource
<1> QED
  BY <1>1, StreamInvariant, PTL

\* A page that is slow loses the oldest events only, for any queue size.
THEOREM QueueIsNewestHolds == StreamSpec => []QueueIsNewest
<1>1. ASSUME QueueInv PROVE QueueIsNewest
  <2>1. queue # <<>> => Len(queue) >= 1 /\ Head(queue) = queue[1]
    BY <1>1, HeadTailProperties, EmptySeq DEF QueueInv
  <2>2. queue # <<>> => shown < Head(queue)
    BY <1>1, <2>1 DEF QueueInv
  <2> QED
    BY <1>1, <2>2 DEF QueueInv, QueueIsNewest
<1> QED
  BY <1>1, StreamInvariant, PTL

-----------------------------------------------------------------------------
(* Gateway *)

\* Version v of p was not overwritten before that time.
Current(p, v, time) ==
  v <= Len(written[p]) /\ (v < Len(written[p]) => written[p][v + 1] >= time)

EntryOK(p, u, e) ==
  /\ e \in Entry /\ e.by = u /\ e.expires <= clock + Ttl
  /\ Current(p, e.version, e.expires - Ttl - Flight)

RequestOK(x) ==
  /\ x \in Request /\ x.since <= clock /\ clock <= x.since + Flight
  /\ x.phase = "answered" => Current(x.path, x.version, x.since)

AnswerOK(a) ==
  /\ a \in Answer /\ a.by = a.user /\ a.at <= clock
  /\ Current(a.path, a.version, a.at - Ttl - Flight + 1)

CacheServes(c) ==
  /\ DOMAIN c = Replicas /\ \A g \in Replicas : DOMAIN c[g] = Keys
  /\ \A g \in Replicas, p \in Paths, u \in Users :
       c[g][<<p, u>>] = Nothing \/ EntryOK(p, u, c[g][<<p, u>>])

ServedInv ==
  /\ clock \in Int
  /\ written \in [Paths -> Seq(Int)]
  /\ CacheServes(cache)
  /\ DOMAIN request = Requests /\ \A r \in Requests : request[r] = Nothing \/ RequestOK(request[r])
  /\ answer = Nothing \/ AnswerOK(answer)

LEMMA TimesInt == Ttl \in Int /\ Ttl >= 1 /\ Flight \in Int /\ Flight >= 0
  BY TimesAssumption

\* What was read before a write is older than it.
LEMMA CurrentAfterWrite ==
  ASSUME clock \in Int, written \in [Paths -> Seq(Int)],
         NEW p \in Paths, NEW q \in Paths, NEW v \in Nat, NEW time \in Int, time <= clock,
         Current(p, v, time),
         written' = [written EXCEPT ![q] = Append(@, clock)]
  PROVE  Current(p, v, time)'
<1> DEFINE s == written[p]
<1>1. s \in Seq(Int) /\ Len(s) \in Nat
  BY LenProperties
<1>2. CASE p = q
  <2>1. written'[p] = Append(s, clock)
    BY <1>2
  <2>2. /\ Len(Append(s, clock)) = Len(s) + 1 /\ Append(s, clock)[Len(s) + 1] = clock
        /\ \A i \in 1..Len(s) : Append(s, clock)[i] = s[i]
    BY <1>1, AppendProperties
  <2>3. v <= Len(s) /\ (v < Len(s) => s[v + 1] >= time)
    BY DEF Current
  <2> DEFINE a == Append(s, clock)
  <2>4. v < Len(a) => a[v + 1] >= time
    <3> HIDE DEF a, s
    <3>1. CASE v < Len(s)
      <4>1. v + 1 \in 1..Len(s)
        BY <1>1, <3>1
      <4> QED
        BY <2>2, <2>3, <3>1, <4>1 DEF a
    <3>2. CASE v = Len(s)
      BY <2>2, <3>2 DEF a
    <3> QED
      BY <1>1, <2>3, <3>1, <3>2
  <2>5. v <= Len(a)
    BY <1>1, <2>2, <2>3
  <2> QED
    BY <2>1, <2>4, <2>5 DEF Current
<1>3. CASE p # q
  BY <1>3 DEF Current
<1> QED
  BY <1>2, <1>3

LEMMA CurrentEarlier ==
  ASSUME written \in [Paths -> Seq(Int)], NEW p \in Paths, NEW v \in Nat,
         NEW time \in Int, NEW before \in Int, before <= time, Current(p, v, time)
  PROVE  Current(p, v, before)
<1>1. written[p] \in Seq(Int) /\ Len(written[p]) \in Nat
  BY LenProperties
<1>2. v < Len(written[p]) => written[p][v + 1] \in Int
  BY <1>1, ElementOfSeq
<1> QED
  BY <1>1, <1>2 DEF Current

\* A resource's history grows, or nothing happens to it, at one time.
Grown == UNCHANGED written \/ \E q \in Paths : written' = [written EXCEPT ![q] = Append(@, clock)]

LEMMA CurrentStays ==
  ASSUME clock \in Int, written \in [Paths -> Seq(Int)], Grown,
         NEW p \in Paths, NEW v \in Nat, NEW time \in Int, time <= clock, Current(p, v, time)
  PROVE  Current(p, v, time)'
BY CurrentAfterWrite DEF Grown, Current

\* So what is in the cache, in progress or answered stays as good as it was.
LEMMA EntryStays ==
  ASSUME ServedInv, Grown, clock' \in {clock, clock + 1},
         NEW p \in Paths, NEW u \in Users, NEW e, EntryOK(p, u, e)
  PROVE  EntryOK(p, u, e)'
<1>1. clock \in Int /\ written \in [Paths -> Seq(Int)] /\ clock <= clock' /\ clock' \in Int
  BY DEF ServedInv
<1>2. e \in Entry /\ e.by = u /\ e.expires <= clock + Ttl /\ Current(p, e.version, e.expires - Ttl - Flight)
  BY DEF EntryOK
<1>3. e.version \in Nat /\ e.expires \in Int
  BY <1>2 DEF Entry
<1>4. e.expires - Ttl - Flight \in Int /\ e.expires - Ttl - Flight <= clock
  BY <1>1, <1>2, <1>3, TimesInt
<1>5. Current(p, e.version, e.expires - Ttl - Flight)'
  BY <1>1, <1>2, <1>3, <1>4, CurrentStays
<1>6. e.expires <= clock' + Ttl
  BY <1>1, <1>2, <1>3, TimesInt
<1> QED
  BY <1>2, <1>5, <1>6 DEF EntryOK

LEMMA AnswerStays ==
  ASSUME ServedInv, Grown, clock' \in {clock, clock + 1}, NEW a, AnswerOK(a)
  PROVE  AnswerOK(a)'
<1>1. clock \in Int /\ written \in [Paths -> Seq(Int)] /\ clock <= clock' /\ clock' \in Int
  BY DEF ServedInv
<1>2. a \in Answer /\ a.by = a.user /\ a.at <= clock /\ Current(a.path, a.version, a.at - Ttl - Flight + 1)
  BY DEF AnswerOK
<1>3. a.version \in Nat /\ a.at \in Int /\ a.path \in Paths
  BY <1>2 DEF Answer
<1>4. a.at - Ttl - Flight + 1 \in Int /\ a.at - Ttl - Flight + 1 <= clock
  BY <1>1, <1>2, <1>3, TimesInt, SMTT(30)
<1>5. Current(a.path, a.version, a.at - Ttl - Flight + 1)'
  BY <1>1, <1>2, <1>3, <1>4, CurrentStays
<1> QED
  BY <1>1, <1>2, <1>3, <1>5 DEF AnswerOK

LEMMA RequestStays ==
  ASSUME ServedInv, Grown, clock' \in {clock, clock + 1}, NEW x, RequestOK(x), clock' <= x.since + Flight
  PROVE  RequestOK(x)'
<1>1. clock \in Int /\ written \in [Paths -> Seq(Int)] /\ clock <= clock' /\ clock' \in Int
  BY DEF ServedInv
<1>2. /\ x \in Request /\ x.since <= clock
      /\ x.phase = "answered" => Current(x.path, x.version, x.since)
  BY DEF RequestOK
<1>3. x.version \in Nat /\ x.since \in Int /\ x.path \in Paths
  BY <1>2 DEF Request
<1>4. x.phase = "answered" => Current(x.path, x.version, x.since)'
  BY <1>1, <1>2, <1>3, CurrentStays
<1> QED
  BY <1>1, <1>2, <1>3, <1>4 DEF RequestOK

\* A cache whose entries were there, are gone or are one new.
LEMMA CacheStays ==
  ASSUME ServedInv, Grown, clock' \in {clock, clock + 1}, NEW c,
         DOMAIN c = Replicas, \A g \in Replicas : DOMAIN c[g] = Keys,
         \A g \in Replicas, p \in Paths, u \in Users :
           c[g][<<p, u>>] \in {Nothing, cache[g][<<p, u>>]} \/ EntryOK(p, u, c[g][<<p, u>>])'
  PROVE  CacheServes(c)'
<1> SUFFICES ASSUME NEW g \in Replicas, NEW p \in Paths, NEW u \in Users
             PROVE  c[g][<<p, u>>] = Nothing \/ EntryOK(p, u, c[g][<<p, u>>])'
  BY DEF CacheServes
<1>1. CASE c[g][<<p, u>>] = cache[g][<<p, u>>]
  <2>1. cache[g][<<p, u>>] = Nothing \/ EntryOK(p, u, cache[g][<<p, u>>])
    BY DEF ServedInv, CacheServes
  <2>2. c[g][<<p, u>>] = Nothing \/ EntryOK(p, u, c[g][<<p, u>>])
    BY <1>1, <2>1
  <2> QED
    BY <2>2, EntryStays
<1> QED
  BY <1>1

LEMMA InitServed == GatewayInit => ServedInv
<1> SUFFICES ASSUME GatewayInit PROVE ServedInv
  OBVIOUS
<1>1. written \in [Paths -> Seq(Int)]
  BY EmptySeq DEF GatewayInit
<1>2. \A g \in Replicas, p \in Paths, u \in Users : cache[g][<<p, u>>] = Nothing
  BY DEF GatewayInit, Keys
<1> QED
  BY <1>1, <1>2 DEF GatewayInit, ServedInv, CacheServes

LEMMA GrownTyped ==
  ASSUME ServedInv, Grown
  PROVE  written' \in [Paths -> Seq(Int)]
<1>1. CASE UNCHANGED written
  BY <1>1 DEF ServedInv
<1>2. ASSUME NEW q \in Paths, written' = [written EXCEPT ![q] = Append(@, clock)]
      PROVE  written' \in [Paths -> Seq(Int)]
  <2>1. Append(written[q], clock) \in Seq(Int)
    BY AppendProperties DEF ServedInv
  <2> QED
    BY <1>2, <2>1 DEF ServedInv
<1> QED
  BY <1>1, <1>2 DEF Grown

\* While the clock stands, a step changes entries and requests to good ones or
\* ends them.
LEMMA StepServes ==
  ASSUME ServedInv, Grown, UNCHANGED clock, NEW c, NEW f, NEW a,
         cache' = c, request' = f, answer' = a,
         DOMAIN c = Replicas, \A g \in Replicas : DOMAIN c[g] = Keys,
         \A g \in Replicas, p \in Paths, u \in Users :
           c[g][<<p, u>>] \in {Nothing, cache[g][<<p, u>>]} \/ EntryOK(p, u, c[g][<<p, u>>])',
         DOMAIN f = Requests,
         \A r \in Requests : f[r] \in {Nothing, request[r]} \/ RequestOK(f[r])',
         a = answer \/ AnswerOK(a)'
  PROVE  ServedInv'
<1>1. clock' \in Int /\ clock' = clock /\ written' \in [Paths -> Seq(Int)]
  BY GrownTyped DEF ServedInv
<1>2. CacheServes(cache)'
  <2>1. CacheServes(c)'
    BY <1>1, CacheStays
  <2> QED
    BY <2>1 DEF CacheServes
<1>3. \A r \in Requests : f[r] = Nothing \/ RequestOK(f[r])'
  <2> SUFFICES ASSUME NEW r \in Requests, f[r] = request[r], f[r] # Nothing
               PROVE  RequestOK(f[r])'
    OBVIOUS
  <2>1. RequestOK(f[r]) /\ clock' <= f[r].since + Flight
    BY <1>1 DEF ServedInv, RequestOK
  <2> QED
    BY <1>1, <2>1, RequestStays
<1>4. DOMAIN request' = Requests /\ \A r \in Requests : request'[r] = Nothing \/ RequestOK(request[r])'
  BY <1>3 DEF RequestOK, Current
<1>5. a = Nothing \/ AnswerOK(a)'
  <2> SUFFICES ASSUME a = answer, a # Nothing PROVE AnswerOK(a)'
    OBVIOUS
  <2>1. AnswerOK(a)
    BY DEF ServedInv
  <2> QED
    BY <1>1, <2>1, AnswerStays
<1>6. answer' = Nothing \/ AnswerOK(answer)'
  BY <1>5 DEF AnswerOK, Current
<1> QED
  BY <1>1, <1>2, <1>4, <1>6 DEF ServedInv

LEMMA TickServes == ServedInv /\ Tick => ServedInv'
<1> SUFFICES ASSUME ServedInv, Tick PROVE ServedInv'
  OBVIOUS
<1>1. clock \in Int /\ clock' = clock + 1 /\ UNCHANGED <<written, cache, request, answer>>
  BY DEF Tick, ServedInv
<1>2. Grown /\ clock' \in {clock, clock + 1}
  BY <1>1 DEF Grown
<1>3. PICK c, f, a : c = cache /\ f = request /\ a = answer
  OBVIOUS
<1>4. CacheServes(c)'
  BY <1>2, <1>3, CacheStays DEF ServedInv, CacheServes
<1>5. \A r \in Requests : f[r] = Nothing \/ RequestOK(f[r])'
  <2> SUFFICES ASSUME NEW r \in Requests, f[r] # Nothing PROVE RequestOK(f[r])'
    OBVIOUS
  <2>1. RequestOK(f[r]) /\ f[r].since \in Int
    BY <1>3 DEF ServedInv, RequestOK, Request
  <2>2. clock' <= f[r].since + Flight
    BY <1>1, <1>3, <2>1, TimesInt DEF Tick
  <2> QED
    BY <1>2, <2>1, <2>2, RequestStays
<1>6. a = Nothing \/ AnswerOK(a)'
  BY <1>2, <1>3, AnswerStays DEF ServedInv
<1>7. CacheServes(cache)'
  BY <1>1, <1>3, <1>4 DEF CacheServes
<1>8. DOMAIN request' = Requests /\ \A r \in Requests : request'[r] = Nothing \/ RequestOK(request[r])'
  BY <1>1, <1>3, <1>5 DEF ServedInv, RequestOK, Current
<1>9. answer' = Nothing \/ AnswerOK(answer)'
  BY <1>1, <1>3, <1>6 DEF AnswerOK, Current
<1> QED
  BY <1>1, <1>7, <1>8, <1>9 DEF ServedInv

LEMMA ArriveServes ==
  ASSUME ServedInv, NEW r \in Requests, NEW g \in Replicas, NEW u \in Users, NEW p \in Paths,
         NEW write \in BOOLEAN, Arrive(r, g, u, p, write)
  PROVE  ServedInv'
<1>1. UNCHANGED <<clock, written>> /\ Grown /\ clock \in Int
  BY DEF Arrive, Grown, ServedInv
<1>2. PICK c, f, a : c = cache' /\ f = request' /\ a = answer'
  OBVIOUS
<1> DEFINE x == [at |-> g, user |-> u, path |-> p, write |-> write,
                 since |-> clock, phase |-> "sent", version |-> 0]
<1>3. \/ UNCHANGED <<cache, request, answer>>
      \/ /\ Hit(g, Key(p, u))
         /\ LET e == cache[g][Key(p, u)]
            IN answer' = [user |-> u, path |-> p, version |-> e.version, by |-> e.by, at |-> clock]
         /\ UNCHANGED <<cache, request>>
      \/ /\ request' = [request EXCEPT ![r] = x]
         /\ cache' \in {cache, Dropped(g, Key(p, u))}
         /\ UNCHANGED answer
  BY DEF Arrive
<1>4. DOMAIN cache = Replicas /\ \A h \in Replicas : DOMAIN cache[h] = Keys
  BY DEF ServedInv, CacheServes
<1>5. /\ DOMAIN c = Replicas /\ \A h \in Replicas : DOMAIN c[h] = Keys
      /\ \A h \in Replicas, q \in Paths, w \in Users : c[h][<<q, w>>] \in {Nothing, cache[h][<<q, w>>]}
  <2>1. <<p, u>> \in Keys /\ \A q \in Paths, w \in Users : <<q, w>> \in Keys
    BY DEF Keys
  <2>2. c = cache \/ c = [cache EXCEPT ![g][<<p, u>>] = Nothing]
    BY <1>2, <1>3 DEF Dropped, Key
  <2> QED
    BY <1>4, <2>1, <2>2
<1>6. DOMAIN f = Requests /\ \A s \in Requests : f[s] \in {Nothing, request[s]} \/ RequestOK(f[s])'
  <2>1. x \in Request
    BY <1>1 DEF Request
  <2>2. PICK y : y = x
    OBVIOUS
  <2>3. y \in Request /\ y.since = clock /\ y.phase = "sent"
    BY <2>1, <2>2
  <2>4. f = request \/ f = [request EXCEPT ![r] = y]
    BY <1>2, <1>3, <2>2
  <2>5. RequestOK(y)'
    BY <1>1, <2>3, TimesInt DEF RequestOK
  <2>6. DOMAIN f = Requests
    BY <2>4 DEF ServedInv
  <2>7. \A s \in Requests : f[s] = request[s] \/ f[s] = y
    BY <2>4 DEF ServedInv
  <2> QED
    BY <2>5, <2>6, <2>7
<1>7. a = answer \/ AnswerOK(a)'
  <2> SUFFICES ASSUME Hit(g, Key(p, u)),
                      a = [user |-> u, path |-> p, version |-> cache[g][<<p, u>>].version,
                           by |-> cache[g][<<p, u>>].by, at |-> clock]
               PROVE  AnswerOK(a)'
    BY <1>2, <1>3 DEF Key
  <2>1. PICK e : e = cache[g][<<p, u>>]
    OBVIOUS
  <2>2. EntryOK(p, u, e) /\ e.expires > clock
    BY <2>1 DEF Hit, Key, ServedInv, CacheServes
  <2>3. e.version \in Nat /\ e.expires \in Int /\ e.by = u
    BY <2>2 DEF EntryOK, Entry
  <2>4. a \in Answer /\ a.by = a.user /\ a.at = clock /\ a.path = p /\ a.version = e.version
    BY <1>1, <2>1, <2>3 DEF Answer
  <2>5. Current(p, e.version, e.expires - Ttl - Flight)
    BY <2>2 DEF EntryOK
  <2>6. clock - Ttl - Flight + 1 <= e.expires - Ttl - Flight
    BY <1>1, <2>2, <2>3, TimesInt
  <2>7. Current(p, e.version, clock - Ttl - Flight + 1)
    <3>1. clock - Ttl - Flight + 1 \in Int /\ e.expires - Ttl - Flight \in Int
      BY <1>1, <2>3, TimesInt
    <3> QED
      BY <2>3, <2>5, <2>6, <3>1, CurrentEarlier DEF ServedInv
  <2>8. AnswerOK(a)
    BY <1>1, <2>4, <2>7 DEF AnswerOK
  <2> QED
    BY <1>1, <2>8 DEF AnswerOK, Current
<1> QED
  BY <1>1, <1>2, <1>5, <1>6, <1>7, StepServes

\* A step that leaves the cache and the answer alone.
LEMMA RequestServes ==
  ASSUME ServedInv, Grown, UNCHANGED <<clock, cache, answer>>, NEW f, request' = f,
         DOMAIN f = Requests,
         \A r \in Requests : f[r] \in {Nothing, request[r]} \/ RequestOK(f[r])'
  PROVE  ServedInv'
<1>1. PICK c, a : c = cache /\ a = answer
  OBVIOUS
<1>2. DOMAIN c = Replicas /\ \A g \in Replicas : DOMAIN c[g] = Keys
  BY <1>1 DEF ServedInv, CacheServes
<1> QED
  BY <1>1, <1>2, StepServes

LEMMA ServeServes ==
  ASSUME ServedInv, NEW r \in Requests, Serve(r)
  PROVE  ServedInv'
<1>1. PICK x, y, f : /\ x = request[r] /\ f = request'
                     /\ y = [request[r] EXCEPT !.phase = "answered", !.version = Len(written[request[r].path])]
  OBVIOUS
<1>2. RequestOK(x) /\ x \in Request /\ x.path \in Paths /\ x.since \in Int /\ x.since <= clock
  BY <1>1 DEF Serve, ServedInv, RequestOK, Request
<1>3. Len(written[x.path]) \in Nat /\ clock \in Int /\ written \in [Paths -> Seq(Int)]
  BY <1>2, LenProperties DEF ServedInv
<1>4. y \in Request /\ y.since = x.since /\ y.path = x.path /\ y.version = Len(written[x.path])
  BY <1>1, <1>2, <1>3 DEF Request
<1>5. f = [request EXCEPT ![r] = y] /\ UNCHANGED <<clock, cache, answer>>
  BY <1>1 DEF Serve
<1>6. UNCHANGED written \/ written' = [written EXCEPT ![x.path] = Append(@, clock)]
  BY <1>1 DEF Serve
<1>7. Grown
  BY <1>2, <1>6 DEF Grown
<1>8. Current(y.path, y.version, y.since)
  BY <1>3, <1>4 DEF Current
<1>9. Current(y.path, y.version, y.since)'
  BY <1>2, <1>3, <1>4, <1>7, <1>8, CurrentStays
<1>10. RequestOK(y)'
  BY <1>2, <1>4, <1>5, <1>9 DEF RequestOK
<1>11. DOMAIN f = Requests /\ \A s \in Requests : f[s] = request[s] \/ f[s] = y
  BY <1>5 DEF ServedInv
<1> QED
  BY <1>1, <1>5, <1>7, <1>10, <1>11, RequestServes, ZenonT(60)

LEMMA FinishServes ==
  ASSUME ServedInv, NEW r \in Requests, Finish(r)
  PROVE  ServedInv'
<1>1. PICK x, c, f, a : x = request[r] /\ c = cache' /\ f = request' /\ a = answer'
  OBVIOUS
<1>2. x # Nothing /\ x.phase = "answered" /\ f = [request EXCEPT ![r] = Nothing]
      /\ UNCHANGED <<clock, written>> /\ Grown
  BY <1>1 DEF Finish, Grown
<1>3. /\ RequestOK(x) /\ x \in Request /\ x.path \in Paths /\ x.user \in Users /\ x.at \in Replicas
      /\ x.since \in Int /\ x.version \in Nat /\ clock <= x.since + Flight /\ clock \in Int
  BY <1>1, <1>2 DEF ServedInv, RequestOK, Request
<1>4. Current(x.path, x.version, x.since)
  BY <1>2, <1>3 DEF RequestOK
<1>5. Current(x.path, x.version, clock - Flight) /\ Current(x.path, x.version, clock - Ttl - Flight + 1)
  <2>1. clock - Flight \in Int /\ clock - Flight <= x.since
    BY <1>3, TimesInt
  <2>2. clock - Ttl - Flight + 1 \in Int /\ clock - Ttl - Flight + 1 <= x.since
    BY <1>3, TimesInt
  <2> QED
    BY <1>3, <1>4, <2>1, <2>2, CurrentEarlier DEF ServedInv
<1>6. PICK e, b : /\ e = [version |-> x.version, by |-> x.user, expires |-> clock + Ttl]
                  /\ b = [user |-> x.user, path |-> x.path, version |-> x.version, by |-> x.user, at |-> clock]
  OBVIOUS
<1>7. \/ UNCHANGED <<cache, answer>>
      \/ SetEntry(x.at, <<x.path, x.user>>, e) /\ answer' = b
  BY <1>1, <1>6 DEF Finish, Key
<1>8. EntryOK(x.path, x.user, e)'
  <2>1. e \in Entry /\ e.by = x.user /\ e.version = x.version /\ e.expires = clock + Ttl
    BY <1>3, <1>6, TimesInt DEF Entry
  <2>2. e.expires - Ttl - Flight = clock - Flight
    BY <1>3, <2>1, TimesInt
  <2>3. EntryOK(x.path, x.user, e)
    BY <1>3, <1>5, <2>1, <2>2, TimesInt DEF EntryOK
  <2> QED
    BY <1>2, <2>3 DEF EntryOK, Current
<1>9. AnswerOK(b)'
  <2>1. b \in Answer /\ b.by = b.user /\ b.at = clock /\ b.path = x.path /\ b.version = x.version
    BY <1>3, <1>6 DEF Answer
  <2>2. AnswerOK(b)
    BY <1>3, <1>5, <2>1 DEF AnswerOK
  <2> QED
    BY <1>2, <2>2 DEF AnswerOK, Current
<1>10. a = answer \/ AnswerOK(a)'
  BY <1>1, <1>7, <1>9 DEF AnswerOK, Current
<1>11. DOMAIN cache = Replicas /\ \A g \in Replicas : DOMAIN cache[g] = Keys
  BY DEF ServedInv, CacheServes
<1>12. <<x.path, x.user>> \in Keys
  BY <1>3 DEF Keys
<1>13. /\ DOMAIN c = Replicas /\ \A g \in Replicas : DOMAIN c[g] = Keys
       /\ \A g \in Replicas, k \in Keys :
            c[g][k] \in {Nothing, cache[g][k]} \/ (g = x.at /\ k = <<x.path, x.user>> /\ c[g][k] = e)
  <2> DEFINE Changed(d) ==
               /\ DOMAIN d = Replicas /\ \A g \in Replicas : DOMAIN d[g] = Keys
               /\ \A g \in Replicas, k \in Keys :
                    d[g][k] \in {Nothing, cache[g][k]} \/ (g = x.at /\ k = <<x.path, x.user>> /\ d[g][k] = e)
  <2>1. CASE c = cache
    BY <1>11, <2>1
  <2>2. CASE c = [cache EXCEPT ![x.at][<<x.path, x.user>>] = e]
    BY <1>3, <1>11, <1>12, <2>2
  <2>3. ASSUME NEW v \in Keys, c = [cache EXCEPT ![x.at][v] = Nothing, ![x.at][<<x.path, x.user>>] = e]
        PROVE  Changed(c)
    <3> DEFINE d == [cache EXCEPT ![x.at][v] = Nothing]
    <3>1. /\ DOMAIN d = Replicas /\ \A g \in Replicas : DOMAIN d[g] = Keys
          /\ \A g \in Replicas, k \in Keys : d[g][k] \in {Nothing, cache[g][k]}
      BY <1>3, <1>11
    <3>2. c = [d EXCEPT ![x.at][<<x.path, x.user>>] = e]
      BY <2>3
    <3> HIDE DEF d
    <3> QED
      BY <1>3, <1>12, <3>1, <3>2
  <2>4. \A v \in Victims(x.at) : v \in Keys
    BY DEF Victims, Entries
  <2> QED
    BY <1>1, <1>7, <2>1, <2>2, <2>3, <2>4 DEF SetEntry
<1>14. \A g \in Replicas, p \in Paths, u \in Users :
         c[g][<<p, u>>] \in {Nothing, cache[g][<<p, u>>]} \/ EntryOK(p, u, c[g][<<p, u>>])'
  <2> SUFFICES ASSUME NEW g \in Replicas, NEW p \in Paths, NEW u \in Users,
                      c[g][<<p, u>>] \notin {Nothing, cache[g][<<p, u>>]}
               PROVE  EntryOK(p, u, c[g][<<p, u>>])'
    OBVIOUS
  <2>1. <<p, u>> \in Keys
    BY DEF Keys
  <2>2. <<p, u>> = <<x.path, x.user>> /\ c[g][<<p, u>>] = e
    BY <1>13, <2>1
  <2>3. p = x.path /\ u = x.user
    BY <2>2
  <2> QED
    BY <1>8, <2>2, <2>3
<1>15. DOMAIN f = Requests /\ \A s \in Requests : f[s] \in {Nothing, request[s]}
  BY <1>2 DEF ServedInv
<1>16. DOMAIN c = Replicas /\ \A g \in Replicas : DOMAIN c[g] = Keys
  BY <1>13
<1>17. UNCHANGED clock /\ Grown /\ cache' = c /\ request' = f /\ answer' = a
  BY <1>1, <1>2
<1> QED
  BY <1>10, <1>14, <1>15, <1>16, <1>17, StepServes

LEMMA NextServed == ServedInv /\ [GatewayNext]_gatewayVars => ServedInv'
<1> SUFFICES ASSUME ServedInv, [GatewayNext]_gatewayVars PROVE ServedInv'
  OBVIOUS
<1>1. ASSUME NEW r \in Requests, NEW g \in Replicas, NEW u \in Users, NEW p \in Paths,
             NEW write \in BOOLEAN, Arrive(r, g, u, p, write)
      PROVE  ServedInv'
  BY <1>1, ArriveServes
<1>2. ASSUME NEW r \in Requests, Serve(r) \/ Finish(r) PROVE ServedInv'
  BY <1>2, ServeServes, FinishServes
<1>3. ASSUME NEW r \in Requests, Fail(r) PROVE ServedInv'
  <2>1. PICK f : f = request'
    OBVIOUS
  <2>2. f = [request EXCEPT ![r] = Nothing] /\ UNCHANGED <<clock, cache, answer>> /\ Grown
    BY <1>3, <2>1 DEF Fail, Grown
  <2>3. DOMAIN f = Requests /\ \A s \in Requests : f[s] \in {Nothing, request[s]}
    BY <2>2 DEF ServedInv
  <2> QED
    BY <2>1, <2>2, <2>3, RequestServes
<1>4. ASSUME NEW g \in Replicas, Invalidate(g) PROVE ServedInv'
  <2>1. PICK c, f, a : c = cache' /\ f = request /\ a = answer
    OBVIOUS
  <2>2. c = [cache EXCEPT ![g] = [k \in Keys |-> Nothing]] /\ UNCHANGED <<clock, request, answer>> /\ Grown
    BY <1>4, <2>1 DEF Invalidate, Grown
  <2>3. DOMAIN cache = Replicas /\ \A h \in Replicas : DOMAIN cache[h] = Keys
    BY DEF ServedInv, CacheServes
  <2>4. /\ DOMAIN c = Replicas /\ \A h \in Replicas : DOMAIN c[h] = Keys
        /\ \A h \in Replicas, k \in Keys : c[h][k] \in {Nothing, cache[h][k]}
    BY <2>2, <2>3
  <2>5. \A p \in Paths, u \in Users : <<p, u>> \in Keys
    BY DEF Keys
  <2>6. DOMAIN f = Requests
    BY <2>1 DEF ServedInv
  <2> QED
    BY <2>1, <2>2, <2>4, <2>5, <2>6, StepServes, ZenonT(60)
<1>5. CASE Tick
  BY <1>5, TickServes
<1>6. CASE UNCHANGED gatewayVars
  <2>1. UNCHANGED <<clock, written, cache, request, answer>>
    BY <1>6 DEF gatewayVars
  <2> QED
    BY <2>1 DEF ServedInv, CacheServes, EntryOK, RequestOK, AnswerOK, Current
<1> QED
  BY <1>1, <1>2, <1>3, <1>4, <1>5, <1>6 DEF GatewayNext

\* The invariant below ServedFresh.
THEOREM ServedInvariant == GatewaySpec => []ServedInv
  BY InitServed, NextServed, PTL DEF GatewaySpec

\* A user is answered with what the service gave to that user, at most as stale
\* as the time to live and one request, for any number of users, requests and
\* processes of the gateway and any size of the cache.
THEOREM ServedFreshHolds == GatewaySpec => []ServedFresh
<1>1. ServedInv => ServedFresh
  <2> SUFFICES ASSUME ServedInv, answer # Nothing PROVE ServedFresh
    BY DEF ServedFresh
  <2>1. PICK a : a = answer
    OBVIOUS
  <2>2. a \in Answer /\ a.by = a.user /\ Current(a.path, a.version, a.at - Ttl - Flight + 1)
    BY <2>1 DEF ServedInv, AnswerOK
  <2>3. a.version \in Nat /\ a.at \in Int /\ a.path \in Paths
    BY <2>2 DEF Answer
  <2>4. written[a.path] \in Seq(Int) /\ Len(written[a.path]) \in Nat
    BY <2>3, LenProperties DEF ServedInv
  <2>5. a.version < Len(written[a.path]) => written[a.path][a.version + 1] \in Int
    BY <2>3, <2>4, ElementOfSeq
  <2>6. ~Stale(a.path, a.version, a.at - Ttl - Flight)
    BY <2>2, <2>3, <2>4, <2>5, TimesInt, SMTT(30) DEF Current, Stale
  <2> QED
    BY <2>1, <2>2, <2>6 DEF ServedFresh
<1> QED
  BY <1>1, ServedInvariant, PTL

=============================================================================
