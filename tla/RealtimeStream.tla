---------------------------- MODULE RealtimeStream ----------------------------
(***************************************************************************)
(* One dashboard page and the gateway's fan-out of pushed events to it: a  *)
(* WebSocket that is retried, server-sent events meanwhile, and a local    *)
(* simulation once the page has given up.  page is the closure of          *)
(* startRealtimeStream; what is pushed is numbered.                        *)
(***************************************************************************)
EXTENDS Integers, Sequences

CONSTANTS
  QueueSize,   \* maxsize of a subscriber's queue
  MaxPushes,   \* bound on the events
  MaxTimers    \* bound on the retry timers of SSE that were overwritten

ASSUME QueueSizeAssumption == QueueSize \in Nat \ {0}
ASSUME StreamBounds == MaxPushes \in Nat /\ MaxTimers \in Nat

VARIABLES
  page,     \* what the page holds: connections, timers and flags
  queue,    \* the gateway's queue for the page's WebSocket
  sender,   \* sender_loop of that connection, "none" without one
  pushed,   \* events published so far
  shown     \* the last of them that the page has shown

streamVars == <<page, queue, sender, pushed, shown>>

\* zombie: a socket that cleanupRemote closed, whose events are still to come;
\* stray: timers of SSE whose handle was overwritten.
Page == [socket : {"none", "connecting", "open", "failed"}, zombie : BOOLEAN,
         sse : {"none", "opening", "live"}, wsRetry : BOOLEAN, sseRetry : BOOLEAN,
         stray : 0..MaxTimers, giveUp : BOOLEAN, local : BOOLEAN, closed : BOOLEAN]

Settled(p) == p.closed \/ p.local

Streams(p) == p.sse # "none"

-----------------------------------------------------------------------------
(* The page's functions; ok is FALSE when a constructor throws *)

\* cleanupRemote: a closed socket reports its end later.
Cleaned(p) ==
  [p EXCEPT !.wsRetry = FALSE, !.sseRetry = FALSE, !.giveUp = FALSE, !.sse = "none",
            !.socket = "none", !.zombie = @ \/ p.socket # "none"]

FallBackToLocal(p) ==
  IF Settled(p) THEN p
  ELSE [Cleaned(p) EXCEPT !.local = TRUE]

ScheduleWsRetry(p) == IF Settled(p) THEN p ELSE [p EXCEPT !.wsRetry = TRUE]

\* The handle of the timer before is overwritten, if it is still to fire.
ScheduleSseRetry(p) ==
  IF Settled(p) \/ Streams(p) THEN p
  ELSE [p EXCEPT !.sseRetry = TRUE, !.stray = IF p.sseRetry THEN @ + 1 ELSE @]

\* Mutant: nothing asks whether the page still wants a connection.
TrySSEFallback_Unguarded(p, ok) ==
  IF Streams(p) THEN p
  ELSE IF ok THEN [p EXCEPT !.sse = "opening"] ELSE FallBackToLocal(p)

TrySSEFallback(p, ok) ==
  IF Settled(p) \/ Streams(p) THEN p
  ELSE IF ok THEN [p EXCEPT !.sse = "opening"] ELSE FallBackToLocal(p)

ConnectWebSocket(p, ok) ==
  IF Settled(p) THEN p
  ELSE IF ok THEN [p EXCEPT !.socket = "connecting"] ELSE FallBackToLocal(p)

\* socket.onclose
OnClose(p, ok) ==
  LET gone == [p EXCEPT !.socket = "none"]
  IN IF Settled(p) THEN gone ELSE ScheduleWsRetry(TrySSEFallback(gone, ok))

-----------------------------------------------------------------------------
(* RealtimeBroadcaster *)

\* Mutant: a full queue refuses the new event.
Put_DropNew(q, e) == IF Len(q) < QueueSize THEN Append(q, e) ELSE q

Put(q, e) == IF Len(q) < QueueSize THEN Append(q, e) ELSE Append(Tail(q), e)

\* POST /internal/realtime/publish
Publish ==
  /\ pushed < MaxPushes
  /\ pushed' = pushed + 1
  /\ queue' = IF sender = "none" THEN queue ELSE Put(queue, pushed')
  /\ UNCHANGED <<page, sender, shown>>

\* sender_loop: an event, or after ten idle seconds a snapshot, which is
\* fetched while events go on arriving.
SendPushed ==
  /\ sender = "waiting"
  /\ queue # <<>>
  /\ queue' = Tail(queue)
  /\ shown' = IF page.socket = "open" THEN Head(queue) ELSE shown
  /\ UNCHANGED <<page, sender, pushed>>

FetchSnapshot ==
  /\ sender = "waiting"
  /\ queue = <<>>
  /\ sender' = "fetching"
  /\ UNCHANGED <<page, queue, pushed, shown>>

SendSnapshot ==
  /\ sender = "fetching"
  /\ sender' = "waiting"
  /\ UNCHANGED <<page, queue, pushed, shown>>

\* receiver_loop has seen the end of the connection.
Unsubscribe ==
  /\ sender # "none"
  /\ page.socket # "open"
  /\ sender' = "none"
  /\ queue' = <<>>
  /\ UNCHANGED <<page, pushed, shown>>

-----------------------------------------------------------------------------
(* The page's events *)

\* socket.onopen; the gateway has subscribed a new queue.
SocketOpens ==
  /\ page.socket = "connecting"
  /\ sender = "none"
  /\ page' = [page EXCEPT !.socket = "open", !.giveUp = FALSE, !.sse = "none"]
  /\ queue' = <<>>
  /\ sender' = "waiting"
  /\ UNCHANGED <<pushed, shown>>

Unheard == UNCHANGED <<queue, sender, pushed, shown>>

\* onerror of the socket, whose end follows.
SocketFails ==
  \E ok \in BOOLEAN :
    /\ \/ page.socket \in {"connecting", "open"}
          /\ page' = TrySSEFallback([page EXCEPT !.socket = "failed"], ok)
       \/ page.zombie /\ page' = TrySSEFallback(page, ok)
    /\ Unheard

SocketCloses ==
  \E ok \in BOOLEAN :
    /\ \/ page.socket # "none" /\ page' = OnClose(page, ok)
       \/ page.zombie /\ page' = OnClose([page EXCEPT !.zombie = FALSE], ok)
    /\ Unheard

SseSnapshot ==
  /\ page.sse = "opening"
  /\ page' = [page EXCEPT !.sse = "live"]
  /\ Unheard

SseFails ==
  /\ Streams(page)
  /\ page' = ScheduleSseRetry([page EXCEPT !.sse = "none"])
  /\ page'.stray <= MaxTimers
  /\ Unheard

WsTimer ==
  \E ok \in BOOLEAN :
    /\ page.wsRetry
    /\ page' = ConnectWebSocket([page EXCEPT !.wsRetry = FALSE], ok)
    /\ Unheard

SseTimer ==
  \E ok \in BOOLEAN :
    /\ \/ page.sseRetry /\ page' = TrySSEFallback([page EXCEPT !.sseRetry = FALSE], ok)
       \/ page.stray > 0 /\ page' = TrySSEFallback([page EXCEPT !.stray = @ - 1], ok)
    /\ Unheard

\* Eight seconds after the start, unless a socket has opened: a page that SSE
\* serves trades it for the simulation.
GiveUpTimer ==
  /\ page.giveUp
  /\ page' = FallBackToLocal([page EXCEPT !.giveUp = FALSE])
  /\ Unheard

\* The page is left.
StopStream ==
  /\ ~page.closed
  /\ page' = [Cleaned(page) EXCEPT !.closed = TRUE]
  /\ Unheard

Fresh(isLocal) ==
  [socket |-> "none", zombie |-> FALSE, sse |-> "none", wsRetry |-> FALSE, sseRetry |-> FALSE,
   stray |-> 0, giveUp |-> ~isLocal, local |-> isLocal, closed |-> FALSE]

\* Without a network or a token the page is local from the start.
StreamInit ==
  /\ \E isLocal, ok \in BOOLEAN : page = ConnectWebSocket(Fresh(isLocal), ok)
  /\ queue = <<>>
  /\ sender = "none"
  /\ pushed = 0
  /\ shown = 0

StreamNext ==
  \/ Publish \/ SendPushed \/ FetchSnapshot \/ SendSnapshot \/ Unsubscribe
  \/ SocketOpens \/ SocketFails \/ SocketCloses \/ SseSnapshot \/ SseFails
  \/ WsTimer \/ SseTimer \/ GiveUpTimer \/ StopStream

StreamSpec == StreamInit /\ [][StreamNext]_streamVars

-----------------------------------------------------------------------------
(* Properties *)

\* The stream's state has its types.
StreamTypeOK ==
  /\ page \in Page
  /\ queue \in Seq(1..MaxPushes)
  /\ sender \in {"none", "waiting", "fetching"}
  /\ pushed \in 0..MaxPushes
  /\ shown \in 0..pushed

\* Whatever order errors, ends, timers and the page's own end come in: a page
\* that has not settled holds a socket or a timer that will try one again, and
\* one that has settled (left, or local for good) holds nothing remote.
OneSource ==
  IF Settled(page)
  THEN page.socket = "none" /\ ~Streams(page) /\ ~page.wsRetry /\ ~page.giveUp
  ELSE page.socket # "none" \/ page.wsRetry

\* A slow page loses the oldest events: its queue is a run of events that ends
\* with the newest, all of them newer than what it shows.
QueueIsNewest ==
  sender # "none" =>
    /\ \A i \in 1..Len(queue) : queue[i] = pushed - Len(queue) + i
    /\ Len(queue) <= QueueSize
    /\ queue # <<>> => shown < Head(queue)

=============================================================================
