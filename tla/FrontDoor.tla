------------------------------- MODULE FrontDoor -------------------------------
(***************************************************************************)
(* What the web application meets first: the gateway's proxy, its stream   *)
(* of events, the sessions of the auth service and its limit on logins.    *)
(* They share a token, which none of them changes for another, and no      *)
(* state: a behaviour moves one of them and leaves the others as they      *)
(* started, which reaches every state of each.                             *)
(***************************************************************************)
EXTENDS Gateway, RealtimeStream, Sessions, LoginLimiter

VARIABLE part  \* the part that moves

vars == <<part, gatewayVars, streamVars, sessionVars, limiterVars>>

Init ==
  /\ part \in {"gateway", "stream", "sessions", "logins"}
  /\ GatewayInit
  /\ StreamInit
  /\ SessionsInit
  /\ LimiterInit
  /\ part # "stream" => page = Fresh(TRUE)
  /\ part # "sessions" => ~offline /\ stored = NoTokens

GatewayStep ==
  /\ part = "gateway" /\ GatewayNext
  /\ UNCHANGED <<part, streamVars, sessionVars, limiterVars>>

StreamStep ==
  /\ part = "stream" /\ StreamNext
  /\ UNCHANGED <<part, gatewayVars, sessionVars, limiterVars>>

SessionsStep ==
  /\ part = "sessions" /\ SessionsNext
  /\ UNCHANGED <<part, gatewayVars, streamVars, limiterVars>>

LoginsStep ==
  /\ part = "logins" /\ LimiterNext
  /\ UNCHANGED <<part, gatewayVars, streamVars, sessionVars>>

Next == GatewayStep \/ StreamStep \/ SessionsStep \/ LoginsStep

Spec == Init /\ [][Next]_vars

\* The one type invariant of the four modules.
TypeOK == GatewayTypeOK /\ StreamTypeOK /\ SessionsTypeOK /\ LimiterTypeOK

=============================================================================
