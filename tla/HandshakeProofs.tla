--------------------------- MODULE HandshakeProofs ---------------------------
(***************************************************************************)
(* Theorems about Handshake, for every drift, delay and set of skews.      *)
(* What a side has proved travels with the frames: EvidenceInv says what   *)
(* each frame under way and each label stands for.                         *)
(***************************************************************************)
EXTENDS Handshake, TLAPS

DriftOK == -MaxDrift <= skew /\ skew <= MaxDrift

\* What the receiver of a frame may rely on.
ToServerMeans(m) ==
  /\ m.type = "ClientHello" => m.ts <= now
  /\ m.type = "ClientResponse" => DriftOK /\ "client" \in trusts

ToClientMeans(m) ==
  /\ m.type = "ServerHello" => m.ts <= ServerClock /\ skew <= MaxDrift
  /\ m.type = "ServerDone" => server = "session"

EvidenceInv ==
  /\ \A k \in 1..Len(toServer) : ToServerMeans(toServer[k])
  /\ \A k \in 1..Len(toClient) : ToClientMeans(toClient[k])
  /\ client \in {"response_sent", "session"} => DriftOK /\ "client" \in trusts
  /\ client = "session" => server = "session"
  /\ server = "session" => DriftOK /\ trusts = Side

\* A frame taken from a queue or put on one.
LEMMA QueueFacts ==
  ASSUME NEW S, NEW q \in Seq(S)
  PROVE  /\ q # <<>> => /\ Head(q) \in S /\ Head(q) = q[1] /\ 1 \in 1..Len(q)
                        /\ Tail(q) \in Seq(S)
                        /\ \A k \in 1..Len(Tail(q)) :
                             k + 1 \in 1..Len(q) /\ Tail(q)[k] = q[k + 1]
         /\ \A e \in S : /\ Append(q, e) \in Seq(S)
                         /\ \A k \in 1..Len(Append(q, e)) :
                              \/ k \in 1..Len(q) /\ Append(q, e)[k] = q[k]
                              \/ Append(q, e)[k] = e
  OBVIOUS

LEMMA MsgType ==
  ASSUME NEW type \in FrameType, NEW ts \in Int
  PROVE  /\ Msg(type, ts) \in Frame
         /\ Msg(type, ts).type = type /\ Msg(type, ts).ts = ts
  BY DEF Msg, Frame

LEMMA FrameFields ==
  ASSUME NEW f \in Frame
  PROVE  f.type \in FrameType /\ f.ts \in Int
  BY DEF Frame

LEMMA AbsBound ==
  ASSUME NEW n \in Int, NEW b \in Int
  PROVE  Abs(n) <= b <=> -b <= n /\ n <= b
  BY DEF Abs

LEMMA BothSides ==
  ASSUME trusts \in SUBSET Side, "client" \in trusts, "server" \in trusts
  PROVE  trusts = Side
  BY DEF Side

\* The type of everything but closed, a flag no other conjunct mentions.
PlainTypeOK ==
  /\ now \in 0..MaxTime /\ skew \in Skew /\ trusts \in SUBSET Side
  /\ client \in ClientLabel /\ server \in ServerLabel
  /\ toServer \in Seq(Frame) /\ toClient \in Seq(Frame)
  /\ clientWait \in 0..now /\ serverWait \in 0..now

ClosedOK == closed \in BOOLEAN

LEMMA ClosedType == ClosedOK /\ [Next]_vars => ClosedOK'
  BY DEF ClosedOK, Next, ClientSteps, ServerSteps, SendHello, AnswerChallenge, RefuseServer,
     OpenSession, ClientFails, SocketFreed, Accepted, SendChallenge, RefuseHello,
     AcceptClient, RefuseClient, ServerFails, Tick, vars

Inv == PlainTypeOK /\ EvidenceInv

LEMMA InitInv == Init => Inv
<1>. SUFFICES ASSUME Init PROVE Inv
  OBVIOUS
<1>1. PlainTypeOK
  BY TimeAssumption DEF Init, PlainTypeOK, ClientLabel, ServerLabel
<1>2. EvidenceInv
  BY DEF Init, EvidenceInv
<1>. QED
  BY <1>1, <1>2 DEF Inv

LEMMA PlainTypeStep == PlainTypeOK /\ [Next]_vars => PlainTypeOK'
<1>. SUFFICES ASSUME PlainTypeOK, [Next]_vars PROVE PlainTypeOK'
  OBVIOUS
<1>. USE TimeAssumption DEF PlainTypeOK, ClientLabel, ServerLabel
<1>1. skew \in Int /\ now \in Int /\ now + skew \in Int
  OBVIOUS
<1>2. CASE SendHello
  BY <1>1, <1>2, MsgType, QueueFacts DEF SendHello, settings, FrameType
<1>3. CASE AnswerChallenge
  BY <1>3, MsgType, QueueFacts DEF AnswerChallenge, Arrived, settings, FrameType
<1>4. CASE RefuseServer
  BY <1>4, QueueFacts DEF RefuseServer, Arrived, settings, timers
<1>5. CASE OpenSession
  BY <1>5, QueueFacts DEF OpenSession, Arrived, settings, timers
<1>6. CASE ClientFails
  BY <1>6 DEF ClientFails, settings, timers
<1>7. CASE SocketFreed
  BY <1>7 DEF SocketFreed, settings, timers
<1>8. CASE Accepted
  BY <1>8 DEF Accepted, settings
<1>9. CASE SendChallenge
  BY <1>1, <1>9, MsgType, QueueFacts
     DEF SendChallenge, Arrived, settings, FrameType, ServerClock
<1>10. CASE RefuseHello
  BY <1>10, MsgType, QueueFacts DEF RefuseHello, Arrived, settings, timers, FrameType
<1>11. CASE AcceptClient
  BY <1>11, MsgType, QueueFacts DEF AcceptClient, Arrived, settings, timers, FrameType
<1>12. CASE RefuseClient
  BY <1>12, MsgType, QueueFacts DEF RefuseClient, Arrived, settings, timers, FrameType
<1>13. CASE ServerFails
  BY <1>13 DEF ServerFails, settings, timers
<1>14. CASE Tick
  BY <1>14 DEF Tick, settings, timers
<1>15. CASE UNCHANGED vars
  BY <1>15 DEF vars, settings, timers
<1>. QED
  BY <1>2, <1>3, <1>4, <1>5, <1>6, <1>7, <1>8, <1>9, <1>10, <1>11, <1>12, <1>13,
     <1>14, <1>15 DEF Next, ClientSteps, ServerSteps

\* Queues that only lose their heads keep what their frames mean.
LEMMA EvidenceStep == Inv /\ [Next]_vars => EvidenceInv'
<1>. SUFFICES ASSUME Inv, [Next]_vars PROVE EvidenceInv'
  OBVIOUS
<1>. USE TimeAssumption, QueueFacts
     DEF Inv, PlainTypeOK, EvidenceInv, ToServerMeans, ToClientMeans, DriftOK,
         ServerClock, settings
<1>1. skew \in Int /\ now \in Int /\ skew' = skew /\ trusts' = trusts
  BY DEF Next, ClientSteps, ServerSteps, SendHello, AnswerChallenge, RefuseServer,
     OpenSession, ClientFails, SocketFreed, Accepted, SendChallenge, RefuseHello,
     AcceptClient, RefuseClient, ServerFails, Tick, vars
<1>2. CASE SendHello
  <2>1. /\ Msg("ClientHello", now) \in Frame
        /\ Msg("ClientHello", now).type = "ClientHello" /\ Msg("ClientHello", now).ts = now
    BY <1>1, MsgType DEF FrameType
  <2>2. /\ toServer' = Append(toServer, Msg("ClientHello", now)) /\ toClient' = toClient
        /\ now' = now /\ client' = "hello_sent" /\ server' = server
    BY <1>2 DEF SendHello
  <2>3. ASSUME NEW k \in 1..Len(toServer')
        PROVE  /\ toServer'[k].type = "ClientHello" => toServer'[k].ts <= now
               /\ toServer'[k].type = "ClientResponse" => DriftOK /\ "client" \in trusts
    <3>1. \/ k \in 1..Len(toServer) /\ toServer'[k] = toServer[k]
          \/ toServer'[k] = Msg("ClientHello", now)
      BY <2>1, <2>2
    <3>. QED
      BY <1>1, <2>1, <3>1
  <2>. QED
    BY <1>1, <2>2, <2>3
<1>3. CASE AnswerChallenge
  <2>1. Head(toClient) \in Frame /\ Head(toClient).ts \in Int
    BY <1>3, FrameFields DEF AnswerChallenge, Arrived
  <2>2. DriftOK
    <3>1. Abs(now - Head(toClient).ts) <= MaxDrift
      BY <1>3 DEF AnswerChallenge, FreshForClient
    <3>2. now - Head(toClient).ts <= MaxDrift
      BY <1>1, <2>1, <3>1, AbsBound
    <3>3. Head(toClient).ts <= now + skew /\ skew <= MaxDrift
      BY <1>3 DEF AnswerChallenge, Arrived
    <3>. QED
      BY <1>1, <2>1, <3>2, <3>3
  <2>3. /\ toServer' = Append(toServer, Msg("ClientResponse", 0))
        /\ Msg("ClientResponse", 0) \in Frame
        /\ Msg("ClientResponse", 0).type = "ClientResponse"
        /\ toClient # <<>> /\ toClient' = Tail(toClient)
        /\ now' = now /\ client' = "response_sent" /\ server' = server
        /\ "client" \in trusts
    BY <1>3, MsgType DEF AnswerChallenge, Arrived, FrameType
  <2>4. ASSUME NEW k \in 1..Len(toServer')
        PROVE  /\ toServer'[k].type = "ClientHello" => toServer'[k].ts <= now
               /\ toServer'[k].type = "ClientResponse" => DriftOK /\ "client" \in trusts
    <3>1. \/ k \in 1..Len(toServer) /\ toServer'[k] = toServer[k]
          \/ toServer'[k] = Msg("ClientResponse", 0)
      BY <2>3
    <3>. QED
      BY <2>2, <2>3, <3>1
  <2>5. ASSUME NEW k \in 1..Len(toClient')
        PROVE  /\ toClient'[k].type = "ServerHello"
                    => toClient'[k].ts <= now + skew /\ skew <= MaxDrift
               /\ toClient'[k].type = "ServerDone" => server = "session"
    BY <2>3
  <2>. QED
    BY <1>1, <2>2, <2>3, <2>4, <2>5
<1>4. CASE RefuseServer
  BY <1>1, <1>4 DEF RefuseServer, Arrived
<1>5. CASE OpenSession
  BY <1>1, <1>5 DEF OpenSession, Arrived
<1>6. CASE ClientFails
  BY <1>1, <1>6 DEF ClientFails
<1>7. CASE SocketFreed
  BY <1>1, <1>7 DEF SocketFreed
<1>8. CASE Accepted
  BY <1>1, <1>8 DEF Accepted
<1>9. CASE SendChallenge
  <2>1. Head(toServer) \in Frame /\ Head(toServer).ts \in Int
    BY <1>9, FrameFields DEF SendChallenge, Arrived
  <2>2. skew <= MaxDrift
    BY <1>1, <1>9, <2>1, AbsBound DEF SendChallenge, Arrived, FreshForServer
  <2>3. /\ now + skew \in Int
        /\ Msg("ServerHello", now + skew) \in Frame
        /\ Msg("ServerHello", now + skew).type = "ServerHello"
        /\ Msg("ServerHello", now + skew).ts = now + skew
    BY <1>1, MsgType DEF FrameType
  <2>4. /\ toClient' = Append(toClient, Msg("ServerHello", now + skew))
        /\ toServer # <<>> /\ toServer' = Tail(toServer)
        /\ now' = now /\ client' = client /\ server' = "await_response"
        /\ server = "await_hello"
    BY <1>9 DEF SendChallenge, Arrived
  <2>5. ASSUME NEW k \in 1..Len(toClient')
        PROVE  /\ toClient'[k].type = "ServerHello"
                    => toClient'[k].ts <= now + skew /\ skew <= MaxDrift
               /\ toClient'[k].type = "ServerDone" => server = "session"
    <3>1. \/ k \in 1..Len(toClient) /\ toClient'[k] = toClient[k]
          \/ toClient'[k] = Msg("ServerHello", now + skew)
      BY <2>3, <2>4
    <3>. QED
      BY <1>1, <2>2, <2>3, <2>4, <3>1
  <2>6. ASSUME NEW k \in 1..Len(toServer')
        PROVE  /\ toServer'[k].type = "ClientHello" => toServer'[k].ts <= now
               /\ toServer'[k].type = "ClientResponse"
                    => DriftOK /\ "client" \in trusts
    BY <2>4
  <2>7. /\ client' \in {"response_sent", "session"} => DriftOK' /\ "client" \in trusts'
        /\ client' = "session" => server' = "session"
    BY <1>1, <1>9, <2>4 DEF SendChallenge
  <2>. QED
    BY <1>1, <2>4, <2>5, <2>6, <2>7
<1>10. CASE RefuseHello
  BY <1>1, <1>10, MsgType DEF RefuseHello, Arrived, FrameType
<1>11. CASE AcceptClient
  <2>1. DriftOK /\ "client" \in trusts /\ "server" \in trusts
    BY <1>11 DEF AcceptClient, Arrived
  <2>2. trusts = Side
    BY <2>1, BothSides
  <2>3. server' = "session" /\ toServer' = Tail(toServer) /\ now' = now
        /\ client' = client /\ toServer # <<>>
    BY <1>11 DEF AcceptClient, Arrived
  <2>4. toClient' = Append(toClient, Msg("ServerDone", 0))
        /\ Msg("ServerDone", 0) \in Frame /\ Msg("ServerDone", 0).type = "ServerDone"
    BY <1>11, MsgType DEF AcceptClient, FrameType
  <2>. QED
    BY <1>1, <2>1, <2>2, <2>3, <2>4
<1>12. CASE RefuseClient
  BY <1>1, <1>12, MsgType DEF RefuseClient, Arrived, FrameType
<1>13. CASE ServerFails
  BY <1>1, <1>13 DEF ServerFails, ServerWaiting
<1>14. CASE Tick
  <2>1. now' >= now /\ now' \in Int
    BY <1>14 DEF Tick
  <2>2. ASSUME NEW k \in 1..Len(toServer), toServer[k].type = "ClientHello"
        PROVE  toServer[k].ts <= now'
    <3>1. toServer[k].ts <= now /\ toServer[k] \in Frame
      BY <2>2
    <3>. QED
      BY <2>1, <3>1, FrameFields
  <2>3. ASSUME NEW k \in 1..Len(toClient), toClient[k].type = "ServerHello"
        PROVE  toClient[k].ts <= now' + skew
    <3>1. toClient[k].ts <= now + skew /\ toClient[k] \in Frame
      BY <2>3
    <3>. QED
      BY <1>1, <2>1, <3>1, FrameFields
  <2>. QED
    BY <1>1, <1>14, <2>1, <2>2, <2>3 DEF Tick
<1>15. CASE UNCHANGED vars
  BY <1>15 DEF vars
<1>. QED
  BY <1>2, <1>3, <1>4, <1>5, <1>6, <1>7, <1>8, <1>9, <1>10, <1>11, <1>12, <1>13,
     <1>14, <1>15 DEF Next, ClientSteps, ServerSteps

LEMMA Invariance == Spec => []Inv
<1>1. Inv /\ [Next]_vars => Inv'
  BY PlainTypeStep, EvidenceStep DEF Inv
<1>. QED
  BY <1>1, InitInv, PTL DEF Spec

\* The variables of client_handshake, server_handshake and the sockets between
\* them keep their types.
THEOREM TypeCorrect == Spec => []TypeOK
<1>1. Init => ClosedOK
  BY DEF Init, ClosedOK
<1>2. Inv /\ ClosedOK => TypeOK
  BY DEF Inv, PlainTypeOK, ClosedOK, TypeOK
<1>. QED
  BY <1>1, <1>2, ClosedType, Invariance, PTL DEF Spec

\* No session opens between clocks more than MAX_TIMESTAMP_DRIFT apart.
THEOREM SkewBounded == Spec => []SkewBound
<1>1. Inv => SkewBound
  BY TimeAssumption, AbsBound DEF Inv, PlainTypeOK, EvidenceInv, SkewBound, DriftOK
<1>. QED
  BY <1>1, Invariance, PTL

\* Every step of the two handshake functions is a step of SessionOpening or
\* invisible to their callers.
THEOREM HandshakeImplementsOpening == Spec => OpeningSpec
<1>1. Init => Opening!Init
  BY DEF Init, Opening!Init, Outcome, Side, Opening!Side
<1>2. Inv /\ [Next]_vars => [Opening!Next]_<<trusts, Outcome(client), Outcome(server)>>
  <2>. SUFFICES ASSUME Inv, [Next]_vars
                PROVE  [Opening!Next]_<<trusts, Outcome(client), Outcome(server)>>
    OBVIOUS
  <2>. USE DEF Outcome, settings
  <2>1. CASE SendHello \/ AnswerChallenge \/ SocketFreed \/ Accepted
             \/ SendChallenge \/ Tick \/ UNCHANGED vars
    BY <2>1 DEF SendHello, AnswerChallenge, SocketFreed, Accepted, SendChallenge,
       Tick, vars
  <2>2. CASE RefuseServer \/ ClientFails
    BY <2>2 DEF RefuseServer, ClientFails, ClientWaiting, Opening!Next, Opening!ClientEnds
  <2>3. CASE OpenSession
    <3>1. server = "session"
      BY <2>3, QueueFacts DEF OpenSession, Arrived, Inv, PlainTypeOK, EvidenceInv,
         ToClientMeans
    <3>. QED
      BY <2>3, <3>1 DEF OpenSession, Opening!Next, Opening!ClientEnds
  <2>4. CASE AcceptClient
    <3>1. trusts = Side
      <4>1. "client" \in trusts /\ "server" \in trusts
        BY <2>4, QueueFacts DEF AcceptClient, Arrived, Inv, PlainTypeOK, EvidenceInv,
           ToServerMeans
      <4>. QED
        BY <4>1 DEF Inv, PlainTypeOK, Side
    <3>. QED
      BY <2>4, <3>1 DEF AcceptClient, Opening!Next, Opening!ServerEnds, Opening!Side, Side
  <2>5. CASE RefuseHello \/ RefuseClient \/ ServerFails
    BY <2>5 DEF RefuseHello, RefuseClient, ServerFails, ServerWaiting,
       Opening!Next, Opening!ServerEnds
  <2>. QED
    BY <2>1, <2>2, <2>3, <2>4, <2>5 DEF Next, ClientSteps, ServerSteps
<1>. QED
  BY <1>1, <1>2, Invariance, PTL DEF Spec, OpeningSpec, Opening!Spec
=============================================================================
