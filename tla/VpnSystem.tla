------------------------------ MODULE VpnSystem ------------------------------
(***************************************************************************)
(* The tunnel client and the VPN server together.  The browser threads of  *)
(* one client (TunnelClient) and the handler threads of the server         *)
(* (VpnServer) run at the two ends of the client's connections.            *)
(*                                                                         *)
(* A connection bears the name of the handler thread that serves it.  The  *)
(* client works on one of them (conn) and may be opening another (dialled) *)
(* while handlers still work off those it has given up.  The steps of each *)
(* side are those of its own module; the steps in which the sides meet     *)
(* (connect, handshake, send, close) join one step of each.                *)
(***************************************************************************)
EXTENDS Naturals, Sequences, FiniteSets

CONSTANTS
  Browser, Handler,      \* the threads of the client and of the server
  ClientIp,              \* the address of the client
  NoSocket,              \* the client has no connection there
  Shut,                  \* a connection the server has closed
  NoThread, ErrorFrame, MaxRetries,                          \* TunnelClient
  NoIp, WhitelistFile, Garbage, Absent,                      \* VpnServer
  MaxPerIp, MaxTotal, IdleTimeout, Rate, Burst, Cost,        \* RateLimiter
  MaxClock, MaxInbox                                         \* bounds

ASSUME SocketAssumption ==
  NoSocket \notin Handler /\ Shut \notin Handler /\ NoSocket # Shut
ASSUME HandlerAssumption == IsFiniteSet(Handler)
ASSUME BrowserAssumption == NoThread \notin Browser /\ ErrorFrame \notin Browser
ASSUME RetriesAssumption == MaxRetries \in Nat \ {0}

\* A server with a cap of zero admits nobody: no client is ever connected to it.
ASSUME ServerAssumption ==
  /\ MaxPerIp \in Nat \ {0} /\ MaxTotal \in Nat \ {0}
  /\ Rate \in Nat /\ Burst \in Nat /\ Cost \in Nat \ {0}
  /\ IdleTimeout \in Nat /\ MaxClock \in Nat /\ MaxInbox \in Nat
  /\ NoIp # ClientIp
  /\ \A f \in WhitelistFile :
       f = Absent \/ f \subseteq (SUBSET {ClientIp}) \cup {Garbage}

VARIABLES
  \* The server.
  clock, connections, total, lastActivity, buckets, tokens, refilled, grants,
  whitelistFile, networks, hpc, ip, inbox, gone,
  \* The client.
  pc, attempt, result, lock,
  conn,      \* _sock: a handler, NoSocket or Shut
  dialled,   \* sock in the _do_connect that is under way, or NoSocket
  welcomed,  \* the server has completed the handshake on dialled
  down, upCut, downCut, poisoned,
  \* What is under way between them.
  reqs,      \* requests sent to a handler and not answered yet, in order
  ran,       \* the first of them has been carried out
  execs      \* how often a request has been carried out

serverVars == <<clock, connections, total, lastActivity, buckets, tokens,
                refilled, grants, whitelistFile, networks, hpc, ip, inbox, gone>>
threadVars == <<pc, attempt, result, lock>>
socketVars == <<conn, dialled, welcomed>>
wireVars == <<down, upCut, downCut, poisoned>>
workVars == <<reqs, ran, execs>>
clientVars == <<threadVars, socketVars, wireVars, workVars>>
vars == <<serverVars, clientVars>>

Server == INSTANCE VpnServer WITH Thread <- Handler, IP <- {ClientIp}, pc <- hpc

\* Requests of b carried out and neither answered nor given up yet.
Unsettled(b) == {h \in Handler : ran[h] /\ Head(reqs[h]) = b}

\* Connections the client has given up with a request of b on them.
LeftBehind(b) ==
  {h \in Handler \ {conn} : \E k \in 1..Len(reqs[h]) : reqs[h][k] = b}

\* The tunnel as its client sees it: a request counts as executed from when
\* the server answers it or closes the connection.
Tunnel == INSTANCE TunnelClient WITH
  Thread <- Browser,
  connected <- conn # NoSocket,
  hungUp <- conn = Shut,
  up <- IF conn \in Handler THEN reqs[conn] ELSE <<>>,
  stray <- [b \in Browser |-> Cardinality(LeftBehind(b))],
  execs <- [b \in Browser |-> execs[b] - Cardinality(Unsettled(b))]

\* The server has admitted a connection, and may have begun to leave it.
Established(h) == Server!Serving(h) \/ hpc[h] \in {"release", "close"}

\* Every variable keeps its type.  A connection in use is one that the server
\* has admitted and the client has not closed.
TypeOK ==
  /\ Server!TypeOK /\ Tunnel!TypeOK
  /\ conn \in Handler \cup {NoSocket, Shut}
  /\ conn \in Handler => Established(conn) /\ ~gone[conn]
  /\ dialled \in Handler \cup {NoSocket, Shut}
  /\ welcomed \in BOOLEAN
  /\ reqs \in [Handler -> Seq(Browser)]
  /\ ran \in [Handler -> BOOLEAN]

\* The proxy starts its browser threads after a successful connect().
Init ==
  /\ clock = 0
  /\ conn \in Handler
  /\ connections = [i \in {ClientIp} |-> 1] /\ total = 1
  /\ lastActivity = [i \in {ClientIp} |-> 0]
  /\ buckets = {}
  /\ tokens = [i \in {ClientIp} |-> 0]
  /\ refilled = [i \in {ClientIp} |-> 0]
  /\ grants = [i \in {ClientIp} |-> <<>>]
  /\ whitelistFile \in WhitelistFile
  /\ networks = Server!Loaded(whitelistFile)
  /\ Server!IsAllowed(ClientIp)
  /\ hpc = [h \in Handler |-> IF h = conn THEN "loop" ELSE "free"]
  /\ ip = [h \in Handler |-> IF h = conn THEN ClientIp ELSE NoIp]
  /\ inbox = [h \in Handler |-> <<>>]
  /\ gone = [h \in Handler |-> FALSE]
  /\ dialled = NoSocket /\ welcomed = FALSE
  /\ reqs = [h \in Handler |-> <<>>]
  /\ ran = [h \in Handler |-> FALSE]
  /\ execs = [b \in Browser |-> 0]
  /\ Tunnel!Init

(***************************************************************************)
(* The client: steps that concern no handler.                              *)
(***************************************************************************)
Alone(b) ==
  /\ UNCHANGED <<serverVars, socketVars, reqs, ran, execs>>
  /\ \/ Tunnel!Call(b) \/ Tunnel!Acquire(b) \/ Tunnel!Backoff(b)
     \/ Tunnel!SendFails(b) \/ Tunnel!Receive(b)

(***************************************************************************)
(* _do_connect: the socket is opened, then the handshake is run on it.     *)
(***************************************************************************)
ConnectSocket(b) ==
  /\ pc[b] \in {"dial", "redial"} /\ dialled = NoSocket
  /\ \E h \in Handler : Server!Accept(h, ClientIp) /\ dialled' = h
  /\ UNCHANGED <<threadVars, conn, welcomed, wireVars, workVars>>

\* The handler sends ServerDone, whether or not the client still waits for it.
HandshakeOk(h) ==
  /\ Server!HandshakeOk(h)
  /\ welcomed' = (welcomed \/ h = dialled)
  /\ UNCHANGED <<threadVars, conn, dialled, wireVars, workVars>>

\* The socket is taken into use without waiting for ServerDone.
ConnectedEarly(b) ==
  /\ dialled # NoSocket
  /\ conn' = dialled /\ dialled' = NoSocket /\ welcomed' = FALSE
  /\ UNCHANGED <<serverVars, reqs, ran, execs>>
  /\ Tunnel!DialOk(b) \/ Tunnel!RedialOk(b)

\* The client has ServerDone; the server may even have closed since.
Connected(b) ==
  /\ welcomed
  /\ conn' = dialled /\ dialled' = NoSocket /\ welcomed' = FALSE
  /\ UNCHANGED <<serverVars, reqs, ran, execs>>
  /\ Tunnel!DialOk(b) \/ Tunnel!RedialOk(b)

\* Refused, closed, too late or not the right keys.  Nothing closes the socket
\* that _do_connect drops.
ConnectFails(b) ==
  /\ dialled' = NoSocket /\ welcomed' = FALSE
  /\ UNCHANGED <<serverVars, conn, reqs, ran, execs>>
  /\ Tunnel!DialFails(b) \/ Tunnel!RedialFails(b)

\* It is closed when the interpreter frees it: at once, or, as last_err keeps
\* the frame of the failed attempt, with a later one or by garbage collection.
FreeSocket(h) ==
  /\ h \notin {conn, dialled}
  /\ Server!PeerClose(h)
  /\ UNCHANGED clientVars

(***************************************************************************)
(* Requests and the end of a connection.                                   *)
(***************************************************************************)
\* What a handler still reads goes to its inbox.  A frame behind one that was
\* cut short makes no sense to it.
SendOk(b) ==
  /\ IF conn \in Handler /\ Server!Serving(conn)
     THEN Server!PeerSend(conn, IF upCut THEN "corrupt" ELSE "request")
     ELSE UNCHANGED serverVars
  /\ reqs' = IF conn \in Handler /\ ~upCut
             THEN [reqs EXCEPT ![conn] = Append(@, b)] ELSE reqs
  /\ UNCHANGED <<socketVars, ran, execs>>
  /\ Tunnel!SendOk(b)

\* _close_socket, called by a thread that reconnects or by close().
Abandon ==
  /\ IF conn \in Handler /\ hpc[conn] # "close"
     THEN Server!PeerClose(conn) ELSE UNCHANGED serverVars
  /\ conn' = NoSocket
  /\ UNCHANGED <<dialled, welcomed, reqs, ran, execs>>

\* The old connection is kept until a new one can take its place.
GiveUpKeepsSocket(b) ==
  /\ pc[b] = "failed" /\ lock = NoThread
  /\ lock' = b
  /\ pc' = [pc EXCEPT ![b] = "redial"]
  /\ UNCHANGED <<serverVars, attempt, result, socketVars, wireVars, workVars>>

GiveUp(b) == Abandon /\ Tunnel!Reacquire(b)

CloseTunnel == Abandon /\ Tunnel!Close

(***************************************************************************)
(* The server: steps that concern no client.                               *)
(***************************************************************************)
HandleAlone(h) ==
  /\ \/ Server!CheckAccess(h) \/ Server!Admit(h) \/ Server!Deny(h)
     \/ Server!HandshakeFails(h) \/ Server!CheckIdle(h)
     \/ Server!RecvRequest(h) \/ Server!RecvCorrupt(h)
     \/ Server!RecvDisconnect(h) \/ Server!RecvTimeout(h)
     \/ Server!CheckRate(h) \/ Server!TakeToken(h)
     \/ Server!SendFails(h) \/ Server!Release(h)
  /\ UNCHANGED clientVars

\* The address was idle for too long; how long is not counted in this module.
DropIdle(h) ==
  /\ Server!Step(h, "loop", "release")
  /\ UNCHANGED <<clock, connections, total, lastActivity, buckets, tokens, refilled,
                 grants, whitelistFile, networks, ip, inbox, gone, clientVars>>

(***************************************************************************)
(* forward_request, the answer, and the server's close.                    *)
(***************************************************************************)
Forward(h) ==
  /\ Server!Forward(h)
  /\ ran' = [ran EXCEPT ![h] = TRUE]
  /\ execs' = [execs EXCEPT ![Head(reqs[h])] = @ + 1]
  /\ UNCHANGED <<threadVars, socketVars, wireVars, reqs>>

Answer(h) == IF hpc[h] = "reply" THEN Head(reqs[h]) ELSE ErrorFrame

\* The error response of a failed forward goes out, and then the reply as well.
ReplyTwice(h) ==
  /\ Server!SendOk(h)
  /\ reqs' = [reqs EXCEPT ![h] = Tail(@)]
  /\ ran' = [ran EXCEPT ![h] = FALSE]
  /\ down' = IF h = conn THEN down \o <<Answer(h), Answer(h)>> ELSE down
  /\ UNCHANGED <<threadVars, socketVars, upCut, downCut, poisoned, execs>>

\* The reply, or the ERROR frame of a request over the rate limit.
Reply(h) ==
  /\ Server!SendOk(h)
  /\ reqs' = [reqs EXCEPT ![h] = Tail(@)]
  /\ ran' = [ran EXCEPT ![h] = FALSE]
  /\ down' = IF h = conn THEN Append(down, Answer(h)) ELSE down
  /\ UNCHANGED <<threadVars, socketVars, upCut, downCut, poisoned, execs>>

AfterClose(h, socket) == IF socket = h THEN Shut ELSE socket

Close(h) ==
  /\ Server!Close(h)
  /\ reqs' = [reqs EXCEPT ![h] = <<>>]
  /\ ran' = [ran EXCEPT ![h] = FALSE]
  /\ conn' = AfterClose(h, conn) /\ dialled' = AfterClose(h, dialled)
  /\ UNCHANGED <<threadVars, welcomed, wireVars, execs>>

(***************************************************************************)
(* The specification.                                                      *)
(***************************************************************************)
Client(b) == \/ Alone(b) \/ ConnectSocket(b) \/ Connected(b) \/ ConnectFails(b)
             \/ SendOk(b) \/ GiveUp(b)

Handle(h) == HandleAlone(h) \/ DropIdle(h) \/ HandshakeOk(h) \/ Reply(h) \/ Close(h)

Next == \/ \E b \in Browser : Client(b)
        \/ \E h \in Handler : Handle(h) \/ Forward(h) \/ FreeSocket(h)
        \/ CloseTunnel

Spec == Init /\ [][Next]_vars

\* As in VpnServer: a handler runs until it blocks, and every blocking call of it
\* has a timeout except that of a forward.  Every step of Handle changes hpc.
\* Nothing is assumed of the client.
Fairness == \A h \in Handler : WF_hpc(Handle(h))

FairSpec == Spec /\ Fairness

(***************************************************************************)
(* Properties.                                                             *)
(***************************************************************************)
\* Between it and its client, the server does nothing that TunnelClient does not
\* allow the other end of a tunnel: whatever handlers still work off connections
\* given up, each request is answered once, in order, on its own connection, or
\* the connection ends.  What holds of TunnelClient holds of the whole system.
TunnelSpec == Tunnel!Spec

\* When the server refuses the client another connection, the slots are held by
\* connections the client has given up, never by one it still works on.
DeniedOnlyByLeftovers ==
  [][\A h \in Handler : hpc[h] = "admit" /\ hpc'[h] = "close" /\ h = dialled
       => Server!Holders # {} /\ conn \notin Server!Holders]_vars

\* However often the client replaces its connection, and whatever the handlers of
\* those it has given up still find there, the target sees a request no more often
\* than the client has attempted it.
NoMoreThanAttempted == \A b \in Browser : execs[b] <= attempt[b]

\* Sockets left open after failed attempts, reconnections after ERROR frames and
\* retries exhaust the caps of the client only for a while: unless a forward
\* goes on for ever, a slot is free again and again, whatever the client does.
CapRecovers ==
  (\A h \in Handler : []<>(hpc[h] # "forward"))
    => []<>(Server!BelowCaps(ClientIp))
=============================================================================
