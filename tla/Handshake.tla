------------------------------ MODULE Handshake ------------------------------
(***************************************************************************)
(* auth/handshake.py: client_handshake and server_handshake at the ends of *)
(* one connection.                                                         *)
(*                                                                         *)
(*   client  start -> hello_sent -> response_sent -> session               *)
(*   server  backlog -> await_hello -> await_response -> session           *)
(*                                                                         *)
(* and either may end in failed.  Nonces, challenges, signatures and the   *)
(* session key are abstracted to whether each side has the key of the      *)
(* other; timestamps and timeouts are kept.  The client reads the true     *)
(* time and the server's clock is off by skew.  A frame is received whole  *)
(* or not at all, so the timeout of each recv() is that of each frame.     *)
(***************************************************************************)
EXTENDS Integers, Sequences

CONSTANTS
  Skew,      \* the skews to consider
  MaxDrift,  \* MAX_TIMESTAMP_DRIFT
  Timeout,   \* HANDSHAKE_TIMEOUT
  MaxTime    \* bound: time stops here

ASSUME TimeAssumption ==
  Skew \subseteq Int /\ MaxDrift \in Nat /\ Timeout \in Nat /\ MaxTime \in Nat

VARIABLES
  now,         \* the time
  skew,        \* the server's clock minus the client's
  trusts,      \* the sides whose copy of the other side's key is the right one
  client,      \* where client_handshake is
  server,      \* where server_handshake is
  toServer,    \* frames on their way to the server
  toClient,    \* frames on their way to the client
  closed,      \* the client's socket is closed
  clientWait,  \* when the client's current recv_frame began
  serverWait   \* when the server's current recv_frame began

settings == <<skew, trusts>>
timers == <<clientWait, serverWait>>
vars == <<now, settings, client, server, toServer, toClient, closed, timers>>

Side == {"client", "server"}
ClientLabel == {"start", "hello_sent", "response_sent", "session", "failed"}
ServerLabel == {"backlog", "await_hello", "await_response", "session", "failed"}

\* A frame is its type and the timestamp it carries, if it carries one.
FrameType == {"ClientHello", "ServerHello", "ClientResponse", "ServerDone", "ERROR"}
Frame == [type : FrameType, ts : Int]

TypeOK ==
  /\ now \in 0..MaxTime
  /\ skew \in Skew
  /\ trusts \in SUBSET Side
  /\ client \in ClientLabel
  /\ server \in ServerLabel
  /\ toServer \in Seq(Frame)
  /\ toClient \in Seq(Frame)
  /\ closed \in BOOLEAN
  /\ clientWait \in 0..now /\ serverWait \in 0..now

Init ==
  /\ now = 0
  /\ skew \in Skew
  /\ trusts \in SUBSET Side
  /\ client = "start"
  /\ server = "backlog"
  /\ toServer = <<>> /\ toClient = <<>>
  /\ closed = FALSE
  /\ clientWait = 0 /\ serverWait = 0

Abs(n) == IF n < 0 THEN -n ELSE n

Msg(type, ts) == [type |-> type, ts |-> ts]

\* The next frame for a side, once it has arrived whole.
Arrived(queue, type) == queue # <<>> /\ Head(queue).type = type

ServerClock == now + skew

FreshForServer(ts) == Abs(ServerClock - ts) <= MaxDrift

FreshForClientAlways(ts) == TRUE

FreshForClient(ts) == Abs(now - ts) <= MaxDrift

ClientWaiting == client \in {"hello_sent", "response_sent"}
ServerWaiting == server \in {"await_hello", "await_response"}

(***************************************************************************)
(* client_handshake.                                                       *)
(***************************************************************************)
SendHello ==
  /\ client = "start"
  /\ client' = "hello_sent"
  /\ toServer' = Append(toServer, Msg("ClientHello", now))
  /\ clientWait' = now
  /\ UNCHANGED <<now, settings, server, toClient, closed, serverWait>>

\* ServerHello is fresh and signed by the server: answer the challenge.
AnswerChallenge ==
  /\ client = "hello_sent" /\ Arrived(toClient, "ServerHello")
  /\ FreshForClient(Head(toClient).ts) /\ "client" \in trusts
  /\ client' = "response_sent"
  /\ toClient' = Tail(toClient)
  /\ toServer' = Append(toServer, Msg("ClientResponse", 0))
  /\ clientWait' = now
  /\ UNCHANGED <<now, settings, server, closed, serverWait>>

RefuseServer ==
  /\ client = "hello_sent" /\ Arrived(toClient, "ServerHello")
  /\ ~FreshForClient(Head(toClient).ts) \/ "client" \notin trusts
  /\ client' = "failed"
  /\ toClient' = Tail(toClient)
  /\ UNCHANGED <<now, settings, server, toServer, closed, timers>>

\* The session key decrypts: it was made for the key the server trusts.
OpenSession ==
  /\ client = "response_sent" /\ Arrived(toClient, "ServerDone")
  /\ client' = "session"
  /\ toClient' = Tail(toClient)
  /\ UNCHANGED <<now, settings, server, toServer, closed, timers>>

\* An ERROR frame, the end of the stream, a timeout, or a send that fails
\* because the server has closed.  A frame under way at the timeout is late.
ClientFails ==
  /\ ClientWaiting
  /\ \/ Arrived(toClient, "ERROR")
     \/ server = "failed"
     \/ now - clientWait >= Timeout
  /\ client' = "failed"
  /\ UNCHANGED <<now, settings, server, toServer, toClient, closed, timers>>

\* _do_connect drops the socket without closing it: it closes when the last
\* reference goes, which the exception that is being handled may still hold.
SocketFreed ==
  /\ client = "failed" /\ ~closed
  /\ closed' = TRUE
  /\ UNCHANGED <<now, settings, client, server, toServer, toClient, timers>>

(***************************************************************************)
(* server_handshake; when it raises, handle_client closes the socket.      *)
(***************************************************************************)
AcceptedWithDeadline ==
  /\ server = "backlog" /\ client # "start"
  /\ server' = "await_hello"
  /\ serverWait' = now + Timeout
  /\ UNCHANGED <<now, settings, client, toServer, toClient, closed, clientWait>>

Accepted ==
  /\ server = "backlog" /\ client # "start"
  /\ server' = "await_hello"
  /\ serverWait' = now
  /\ UNCHANGED <<now, settings, client, toServer, toClient, closed, clientWait>>

SendChallenge ==
  /\ server = "await_hello" /\ Arrived(toServer, "ClientHello")
  /\ FreshForServer(Head(toServer).ts)
  /\ server' = "await_response"
  /\ toServer' = Tail(toServer)
  /\ toClient' = Append(toClient, Msg("ServerHello", ServerClock))
  /\ serverWait' = now
  /\ UNCHANGED <<now, settings, client, closed, clientWait>>

RefuseHello ==
  /\ server = "await_hello" /\ Arrived(toServer, "ClientHello")
  /\ ~FreshForServer(Head(toServer).ts)
  /\ server' = "failed"
  /\ toServer' = Tail(toServer)
  /\ toClient' = Append(toClient, Msg("ERROR", 0))
  /\ UNCHANGED <<now, settings, client, closed, timers>>

AcceptUnsigned ==
  /\ server = "await_response" /\ Arrived(toServer, "ClientResponse")
  /\ server' = "session"
  /\ toServer' = Tail(toServer)
  /\ toClient' = Append(toClient, Msg("ServerDone", 0))
  /\ UNCHANGED <<now, settings, client, closed, timers>>

\* The client's signature holds: make a session and send its key.
AcceptClient ==
  /\ server = "await_response" /\ Arrived(toServer, "ClientResponse")
  /\ "server" \in trusts
  /\ server' = "session"
  /\ toServer' = Tail(toServer)
  /\ toClient' = Append(toClient, Msg("ServerDone", 0))
  /\ UNCHANGED <<now, settings, client, closed, timers>>

RefuseClient ==
  /\ server = "await_response" /\ Arrived(toServer, "ClientResponse")
  /\ "server" \notin trusts
  /\ server' = "failed"
  /\ toServer' = Tail(toServer)
  /\ toClient' = Append(toClient, Msg("ERROR", 0))
  /\ UNCHANGED <<now, settings, client, closed, timers>>

ServerFailsOnlyOnClose ==
  /\ ServerWaiting /\ closed
  /\ server' = "failed"
  /\ UNCHANGED <<now, settings, client, toServer, toClient, closed, timers>>

\* The client has gone (read or write), or the wait for a frame is over.
ServerFails ==
  /\ ServerWaiting
  /\ closed \/ now - serverWait >= Timeout
  /\ server' = "failed"
  /\ UNCHANGED <<now, settings, client, toServer, toClient, closed, timers>>

(***************************************************************************)
(* Time passes while nobody is past the timeout of its recv; nothing that  *)
(* blocks comes between connect and the server's first recv.               *)
(***************************************************************************)
Tick ==
  /\ now < MaxTime /\ client # "start"
  /\ server = "backlog" => now < Timeout
  /\ ClientWaiting => now - clientWait < Timeout
  /\ ServerWaiting => now - serverWait < Timeout
  /\ now' = now + 1
  /\ UNCHANGED <<settings, client, server, toServer, toClient, closed, timers>>

ClientSteps == \/ SendHello \/ AnswerChallenge \/ RefuseServer \/ OpenSession
               \/ ClientFails
ServerSteps == \/ Accepted \/ SendChallenge \/ RefuseHello
               \/ AcceptClient \/ RefuseClient \/ ServerFails

Next == ClientSteps \/ ServerSteps \/ SocketFreed \/ Tick

Spec == Init /\ [][Next]_vars

\* Both sides run, the server accepts, and time passes; when the socket of a
\* failed client is freed is left open.
FairSpec == Spec /\ WF_vars(ClientSteps) /\ WF_vars(ServerSteps) /\ WF_vars(Tick)

(***************************************************************************)
(* Properties.                                                             *)
(***************************************************************************)
\* Neither side's abs() check alone bounds the skew: the delay of the frame it
\* looks at counts for it on one side and against it on the other.  Together
\* they do: no session opens between clocks more than MAX_TIMESTAMP_DRIFT apart.
SkewBound ==
  server = "session" \/ client \in {"response_sent", "session"}
    => Abs(skew) <= MaxDrift

Outcome(place) == IF place \in {"session", "failed"} THEN place ELSE "pending"

Opening == INSTANCE SessionOpening WITH client <- Outcome(client),
                                        server <- Outcome(server)

\* What TunnelClient and VpnServer make of the handshake is right: each end
\* returns or raises once, and the client has a session only after the server
\* opened it, both having proved the key the other one holds.
OpeningSpec == Opening!Spec

\* Both calls come to an end, whichever side gives up first and even if the
\* socket of a client that has given up stays open.
HandshakeEnds ==
  /\ client = "hello_sent" ~> client \in {"session", "failed"}
  /\ server = "await_hello" ~> server \in {"session", "failed"}
=============================================================================
