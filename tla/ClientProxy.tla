------------------------------ MODULE ClientProxy ------------------------------
(***************************************************************************)
(* client/client_proxy.py: one browser connection of the local proxy, from *)
(* handle_browser on, with what its requests do at the server.             *)
(*                                                                         *)
(*   first -> http ---------------------------------> closed               *)
(*   first -> connect -> loop -> relay -> deliver -> loop ... -> closed    *)
(*                                                                         *)
(* http, connect and relay are inside TunnelClient.send_request, which     *)
(* makes up to MaxRetries attempts.  An attempt that fails may have been   *)
(* carried out already, or be carried out late (module TunnelClient).      *)
(* The server's part of CONNECT and RELAY is one step here; how the        *)
(* handlers of several streams interleave is the subject of Forwarder.     *)
(***************************************************************************)
EXTENDS Naturals, SequencesExt

CONSTANTS
  MaxRetries,  \* max_retries of the tunnel
  MaxUp,       \* bound: chunks the browser sends after its request
  MaxDown,     \* bound: chunks the target sends on a connection
  MaxDials     \* bound: connections the server makes to the target

ASSUME BoundsAssumption ==
  /\ MaxRetries \in Nat \ {0} /\ MaxDials \in Nat \ {0}
  /\ MaxUp \in Nat /\ MaxDown \in Nat

VARIABLES
  pc,          \* where the thread of the browser connection is
  attempt,     \* the attempt of send_request
  reply,       \* what send_request returned: body and closed
  browserEof,  \* the browser has closed its end
  written,     \* chunks the browser has sent
  read,        \* chunks recv returned to the proxy
  browserGot,  \* the bytes the browser got after the 200, as items
  dials,       \* connections the server made for this stream
  session,     \* the one RELAYs use, 0 for none
  targetGot,   \* the chunks the target got on a connection
  targetEof,   \* connections the target has ended
  down,        \* chunks the target has sent on a connection
  taken,       \* chunks the server has read from it
  stray,       \* requests of failed attempts that may still be carried out
  spoiled      \* history: what has happened to the stream

proxyVars == <<pc, attempt, reply>>
browserVars == <<browserEof, written, read, browserGot>>
serverVars == <<dials, session, targetGot, taken>>
targetVars == <<targetEof, down>>
vars == <<proxyVars, browserVars, serverVars, targetVars, stray, spoiled>>

Dial == 1..MaxDials
Label == {"first", "http", "connect", "loop", "relay", "deliver", "closed"}

\* A request of the stream: the CONNECT, or the RELAY of a chunk.
CONNECT == 0
Request == 0..MaxUp

\* The n-th chunk of a connection, and the page of an error response.
Page == <<0, 0>>
Item == {Page} \cup (Dial \X (1..MaxDown))

Incident == {"short write", "error page", "retry"}

TypeOK ==
  /\ pc \in Label
  /\ attempt \in 1..MaxRetries
  /\ reply \in [body : Seq(Item), closed : BOOLEAN]
  /\ browserEof \in BOOLEAN
  /\ written \in 0..MaxUp /\ read \in 0..written
  /\ browserGot \in Seq(Item)
  /\ dials \in 0..MaxDials /\ session \in 0..dials
  /\ targetGot \in [Dial -> Seq(1..read)]
  /\ targetEof \in SUBSET Dial
  /\ down \in [Dial -> 0..MaxDown]
  /\ \A d \in Dial : taken[d] \in 0..down[d]
  /\ stray \in SUBSET Request
  /\ spoiled \in SUBSET Incident

NoReply == [body |-> <<>>, closed |-> FALSE]

Init ==
  /\ pc = "first" /\ attempt = 1 /\ reply = NoReply
  /\ browserEof = FALSE /\ written = 0 /\ read = 0 /\ browserGot = <<>>
  /\ dials = 0 /\ session = 0
  /\ targetGot = [d \in Dial |-> <<>>]
  /\ targetEof = {}
  /\ down = [d \in Dial |-> 0] /\ taken = [d \in Dial |-> 0]
  /\ stray = {} /\ spoiled = {}

(***************************************************************************)
(* What the server does with a request, and what it answers.               *)
(***************************************************************************)
\* _handle_connect: a refused CONNECT is answered with an error page.
Execute(q, answer) ==
  \/ /\ q = CONNECT /\ dials < MaxDials
     /\ dials' = dials + 1 /\ session' = dials + 1
     /\ answer = NoReply
     /\ UNCHANGED <<targetGot, taken>>
  \/ /\ q = CONNECT
     /\ answer = [body |-> <<Page>>, closed |-> FALSE]
     /\ UNCHANGED serverVars
  \* _handle_relay, without a session.
  \/ /\ q # CONNECT /\ session = 0
     /\ answer = [body |-> <<Page>>, closed |-> FALSE]
     /\ UNCHANGED serverVars
  \* The data goes out; whatever the target has sent by now comes back, and
  \* the end of the stream ends the session.
  \/ /\ q # CONNECT /\ session # 0
     /\ targetGot' = [targetGot EXCEPT ![session] = Append(@, q)]
     /\ \E n \in taken[session]..down[session], eof \in BOOLEAN :
          /\ eof => session \in targetEof /\ n = down[session]
          /\ taken' = [taken EXCEPT ![session] = n]
          /\ answer = [body |-> [k \in 1..(n - taken[session]) |->
                                   <<session, taken[session] + k>>],
                       closed |-> eof]
          /\ session' = IF eof THEN 0 ELSE session
     /\ UNCHANGED dials
  \* sendall raises.
  \/ /\ q # CONNECT /\ session # 0
     /\ session' = 0
     /\ answer = [body |-> <<Page>>, closed |-> FALSE]
     /\ UNCHANGED <<dials, targetGot, taken>>

Answer == [body : {<<Page>>} \cup {[k \in 1..n |-> <<d, m + k>>] :
                     d \in Dial, m \in 0..MaxDown, n \in 0..MaxDown},
           closed : BOOLEAN]

(***************************************************************************)
(* TunnelClient.send_request for the request q; it returns by going to     *)
(* next and raises by closing the browser connection.                      *)
(***************************************************************************)
Executed(q) == \E answer \in Answer : Execute(q, answer)

AttemptFailsUnbounded(q, giveUp) ==
  /\ \/ Executed(q) /\ UNCHANGED stray
     \/ UNCHANGED <<serverVars, stray>>
     \/ stray' = stray \cup {q} /\ UNCHANGED serverVars
  /\ spoiled' = spoiled \cup {"retry"}
  /\ IF attempt <= MaxRetries
     THEN attempt' = attempt + 1 /\ UNCHANGED pc
     ELSE attempt' = 1 /\ pc' = giveUp
  /\ UNCHANGED <<reply, browserVars, targetVars>>

\* The attempt fails after the request was carried out, before, or meanwhile.
AttemptFails(q, giveUp) ==
  /\ \/ Executed(q) /\ UNCHANGED stray
     \/ UNCHANGED <<serverVars, stray>>
     \/ stray' = stray \cup {q} /\ UNCHANGED serverVars
  /\ spoiled' = spoiled \cup {"retry"}
  /\ IF attempt < MaxRetries
     THEN attempt' = attempt + 1 /\ UNCHANGED pc
     ELSE attempt' = 1 /\ pc' = giveUp
  /\ UNCHANGED <<reply, browserVars, targetVars>>

(***************************************************************************)
(* handle_browser and _handle_http_request.                                *)
(***************************************************************************)
\* Nothing, or nothing that looks like a request.
FirstMalformed ==
  /\ pc = "first"
  /\ pc' = "closed"
  /\ UNCHANGED <<attempt, reply, browserVars, serverVars, targetVars, stray, spoiled>>

FirstHttp ==
  /\ pc = "first"
  /\ pc' = "http"
  /\ UNCHANGED <<attempt, reply, browserVars, serverVars, targetVars, stray, spoiled>>

\* The response of the target or the 502 page, and the connection is closed.
AnswerHttp ==
  /\ pc = "http"
  /\ pc' = "closed"
  /\ UNCHANGED <<attempt, reply, browserVars, serverVars, targetVars, stray, spoiled>>

(***************************************************************************)
(* _handle_connect.                                                        *)
(***************************************************************************)
\* "200 Connection Established" goes out before the server is asked.
FirstConnect ==
  /\ pc = "first"
  /\ pc' \in {"connect", "closed"}
  /\ UNCHANGED <<attempt, reply, browserVars, serverVars, targetVars, stray, spoiled>>

ConnectAnswered ==
  /\ pc = "connect"
  /\ \E answer \in Answer :
       /\ Execute(CONNECT, answer)
       /\ pc' = IF answer.body = <<>> THEN "loop" ELSE "closed"
  /\ attempt' = 1
  /\ UNCHANGED <<reply, browserVars, targetVars, stray, spoiled>>

ConnectFails == pc = "connect" /\ AttemptFails(CONNECT, "closed")

ReadLatest ==
  /\ pc = "loop" /\ read < written
  /\ pc' = "relay"
  /\ read' = written
  /\ UNCHANGED <<attempt, reply, browserEof, written, browserGot, serverVars, targetVars,
                 stray, spoiled>>

\* The browser socket does not block: with nothing to read the loop spins.
ReadChunk ==
  /\ pc = "loop" /\ read < written
  /\ pc' = "relay"
  /\ read' = read + 1
  /\ UNCHANGED <<attempt, reply, browserEof, written, browserGot, serverVars, targetVars,
                 stray, spoiled>>

ReadEofIgnored == FALSE /\ UNCHANGED vars

\* recv returns nothing, or raises: a reset may take chunks with it.
ReadEof ==
  /\ pc = "loop" /\ browserEof
  /\ pc' = "closed"
  /\ UNCHANGED <<attempt, reply, browserVars, serverVars, targetVars, stray, spoiled>>

RelayAnswered ==
  /\ pc = "relay"
  /\ \E answer \in Answer :
       /\ Execute(read, answer)
       /\ reply' = answer
       /\ spoiled' = IF Page \in Range(answer.body)
                     THEN spoiled \cup {"error page"} ELSE spoiled
  /\ pc' = "deliver" /\ attempt' = 1
  /\ UNCHANGED <<browserVars, targetVars, stray>>

RelayFailsAndGoesOn == pc = "relay" /\ AttemptFails(read, "loop")

RelayFails == pc = "relay" /\ AttemptFails(read, "closed")

DeliverAll ==
  /\ pc = "deliver"
  /\ browserGot' = browserGot \o reply.body
  /\ reply' = NoReply
  /\ pc' = IF reply.closed THEN "closed" ELSE "loop"
  /\ UNCHANGED <<attempt, browserEof, written, read, serverVars, targetVars, stray, spoiled>>

\* sendall does not block either: when the browser is slow it writes a part
\* and raises BlockingIOError, and the loop goes on past the closed flag.
DeliverPart ==
  /\ pc = "deliver" /\ reply.body # <<>>
  /\ \E n \in 0..(Len(reply.body) - 1) :
       browserGot' = browserGot \o SubSeq(reply.body, 1, n)
  /\ spoiled' = spoiled \cup {"short write"}
  /\ reply' = NoReply
  /\ pc' = "loop"
  /\ UNCHANGED <<attempt, browserEof, written, read, serverVars, targetVars, stray>>

\* The browser has reset the connection.
DeliverFails ==
  /\ pc = "deliver" /\ browserEof
  /\ pc' = "closed"
  /\ UNCHANGED <<attempt, reply, browserVars, serverVars, targetVars, stray, spoiled>>

(***************************************************************************)
(* The environment: the browser, the target, a late handler thread.        *)
(***************************************************************************)
BrowserWrites ==
  /\ pc # "closed" /\ ~browserEof /\ written < MaxUp
  /\ written' = written + 1
  /\ UNCHANGED <<proxyVars, browserEof, read, browserGot, serverVars, targetVars,
                 stray, spoiled>>

BrowserCloses ==
  /\ ~browserEof
  /\ browserEof' = TRUE
  /\ UNCHANGED <<proxyVars, written, read, browserGot, serverVars, targetVars,
                 stray, spoiled>>

TargetWrites(d) ==
  /\ d <= dials /\ d \notin targetEof /\ down[d] < MaxDown
  /\ down' = [down EXCEPT ![d] = @ + 1]
  /\ UNCHANGED <<proxyVars, browserVars, serverVars, targetEof, stray, spoiled>>

TargetCloses(d) ==
  /\ d <= dials /\ d \notin targetEof
  /\ targetEof' = targetEof \cup {d}
  /\ UNCHANGED <<proxyVars, browserVars, serverVars, down, stray, spoiled>>

\* The answer of a late request goes to a connection the client has closed.
LateRequest(q) ==
  /\ q \in stray
  /\ stray' = stray \ {q}
  /\ Executed(q)
  /\ UNCHANGED <<proxyVars, browserVars, targetVars, spoiled>>

Proxy == \/ FirstHttp \/ FirstConnect \/ FirstMalformed \/ AnswerHttp
         \/ ConnectAnswered \/ ConnectFails
         \/ ReadChunk \/ ReadEof \/ RelayAnswered \/ RelayFails
         \/ DeliverAll \/ DeliverPart \/ DeliverFails

Environment == \/ BrowserWrites \/ BrowserCloses
               \/ \E d \in Dial : TargetWrites(d) \/ TargetCloses(d)
               \/ \E q \in Request : LateRequest(q)

Next == Proxy \/ Environment

Spec == Init /\ [][Next]_vars

\* The thread runs, and every attempt ends: socket calls in it have timeouts.
FairSpec == Spec /\ WF_vars(Proxy)

(***************************************************************************)
(* Properties.                                                             *)
(***************************************************************************)
IsSegment(s) == s = [k \in 1..Len(s) |-> k]

\* The bytes of the stream survive both ways, in order and without a gap,
\* unless one of three things happened to it: a short write to the browser, an
\* error page for a RELAY, or a second attempt at a request.
StreamIntact ==
  spoiled = {} =>
    /\ dials <= 1
    /\ IsSegment(targetGot[1])
    /\ browserGot \o reply.body = [k \in 1..taken[1] |-> <<1, k>>]

\* Repeated and late requests may give the target a chunk twice or out of
\* order, but on the connection the stream started with it never gets one
\* before it got every earlier one.
NoGapAtTarget ==
  \A j \in 1..Len(targetGot[1]) : \A k \in 1..(targetGot[1][j] - 1) :
    \E i \in 1..(j - 1) : targetGot[1][i] = k

\* The thread of a browser connection ends once the browser has closed it: the
\* loop that spins on an idle browser notices.
ThreadEnds == browserEof ~> pc = "closed"

(***************************************************************************)
(* What client_proxy.py says of _handle_connect (line 67): it is a         *)
(* bidirectional byte-level tunnel.                                        *)
(***************************************************************************)
\* The browser gets the bytes the target sent and no others.
OnlyTargetBytes ==
  \E d \in Dial : \E n \in 0..MaxDown : browserGot = [k \in 1..n |-> <<d, k>>]
================================================================================
