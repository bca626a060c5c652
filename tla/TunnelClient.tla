----------------------------- MODULE TunnelClient -----------------------------
(***************************************************************************)
(* client/tunnel_client.py: the browser threads of the local proxy share   *)
(* one authenticated connection to the VPN server.  A thread runs one call *)
(* of send_request, for the request that bears its name:                   *)
(*                                                                         *)
(*   want -> [dial ->] send -> recv -> done                                *)
(*             and from dial, send and recv on an exception                *)
(*   failed -> redial -> backoff -> want ... or raised                     *)
(*                                                                         *)
(* dial, send and recv are inside the `with self._lock` of _do_request,    *)
(* redial inside the one of the except clause.  The lock is free while a   *)
(* thread is at failed, and the connection it gave up is still in place.   *)
(*                                                                         *)
(* The server is seen through the connection: it answers each request in   *)
(* turn with its response or, over the rate limit, with an ERROR frame; it *)
(* may be slower than the client's timeout and may close at any time.      *)
(* The handshake inside _do_connect is one step that succeeds or fails.    *)
(***************************************************************************)
EXTENDS Naturals, Sequences, FiniteSets

CONSTANTS
  Thread,      \* browser threads, and the requests they send
  NoThread,    \* the owner of a free lock
  ErrorFrame,  \* the ERROR frame of the server
  MaxRetries   \* max_retries

ASSUME NamesAssumption == NoThread \notin Thread /\ ErrorFrame \notin Thread
ASSUME RetriesAssumption == MaxRetries \in Nat \ {0}

VARIABLES
  pc,         \* where the thread is in send_request
  attempt,    \* the attempt it is making
  result,     \* whose response send_request returned to it
  lock,       \* _lock
  connected,  \* _sock is set
  up,         \* requests on the connection, not yet read by the server
  down,       \* frames of the server on the connection, not yet read
  upCut,      \* a request was cut short: what follows it cannot be parsed
  downCut,    \* likewise, an answer given up half way
  hungUp,     \* the server has closed the connection
  stray,      \* requests left on connections the client has closed
  execs,      \* how often the server has carried out a request
  poisoned    \* history: a recv on this connection was given up

wireVars == <<connected, up, down, upCut, downCut, hungUp, poisoned>>
vars == <<pc, attempt, result, lock, wireVars, stray, execs>>

Label == {"idle", "want", "dial", "send", "recv", "failed", "redial",
          "backoff", "done", "raised"}

FlagsOK ==
  /\ connected \in BOOLEAN /\ hungUp \in BOOLEAN /\ poisoned \in BOOLEAN
  /\ upCut \in BOOLEAN /\ downCut \in BOOLEAN

TypeOK ==
  /\ FlagsOK
  /\ pc \in [Thread -> Label]
  /\ attempt \in [Thread -> 0..MaxRetries]
  /\ result \in [Thread -> Thread \cup {NoThread}]
  /\ lock \in Thread \cup {NoThread}
  /\ up \in Seq(Thread)
  /\ down \in Seq(Thread \cup {ErrorFrame})
  /\ stray \in [Thread -> Nat]
  /\ execs \in [Thread -> Nat]

\* The proxy starts its browser threads after a successful connect().
Init ==
  /\ pc = [t \in Thread |-> "idle"]
  /\ attempt = [t \in Thread |-> 0]
  /\ result = [t \in Thread |-> NoThread]
  /\ lock = NoThread
  /\ connected = TRUE
  /\ up = <<>> /\ down = <<>>
  /\ upCut = FALSE /\ downCut = FALSE /\ hungUp = FALSE
  /\ poisoned = FALSE
  /\ stray = [t \in Thread |-> 0]
  /\ execs = [t \in Thread |-> 0]

Goto(t, to) == pc' = [pc EXCEPT ![t] = to]
Unlock == lock' = NoThread

FailKeepsLock(t) == Goto(t, "failed") /\ UNCHANGED <<lock, attempt, result>>

\* An exception leaves the with block: the lock is released, nothing is closed.
Fail(t) == Goto(t, "failed") /\ Unlock /\ UNCHANGED <<attempt, result>>

(***************************************************************************)
(* The connection.                                                         *)
(***************************************************************************)
Occurs(r) == {k \in 1..Len(up) : up[k] = r}

EmptyWire == /\ up' = <<>> /\ down' = <<>>
             /\ upCut' = FALSE /\ downCut' = FALSE

\* _close_socket: what the server has not read yet it may still come to read.
CloseSocket ==
  /\ connected' = FALSE
  /\ EmptyWire
  /\ hungUp' = FALSE /\ poisoned' = FALSE
  /\ stray' = [r \in Thread |-> stray[r] + Cardinality(Occurs(r))]

\* The end of _do_connect: a new connection with nothing on it.  The server,
\* done with the handshake first, may have closed it again by now.
Open ==
  /\ connected' = TRUE
  /\ EmptyWire
  /\ hungUp' \in BOOLEAN /\ poisoned' = FALSE

(***************************************************************************)
(* send_request and _do_request.                                           *)
(***************************************************************************)
Call(t) ==
  /\ pc[t] = "idle"
  /\ Goto(t, "want")
  /\ attempt' = [attempt EXCEPT ![t] = 1]
  /\ UNCHANGED <<result, lock, wireVars, stray, execs>>

AcquireNoLock(t) ==
  /\ pc[t] = "want"
  /\ Goto(t, IF connected THEN "send" ELSE "dial")
  /\ UNCHANGED <<attempt, result, lock, wireVars, stray, execs>>

Acquire(t) ==
  /\ pc[t] = "want" /\ lock = NoThread
  /\ lock' = t
  /\ Goto(t, IF connected THEN "send" ELSE "dial")
  /\ UNCHANGED <<attempt, result, wireVars, stray, execs>>

DialOk(t) ==
  /\ pc[t] = "dial"
  /\ Open
  /\ Goto(t, "send")
  /\ UNCHANGED <<attempt, result, lock, stray, execs>>

DialFails(t) ==
  /\ pc[t] = "dial"
  /\ Fail(t)
  /\ UNCHANGED <<wireVars, stray, execs>>

\* A frame behind one that was cut short is lost in the server's parser.
SendOk(t) ==
  /\ pc[t] = "send"
  /\ Goto(t, "recv")
  /\ up' = IF upCut \/ hungUp THEN up ELSE Append(up, t)
  /\ UNCHANGED <<attempt, result, lock, connected, down, upCut, downCut, hungUp,
                 poisoned, stray, execs>>

\* The frame is too large, the peer is gone, or sendall timed out half way.
SendFails(t) ==
  /\ pc[t] = "send"
  /\ Fail(t)
  /\ upCut' \in {upCut, TRUE}
  /\ UNCHANGED <<connected, up, down, downCut, hungUp, poisoned, stray, execs>>

\* recv_frame returns whatever complete frame is next on the connection.
RecvResponse(t) ==
  /\ pc[t] = "recv"
  /\ down # <<>> /\ Head(down) # ErrorFrame /\ ~downCut
  /\ result' = [result EXCEPT ![t] = Head(down)]
  /\ down' = Tail(down)
  /\ Goto(t, "done")
  /\ Unlock
  /\ UNCHANGED <<attempt, connected, up, upCut, downCut, hungUp, poisoned,
                 stray, execs>>

RecvError(t) ==
  /\ pc[t] = "recv"
  /\ down # <<>> /\ Head(down) = ErrorFrame /\ ~downCut
  /\ down' = Tail(down)
  /\ Fail(t)
  /\ UNCHANGED <<connected, up, upCut, downCut, hungUp, poisoned, stray, execs>>

\* The server has closed, or what comes is not a frame.  A close that leaves
\* requests unread resets the connection and may lose the answers still on it.
RecvBroken(t) ==
  /\ pc[t] = "recv"
  /\ \/ hungUp /\ down' = <<>>
     \/ downCut /\ UNCHANGED down
  /\ Fail(t)
  /\ UNCHANGED <<connected, up, upCut, downCut, hungUp, poisoned, stray, execs>>

\* The timeout strikes before the answer, or in the middle of it.
RecvTimeout(t) ==
  /\ pc[t] = "recv" /\ ~hungUp
  /\ \/ down = <<>> /\ UNCHANGED <<down, downCut>>
     \/ down # <<>> /\ down' = Tail(down) /\ downCut' = TRUE
  /\ poisoned' = TRUE
  /\ Fail(t)
  /\ UNCHANGED <<connected, up, upCut, hungUp, stray, execs>>

(***************************************************************************)
(* The except clause: reconnect under the lock, then back off or give up.  *)
(***************************************************************************)
AfterAttemptUnbounded(t) == IF attempt[t] <= MaxRetries THEN "backoff" ELSE "raised"

AfterAttempt(t) == IF attempt[t] < MaxRetries THEN "backoff" ELSE "raised"

ReacquireTrustsFlag(t) ==
  /\ pc[t] = "failed" /\ lock = NoThread
  /\ IF connected
     THEN Goto(t, AfterAttempt(t)) /\ UNCHANGED <<lock, wireVars, stray>>
     ELSE lock' = t /\ CloseSocket /\ Goto(t, "redial")
  /\ UNCHANGED <<attempt, result, execs>>

Reacquire(t) ==
  /\ pc[t] = "failed" /\ lock = NoThread
  /\ lock' = t
  /\ CloseSocket
  /\ Goto(t, "redial")
  /\ UNCHANGED <<attempt, result, execs>>

RedialOk(t) ==
  /\ pc[t] = "redial"
  /\ Open
  /\ Goto(t, AfterAttempt(t))
  /\ Unlock
  /\ UNCHANGED <<attempt, result, stray, execs>>

RedialFails(t) ==
  /\ pc[t] = "redial"
  /\ Goto(t, AfterAttempt(t))
  /\ Unlock
  /\ UNCHANGED <<attempt, result, wireVars, stray, execs>>

BackoffUncounted(t) ==
  /\ pc[t] = "backoff"
  /\ Goto(t, "want")
  /\ UNCHANGED <<attempt, result, lock, wireVars, stray, execs>>

Backoff(t) ==
  /\ pc[t] = "backoff"
  /\ Goto(t, "want")
  /\ attempt' = [attempt EXCEPT ![t] = @ + 1]
  /\ UNCHANGED <<result, lock, wireVars, stray, execs>>

(***************************************************************************)
(* close(), called by the main thread when the proxy is interrupted.       *)
(***************************************************************************)
Close ==
  /\ lock = NoThread /\ connected
  /\ CloseSocket
  /\ UNCHANGED <<pc, attempt, result, lock, execs>>

(***************************************************************************)
(* The server at the other end.                                            *)
(***************************************************************************)
ServerReads ==
  /\ connected /\ up # <<>>
  /\ UNCHANGED <<pc, attempt, result, lock, connected, upCut, downCut,
                 poisoned, stray>>

ServerAnswers ==
  /\ ServerReads
  /\ up' = Tail(up)
  /\ down' = Append(down, Head(up))
  /\ execs' = [execs EXCEPT ![Head(up)] = @ + 1]
  /\ UNCHANGED hungUp

\* The rate limiter refuses the request.
ServerRefuses ==
  /\ ServerReads
  /\ up' = Tail(up)
  /\ down' = Append(down, ErrorFrame)
  /\ UNCHANGED <<hungUp, execs>>

\* The request is carried out, but its response is too large for a frame.
ServerChokes ==
  /\ ServerReads
  /\ up' = <<>>
  /\ execs' = [execs EXCEPT ![Head(up)] = @ + 1]
  /\ hungUp' = TRUE
  /\ UNCHANGED down

\* Idle timeout, frame error, crash: unread requests are dropped.
ServerHangsUp ==
  /\ connected /\ ~hungUp
  /\ hungUp' = TRUE
  /\ up' = <<>>
  /\ UNCHANGED <<pc, attempt, result, lock, connected, down, upCut, downCut, poisoned,
                 stray, execs>>

\* A handler thread works off what is left of a connection the client closed, or
\* closes it in its turn; it had carried out at most the first of what it drops.
StrayRequests ==
  \E ended \in SUBSET {r \in Thread : stray[r] > 0} :
    /\ stray' = [r \in Thread |-> IF r \in ended THEN stray[r] - 1 ELSE stray[r]]
    /\ \/ UNCHANGED execs
       \/ \E r \in ended : execs' = [execs EXCEPT ![r] = @ + 1]
    /\ UNCHANGED <<pc, attempt, result, lock, wireVars>>

(***************************************************************************)
(* The specification.                                                      *)
(***************************************************************************)
Receive(t) == \/ RecvResponse(t) \/ RecvError(t)
              \/ RecvBroken(t) \/ RecvTimeout(t)

Request(t) == \/ Acquire(t) \/ DialOk(t) \/ DialFails(t)
              \/ SendOk(t) \/ SendFails(t) \/ Receive(t)

Recover(t) == \/ Reacquire(t) \/ RedialOk(t) \/ RedialFails(t) \/ Backoff(t)

Server == \/ ServerAnswers \/ ServerRefuses \/ ServerChokes \/ ServerHangsUp
          \/ StrayRequests

Next == \/ \E t \in Thread : Call(t) \/ Request(t) \/ Recover(t)
        \/ Close
        \/ Server

Spec == Init /\ [][Next]_vars

\* A thread runs until it blocks; connect, sendall and recv have timeouts and
\* the backoff is a sleep.  Nothing is assumed of the server.
Fairness == \A t \in Thread : WF_vars(Request(t) \/ Recover(t))

FairSpec == Spec /\ Fairness

(***************************************************************************)
(* Properties.                                                             *)
(***************************************************************************)
\* Outside the gap after an abandoned recv, the connection is in lockstep: at
\* most the request of the one thread inside recv is on it, in one place, and
\* when no thread waits for an answer the connection carries nothing.
LockStep ==
  ~poisoned =>
    /\ \A t \in Thread : pc[t] = "recv" =>
         \/ up = <<>> /\ down = <<>>
         \/ up = <<t>> /\ down = <<>>
         \/ up = <<>> /\ down \in {<<t>>, <<ErrorFrame>>}
    /\ (\A t \in Thread : pc[t] # "recv") => up = <<>> /\ down = <<>>

\* An abandoned connection is in use only until the thread that gave up comes
\* to reconnect: somebody who will close it is always on the way.
PoisonIsTransient == poisoned => \E t \in Thread : pc[t] = "failed"

\* A thread is handed another thread's response only if it used the connection
\* in the gap in which some thread had failed and had not yet reconnected.
MismatchNeedsGap ==
  [][\A t \in Thread : pc[t] = "recv" /\ pc'[t] = "done" /\ result'[t] # t
       => \E u \in Thread \ {t} : pc[u] = "failed"]_vars

\* Retries repeat a request, but never more often than it was attempted, even
\* counting what servers may still find on connections the client has closed.
ExecutionsBounded ==
  \A r \in Thread :
    execs[r] + stray[r] + Cardinality(Occurs(r)) <= attempt[r]

\* Every call returns or raises, whatever the server does: no thread waits for
\* the lock or for an answer for ever.
CallsEnd == \A t \in Thread : pc[t] = "want" ~> pc[t] \in {"done", "raised"}

(***************************************************************************)
(* What tunnel_client.py says of itself (lines 12 and 13): threads can     *)
(* share the tunnel, that is, a thread gets the response to its request.   *)
(***************************************************************************)
\* send_request returns the response of the request it was given.
ResponseMatch == \A t \in Thread : pc[t] = "done" => result[t] = t
=============================================================================
