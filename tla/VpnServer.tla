------------------------------ MODULE VpnServer ------------------------------
(***************************************************************************)
(* The accept loop and the handler threads of server/server_main.py, with  *)
(* the policy objects they share (RateLimiter, AccessControl).             *)
(*                                                                         *)
(* A handler thread takes one accepted connection through                  *)
(*                                                                         *)
(*   check -> admit -> handshake -> loop -> recv -> rate -> consume ->     *)
(*        forward -> reply -> loop ...                                     *)
(*                                                                         *)
(* and leaves by release (the inner finally, which gives the slot back)    *)
(* and close (the outer finally).  The labels are the places between two   *)
(* lock acquisitions or blocking calls, where another thread can run.      *)
(* The client is the environment: it sends frames and closes its socket.   *)
(* The handshake is one step here that succeeds or fails; its messages are *)
(* not modelled in this module.                                            *)
(***************************************************************************)
EXTENDS RateLimiter, AccessControl, FiniteSets

CONSTANTS
  Thread,         \* handler threads that can be alive at once
  NoIp,           \* the address of a thread that serves nobody
  WhitelistFile,  \* the contents the whitelist file may have
  MaxInbox        \* bound: frames a client has in flight

Network == SUBSET IP

ASSUME ThreadAssumption == IsFiniteSet(Thread)
ASSUME NoIpAssumption == NoIp \notin IP
ASSUME InboxAssumption == MaxInbox \in Nat
ASSUME FileAssumption ==
  \A f \in WhitelistFile : f = Absent \/ f \subseteq Network \cup {Garbage}

VARIABLES
  pc,     \* where the handler thread is
  ip,     \* the address it serves, client_addr[0]
  inbox,  \* frames of its client not yet received
  gone    \* its client has closed the connection

connVars == <<ip, inbox, gone>>
accessVars == <<whitelistFile, networks>>
vars == <<clock, limiterVars, bucketVars, accessVars, pc, connVars>>

Label == {"free", "check", "admit", "handshake", "loop", "recv", "rate",
          "consume", "limited", "forward", "reply", "release", "close"}

\* What recv_frame makes of a frame: a DATA_REQUEST, another known type, or a
\* ValueError (HMAC, size, type or decryption).
Frame == {"request", "other", "corrupt"}

TypeOK ==
  /\ LimiterTypeOK
  /\ networks \subseteq Network
  /\ whitelistFile \in WhitelistFile
  /\ pc \in [Thread -> Label]
  /\ ip \in [Thread -> IP \cup {NoIp}]
  /\ inbox \in [Thread -> Seq(Frame)]
  /\ gone \in [Thread -> BOOLEAN]

Init ==
  /\ LimiterInit
  /\ whitelistFile \in WhitelistFile
  /\ networks = Loaded(whitelistFile)
  /\ pc = [t \in Thread |-> "free"]
  /\ ip = [t \in Thread |-> NoIp]
  /\ inbox = [t \in Thread |-> <<>>]
  /\ gone = [t \in Thread |-> FALSE]

Serving(t) == pc[t] \in {"loop", "recv", "rate", "consume", "limited",
                         "forward", "reply"}

\* The thread is inside the try whose finally calls remove_connection.
Holding(t) == Serving(t) \/ pc[t] \in {"handshake", "release"}

Holders == {t \in Thread : Holding(t)}
HoldersOf(i) == {t \in Holders : ip[t] = i}

Step(t, from, to) == pc[t] = from /\ pc' = [pc EXCEPT ![t] = to]

Served(t, f) == pc[t] = "recv" /\ inbox[t] # <<>> /\ Head(inbox[t]) = f

(***************************************************************************)
(* The environment: time, the clients, the administrator.                  *)
(***************************************************************************)
Tick ==
  /\ clock < MaxClock
  /\ clock' = clock + 1
  /\ UNCHANGED <<limiterVars, bucketVars, accessVars, pc, connVars>>

PeerSend(t, f) ==
  /\ Serving(t) /\ ~gone[t]
  /\ Len(inbox[t]) < MaxInbox
  /\ inbox' = [inbox EXCEPT ![t] = Append(@, f)]
  /\ UNCHANGED <<clock, limiterVars, bucketVars, accessVars, pc, ip, gone>>

PeerClose(t) ==
  /\ pc[t] \notin {"free", "close"} /\ ~gone[t]
  /\ gone' = [gone EXCEPT ![t] = TRUE]
  /\ UNCHANGED <<clock, limiterVars, bucketVars, accessVars, pc, ip, inbox>>

EditWhitelist(f) ==
  /\ whitelistFile' = f
  /\ UNCHANGED <<clock, limiterVars, bucketVars, networks, pc, connVars>>

(***************************************************************************)
(* The accept loop: one new thread per connection.                         *)
(***************************************************************************)
Accept(t, i) ==
  /\ Step(t, "free", "check")
  /\ ip' = [ip EXCEPT ![t] = i]
  /\ UNCHANGED <<clock, limiterVars, bucketVars, accessVars, inbox, gone>>

(***************************************************************************)
(* handle_client: admission.                                               *)
(***************************************************************************)
CheckAccess(t) ==
  /\ pc[t] = "check"
  /\ pc' = [pc EXCEPT ![t] = IF IsAllowed(ip[t]) THEN "admit" ELSE "close"]
  /\ UNCHANGED <<clock, limiterVars, bucketVars, accessVars, connVars>>

Admit(t) ==
  /\ Step(t, "admit", "handshake")
  /\ BelowCaps(ip[t])
  /\ AddConnection(ip[t])
  /\ UNCHANGED <<clock, bucketVars, accessVars, connVars>>

DenyByFinally(t) ==
  /\ Step(t, "admit", "release")
  /\ ~BelowCaps(ip[t])
  /\ UNCHANGED <<clock, limiterVars, bucketVars, accessVars, connVars>>

\* The early return is outside the inner try: there is no slot to give back.
Deny(t) ==
  /\ Step(t, "admit", "close")
  /\ ~BelowCaps(ip[t])
  /\ UNCHANGED <<clock, limiterVars, bucketVars, accessVars, connVars>>

HandshakeOk(t) ==
  /\ Step(t, "handshake", "loop")
  /\ UNCHANGED <<clock, limiterVars, bucketVars, accessVars, connVars>>

HandshakeFailsOutsideTry(t) ==
  /\ Step(t, "handshake", "close")
  /\ UNCHANGED <<clock, limiterVars, bucketVars, accessVars, connVars>>

HandshakeFails(t) ==
  /\ Step(t, "handshake", "release")
  /\ UNCHANGED <<clock, limiterVars, bucketVars, accessVars, connVars>>

(***************************************************************************)
(* handle_client: the request loop.                                        *)
(***************************************************************************)
CheckIdle(t) ==
  /\ pc[t] = "loop"
  /\ pc' = [pc EXCEPT ![t] = IF IsIdle(ip[t]) THEN "release" ELSE "recv"]
  /\ UNCHANGED <<clock, limiterVars, bucketVars, accessVars, connVars>>

\* A request comes in and touch is called before anything else is shared.
RecvRequest(t) ==
  /\ Served(t, "request")
  /\ Step(t, "recv", "rate")
  /\ inbox' = [inbox EXCEPT ![t] = Tail(@)]
  /\ Touch(ip[t])
  /\ UNCHANGED <<clock, connections, total, bucketVars, accessVars, ip, gone>>

RecvOther(t) ==
  /\ Served(t, "other")
  /\ Step(t, "recv", "loop")
  /\ inbox' = [inbox EXCEPT ![t] = Tail(@)]
  /\ UNCHANGED <<clock, limiterVars, bucketVars, accessVars, ip, gone>>

RecvCorrupt(t) ==
  /\ Served(t, "corrupt")
  /\ Step(t, "recv", "release")
  /\ inbox' = [inbox EXCEPT ![t] = Tail(@)]
  /\ UNCHANGED <<clock, limiterVars, bucketVars, accessVars, ip, gone>>

\* A close by the client may also reset the connection and lose its inbox.
RecvDisconnect(t) ==
  /\ gone[t]
  /\ Step(t, "recv", "release")
  /\ UNCHANGED <<clock, limiterVars, bucketVars, accessVars, connVars>>

RecvNeverTimesOut(t) == FALSE /\ UNCHANGED vars

\* settimeout(idle_timeout): nothing arrived for that long.
RecvTimeout(t) ==
  /\ ~gone[t] /\ inbox[t] = <<>>
  /\ Step(t, "recv", "release")
  /\ UNCHANGED <<clock, limiterVars, bucketVars, accessVars, connVars>>

CheckRate(t) ==
  /\ Step(t, "rate", "consume")
  /\ LookupBucket(ip[t])
  /\ UNCHANGED <<clock, limiterVars, accessVars, connVars>>

TakeToken(t) ==
  \E allowed \in BOOLEAN :
    /\ Step(t, "consume", IF allowed THEN "forward" ELSE "limited")
    /\ Consume(ip[t], allowed)
    /\ UNCHANGED <<clock, limiterVars, accessVars, connVars>>

\* forward_request answers, with an error response if it raised.
Forward(t) ==
  /\ Step(t, "forward", "reply")
  /\ UNCHANGED <<clock, limiterVars, bucketVars, accessVars, connVars>>

\* The reply or the ERROR frame goes out, and the thread takes the next frame.
SendOk(t) ==
  /\ Step(t, "reply", "loop") \/ Step(t, "limited", "loop")
  /\ UNCHANGED <<clock, limiterVars, bucketVars, accessVars, connVars>>

\* sendall fails or times out, or the frame is too large for send_frame.
SendFails(t) ==
  /\ Step(t, "reply", "release") \/ Step(t, "limited", "release")
  /\ UNCHANGED <<clock, limiterVars, bucketVars, accessVars, connVars>>

(***************************************************************************)
(* handle_client: the two finally clauses.                                 *)
(***************************************************************************)
Release(t) ==
  /\ Step(t, "release", "close")
  /\ RemoveConnection(ip[t])
  /\ UNCHANGED <<clock, bucketVars, accessVars, connVars>>

Close(t) ==
  /\ Step(t, "close", "free")
  /\ ip' = [ip EXCEPT ![t] = NoIp]
  /\ inbox' = [inbox EXCEPT ![t] = <<>>]
  /\ gone' = [gone EXCEPT ![t] = FALSE]
  /\ UNCHANGED <<clock, limiterVars, bucketVars, accessVars>>

(***************************************************************************)
(* The specification.                                                      *)
(***************************************************************************)
Receive(t) == \/ RecvRequest(t) \/ RecvOther(t) \/ RecvCorrupt(t)
              \/ RecvDisconnect(t) \/ RecvTimeout(t)

\* Every step a handler thread takes, except the answer of the target site.
Handle(t) == \/ CheckAccess(t) \/ Admit(t) \/ Deny(t)
             \/ HandshakeOk(t) \/ HandshakeFails(t)
             \/ CheckIdle(t) \/ Receive(t)
             \/ CheckRate(t) \/ TakeToken(t)
             \/ SendOk(t) \/ SendFails(t)
             \/ Release(t) \/ Close(t)

PeerSends(t) == \E f \in Frame : PeerSend(t, f)

Next ==
  \/ Tick
  \/ \E f \in WhitelistFile : EditWhitelist(f)
  \/ \E t \in Thread : Handle(t) \/ Forward(t) \/ PeerSends(t) \/ PeerClose(t)
  \/ \E t \in Thread, i \in IP : Accept(t, i)

Spec == Init /\ [][Next]_vars

\* Threads are scheduled and every socket call but the streamed read of the
\* target's response has a timeout; clients and the target owe us nothing.
Fairness == \A t \in Thread : WF_vars(Handle(t))

FairSpec == Spec /\ Fairness

(***************************************************************************)
(* Safety.                                                                 *)
(***************************************************************************)

\* The counters of the limiter equal the connections that hold a slot, per
\* address and in total, whatever path a handler took through its returns,
\* exceptions and finally clauses: no slot leaks, none is given back twice.
SlotAccounting ==
  /\ total = Cardinality(Holders)
  /\ \A i \in IP : connections[i] = Cardinality(HoldersOf(i))

\* try_add_connection keeps the connections past admission within both caps,
\* however the admissions of several threads interleave.
CapsRespected ==
  /\ Cardinality(Holders) <= MaxTotal
  /\ \A i \in IP : Cardinality(HoldersOf(i)) <= MaxPerIp

\* What the burst and the rate promise together: between any two granted
\* requests of an address, whichever of its connections they came in on, no
\* more are granted than a full bucket and the time in between pay for.
RateWindow ==
  \A i \in IP : \A j, k \in 1..Len(grants[i]) :
    j <= k => (k - j + 1) * Cost
                <= BucketCapacity + Rate * (grants[i][k] - grants[i][j])

(***************************************************************************)
(* What the theorems about the bucket rest on (BucketInv is inductive with *)
(* TypeOK): the balance of a bucket is what the fullest window that ends   *)
(* at its last refill leaves over.                                         *)
(***************************************************************************)
\* A thread that is not free serves an address, and a thread about to take a
\* token has a bucket to take it from.
ServesAddress ==
  \A t \in Thread : /\ pc[t] # "free" => ip[t] \in IP
                    /\ pc[t] = "consume" => ip[t] \in buckets

\* What the window from the j-th grant of i to the last one leaves at time now.
Slack(i, j, now) == BucketCapacity + Rate * (now - grants[i][j])
                      - (Len(grants[i]) - j + 1) * Cost

\* The tokens of a bucket are the least slack of all windows that end at its
\* last refill, or a full bucket if that is less: threads that share a bucket
\* through check_rate neither create tokens nor lose them.
BucketInv ==
  /\ ServesAddress
  /\ \A i \in IP :
       /\ refilled[i] <= clock
       /\ i \notin buckets => grants[i] = <<>>
       /\ \A j \in 1..Len(grants[i]) :
            /\ grants[i][j] <= refilled[i]
            /\ tokens[i] <= Slack(i, j, refilled[i])
       /\ i \in buckets =>
            \/ tokens[i] = BucketCapacity
            \/ \E j \in 1..Len(grants[i]) : tokens[i] = Slack(i, j, refilled[i])

Refused(t) == pc[t] = "consume" /\ pc'[t] = "limited"

\* The other half of the promise: consume refuses a request only if granting
\* it would break RateWindow for some window that ends now (or if the bucket
\* is too small for any request), so waiting threads of one address never
\* make each other lose tokens.
RefusedOnlyWhenSpent ==
  [][\A t \in Thread : Refused(t) =>
       \/ BucketCapacity < Cost
       \/ LET g == grants[ip[t]]
          IN  \E j \in 1..Len(g) : (Len(g) - j + 2) * Cost
                 > BucketCapacity + Rate * (clock - g[j])]_vars

(***************************************************************************)
(* Refinement: the server implements a pool of slots.                      *)
(***************************************************************************)
owner == [t \in Thread |-> IF Holding(t) THEN ip[t] ELSE NoIp]

Pool == INSTANCE SlotPool

\* Admission control as promised: a connection takes a slot only below both
\* caps, at most one, and gives it back once (SlotPool).
PoolSpec == Pool!Spec

(***************************************************************************)
(* Liveness.                                                               *)
(***************************************************************************)
\* Every slot is given back, whether the client vanishes, falls silent, fails
\* the handshake or sends rubbish: only a client that keeps sending frames or
\* a target whose response never ends can keep a slot for good.
SlotsComeBack ==
  \A t \in Thread : \/ []<>~Holding(t)
                    \/ []<><<PeerSends(t)>>_vars
                    \/ <>[](pc[t] = "forward")

(***************************************************************************)
(* What the documents say of the server.                                   *)
(***************************************************************************)
\* "Drop idle connections after N secs" (README.md, line 153): a connection is
\* not dropped for being idle when a frame of its client is there to be read.
DroppedOnlyIfSilent ==
  [][\A t \in Thread : pc[t] = "loop" /\ pc'[t] = "release" => inbox[t] = <<>>]_vars
=============================================================================
