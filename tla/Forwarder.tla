------------------------------ MODULE Forwarder ------------------------------
(***************************************************************************)
(* server/forwarder.py: what the handler threads of the server do with the *)
(* CONNECT and RELAY requests of HTTPS streams, and the table of sessions  *)
(* they share, keyed by target.                                            *)
(*                                                                         *)
(* A stream is one browser connection.  It sends one CONNECT and, if that  *)
(* succeeds, RELAYs one after the other; a handler thread works on each:   *)
(*                                                                         *)
(*   CONNECT  dial -> register -> idle                                     *)
(*   RELAY    lookup -> send -> recv [-> pop_eof] -> idle                  *)
(*                  and from send, on an exception, -> pop_error -> close  *)
(*                                                                         *)
(* A socket to a target bears the name of the stream whose CONNECT opened  *)
(* it.  The threads of two streams interleave between any two of these     *)
(* labels: the table is locked, the use of the socket it gives is not.     *)
(* Plain HTTP requests share nothing and are a fetch of their own.         *)
(***************************************************************************)
EXTENDS Naturals, FiniteSets

CONSTANTS
  Stream,    \* browser connections, and the sockets opened for them
  Target,    \* the host:port pairs they CONNECT to
  None,      \* no socket, no target
  MaxChunks  \* bound: chunks a target sends on one socket

ASSUME NoneAssumption == None \notin Stream \cup Target
ASSUME StreamAssumption == IsFiniteSet(Stream)
ASSUME ChunksAssumption == MaxChunks \in Nat

VARIABLES
  pc,        \* where the thread at work on the request of a stream is
  target,    \* the target of a stream
  sessions,  \* _connect_sessions
  hand,      \* target_sock of the thread at work
  peer,      \* what the target has done with a socket
  sent,      \* chunks the target has sent on a socket
  taken,     \* chunks recv has returned from it
  got,       \* response_data: chunks the thread at work has taken
  closed,    \* sockets a thread has closed
  replied,   \* history: chunks that went out in replies
  writers,   \* history: streams whose data was sent on a socket
  stamp      \* history: when a socket came into the table, 0 for never

socketVars == <<peer, sent, taken>>
historyVars == <<writers, stamp>>
vars == <<pc, target, sessions, hand, socketVars, got, closed, replied, historyVars>>

Label == {"idle", "dial", "register", "lookup", "send", "recv", "pop_eof",
          "pop_error", "close", "fetch"}
Peer == {"unopened", "open", "eof", "reset"}

\* The n-th chunk the target sent on socket s.
Chunk == Stream \X (1..MaxChunks)

TypeOK ==
  /\ pc \in [Stream -> Label]
  /\ target \in [Stream -> Target \cup {None}]
  /\ sessions \in [Target -> Stream \cup {None}]
  /\ hand \in [Stream -> Stream \cup {None}]
  /\ peer \in [Stream -> Peer]
  /\ sent \in [Stream -> 0..MaxChunks]
  /\ taken \in [Stream -> 0..MaxChunks]
  /\ got \in [Stream -> SUBSET Chunk]
  /\ closed \in SUBSET Stream
  /\ replied \in SUBSET Chunk
  /\ writers \in [Stream -> SUBSET Stream]
  /\ stamp \in [Stream -> Nat]

Init ==
  /\ pc = [r \in Stream |-> "idle"]
  /\ target = [r \in Stream |-> None]
  /\ sessions = [g \in Target |-> None]
  /\ hand = [r \in Stream |-> None]
  /\ peer = [r \in Stream |-> "unopened"]
  /\ sent = [r \in Stream |-> 0]
  /\ taken = [r \in Stream |-> 0]
  /\ got = [r \in Stream |-> {}]
  /\ closed = {}
  /\ replied = {}
  /\ writers = [r \in Stream |-> {}]
  /\ stamp = [r \in Stream |-> 0]

Step(r, from, to) == pc[r] = from /\ pc' = [pc EXCEPT ![r] = to]

(***************************************************************************)
(* forward_request: the three kinds of request.                            *)
(***************************************************************************)
BeginConnect(r, g) ==
  /\ target[r] = None
  /\ Step(r, "idle", "dial")
  /\ target' = [target EXCEPT ![r] = g]
  /\ UNCHANGED <<sessions, hand, socketVars, got, closed, replied, historyVars>>

\* The proxy sends RELAYs only after its CONNECT was answered with 200.
BeginRelay(r) ==
  /\ peer[r] # "unopened"
  /\ Step(r, "idle", "lookup")
  /\ UNCHANGED <<target, sessions, hand, socketVars, got, closed, replied, historyVars>>

BeginFetch(r) ==
  /\ target[r] = None
  /\ Step(r, "idle", "fetch")
  /\ UNCHANGED <<target, sessions, hand, socketVars, got, closed, replied, historyVars>>

\* _handle_http: the response, or an error page for whatever was raised.
EndFetch(r) ==
  /\ Step(r, "fetch", "idle")
  /\ UNCHANGED <<target, sessions, hand, socketVars, got, closed, replied, historyVars>>

(***************************************************************************)
(* _handle_connect.                                                        *)
(***************************************************************************)
DialOk(r) ==
  /\ Step(r, "dial", "register")
  /\ peer' = [peer EXCEPT ![r] = "open"]
  /\ UNCHANGED <<target, sessions, hand, sent, taken, got, closed, replied, historyVars>>

DialFails(r) ==
  /\ Step(r, "dial", "idle")
  /\ UNCHANGED <<target, sessions, hand, socketVars, got, closed, replied, historyVars>>

Registered == {r \in Stream : stamp[r] > 0}

Stamp(r) == stamp' = [stamp EXCEPT ![r] = Cardinality(Registered) + 1]

RegisterKeepsOld(r) ==
  /\ Step(r, "register", "idle")
  /\ sessions' = [sessions EXCEPT ![target[r]] = IF @ = None THEN r ELSE @]
  /\ Stamp(r)
  /\ UNCHANGED <<target, hand, socketVars, got, closed, replied, writers>>

\* An earlier session with the target is forgotten, in use or not.
Register(r) ==
  /\ Step(r, "register", "idle")
  /\ sessions' = [sessions EXCEPT ![target[r]] = r]
  /\ Stamp(r)
  /\ UNCHANGED <<target, hand, socketVars, got, closed, replied, writers>>

(***************************************************************************)
(* _handle_relay.                                                          *)
(***************************************************************************)
Lookup(r) ==
  /\ Step(r, "lookup", "send")
  /\ sessions[target[r]] # None
  /\ hand' = [hand EXCEPT ![r] = sessions[target[r]]]
  /\ UNCHANGED <<target, sessions, socketVars, got, closed, replied, historyVars>>

LookupFails(r) ==
  /\ Step(r, "lookup", "idle")
  /\ sessions[target[r]] = None
  /\ UNCHANGED <<target, sessions, hand, socketVars, got, closed, replied, historyVars>>

SendOk(r) ==
  /\ Step(r, "send", "recv")
  /\ hand[r] \notin closed
  /\ writers' = [writers EXCEPT ![hand[r]] = @ \cup {r}]
  /\ UNCHANGED <<target, sessions, hand, socketVars, got, closed, replied, stamp>>

\* Reset by the target, closed by another thread, or out of time; a part of
\* the data may have gone out.
SendFails(r) ==
  /\ Step(r, "send", "pop_error")
  /\ \/ UNCHANGED writers
     \/ /\ hand[r] \notin closed
        /\ writers' = [writers EXCEPT ![hand[r]] = @ \cup {r}]
  /\ UNCHANGED <<target, sessions, hand, socketVars, got, closed, replied, stamp>>

RecvEofAsChunk(r) ==
  /\ pc[r] = "recv" /\ hand[r] \notin closed
  /\ LET s == hand[r]
     IN  /\ taken[s] < sent[s] \/ peer[s] = "eof"
         /\ taken' = [taken EXCEPT ![s] = @ + 1]
         /\ got' = [got EXCEPT ![r] = @ \cup {<<s, taken[s] + 1>>}]
  /\ UNCHANGED <<pc, target, sessions, hand, peer, sent, closed, replied, historyVars>>

\* A full chunk: there may be more.
RecvMore(r) ==
  /\ pc[r] = "recv" /\ hand[r] \notin closed
  /\ LET s == hand[r]
     IN  /\ taken[s] < sent[s]
         /\ taken' = [taken EXCEPT ![s] = @ + 1]
         /\ got' = [got EXCEPT ![r] = @ \cup {<<s, taken[s] + 1>>}]
  /\ UNCHANGED <<pc, target, sessions, hand, peer, sent, closed, replied, historyVars>>

\* The handler returns what it has taken, and forgets its socket.
Reply(r, chunks) ==
  /\ replied' = replied \cup chunks
  /\ got' = [got EXCEPT ![r] = {}]
  /\ hand' = [hand EXCEPT ![r] = None]

\* A chunk that is not full ends the loop.
RecvLast(r) ==
  /\ Step(r, "recv", "idle")
  /\ hand[r] \notin closed
  /\ LET s == hand[r]
     IN  /\ taken[s] < sent[s]
         /\ taken' = [taken EXCEPT ![s] = @ + 1]
         /\ Reply(r, got[r] \cup {<<s, taken[s] + 1>>})
  /\ UNCHANGED <<target, sessions, peer, sent, closed, historyVars>>

RecvEof(r) ==
  /\ Step(r, "recv", "pop_eof")
  /\ hand[r] \notin closed
  /\ peer[hand[r]] = "eof" /\ taken[hand[r]] = sent[hand[r]]
  /\ UNCHANGED <<target, sessions, hand, socketVars, got, closed, replied, historyVars>>

RecvGivesUpEmpty(r) ==
  /\ Step(r, "recv", "idle")
  /\ \/ taken[hand[r]] = sent[hand[r]] /\ peer[hand[r]] = "open"
     \/ peer[hand[r]] = "reset"
     \/ hand[r] \in closed
  /\ Reply(r, {})
  /\ UNCHANGED <<target, sessions, socketVars, closed, historyVars>>

\* The timeout, or an exception that is passed over: the session stays.
RecvGivesUp(r) ==
  /\ Step(r, "recv", "idle")
  /\ \/ taken[hand[r]] = sent[hand[r]] /\ peer[hand[r]] = "open"
     \/ peer[hand[r]] = "reset"
     \/ hand[r] \in closed
  /\ Reply(r, got[r])
  /\ UNCHANGED <<target, sessions, socketVars, closed, historyVars>>

\* The session of the target goes, whichever it is by now.
PopSession(r) == sessions' = [sessions EXCEPT ![target[r]] = None]

PopEof(r) ==
  /\ Step(r, "pop_eof", "idle")
  /\ PopSession(r)
  /\ Reply(r, got[r])
  /\ UNCHANGED <<target, socketVars, closed, historyVars>>

PopErrorAlone(r) ==
  /\ Step(r, "pop_error", "close")
  /\ UNCHANGED <<target, sessions, hand, socketVars, got, closed, replied, historyVars>>

PopError(r) ==
  /\ Step(r, "pop_error", "close")
  /\ PopSession(r)
  /\ UNCHANGED <<target, hand, socketVars, got, closed, replied, historyVars>>

Close(r) ==
  /\ Step(r, "close", "idle")
  /\ closed' = closed \cup {hand[r]}
  /\ Reply(r, {})
  /\ UNCHANGED <<target, sessions, socketVars, historyVars>>

(***************************************************************************)
(* The target.                                                             *)
(***************************************************************************)
TargetSends(s) ==
  /\ peer[s] = "open" /\ sent[s] < MaxChunks
  /\ sent' = [sent EXCEPT ![s] = @ + 1]
  /\ UNCHANGED <<pc, target, sessions, hand, peer, taken, got, closed, replied, historyVars>>

TargetEnds(s) ==
  /\ peer[s] = "open"
  /\ peer' \in {[peer EXCEPT ![s] = "eof"], [peer EXCEPT ![s] = "reset"]}
  /\ UNCHANGED <<pc, target, sessions, hand, sent, taken, got, closed, replied, historyVars>>

(***************************************************************************)
(* The specification.                                                      *)
(***************************************************************************)
Connect(r) == (\E g \in Target : BeginConnect(r, g)) \/ DialOk(r) \/ DialFails(r) \/ Register(r)

Relay(r) == \/ BeginRelay(r) \/ Lookup(r) \/ LookupFails(r) \/ SendOk(r) \/ SendFails(r)
            \/ RecvMore(r) \/ RecvLast(r) \/ RecvEof(r) \/ RecvGivesUp(r)
            \/ PopEof(r) \/ PopError(r) \/ Close(r)

Next == \E r \in Stream : \/ Connect(r) \/ Relay(r)
                          \/ BeginFetch(r) \/ EndFetch(r)
                          \/ TargetSends(r) \/ TargetEnds(r)

Spec == Init /\ [][Next]_vars

(***************************************************************************)
(* Properties.                                                             *)
(***************************************************************************)
\* No thread finds a socket in the table that another one has closed: close
\* comes only after a pop of the target, and whatever that pop removed, a
\* socket that was looked up never comes back.
NoClosedSession == \A g \in Target : sessions[g] \notin closed

\* What recv takes from a socket, however many threads relay on it at once and
\* however their loops end, is in one thread's hands or went out in one reply:
\* no chunk is dropped and none is answered twice.
ChunksAccounted ==
  /\ \A s \in Stream : \A n \in 1..MaxChunks :
       n <= taken[s] <=> <<s, n>> \in replied \/ \E r \in Stream : <<s, n>> \in got[r]
  /\ \A r \in Stream : /\ got[r] \cap replied = {}
                       /\ \A q \in Stream \ {r} : got[q] \cap got[r] = {}

\* A stream that does not write to its own socket was overtaken: it writes to
\* one that a later CONNECT to the same target put in the table, never to one
\* that was there before its own.
OvertakenOnly ==
  \A s \in Stream : \A r \in writers[s] :
    target[r] = target[s] /\ 0 < stamp[r] /\ stamp[r] <= stamp[s]

(***************************************************************************)
(* What forwarder.py says of _handle_relay (line 142): it relays for an    *)
(* established CONNECT tunnel.                                             *)
(***************************************************************************)
\* The bytes of a stream go to the socket that its own CONNECT opened.
RelayOnOwnTunnel == \A s \in Stream : writers[s] \subseteq {s}
=============================================================================
