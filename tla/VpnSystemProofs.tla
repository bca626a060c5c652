---------------------------- MODULE VpnSystemProofs ----------------------------
(***************************************************************************)
(* VpnSystem implements TunnelClient, for any number of browser threads,   *)
(* handler threads and retries and any settings of the server, and keeps   *)
(* the promises it makes as a whole.                                       *)
(*                                                                         *)
(* The steps of the client contain the steps of TunnelClient they map to.  *)
(* What has to be shown is that the handlers' steps map to those of the    *)
(* other end of a tunnel: that requires to know what a handler has in      *)
(* hand, that it is the oldest request on its connection, and that no      *)
(* request is twice on one connection.                                     *)
(*                                                                         *)
(* A step of the system is then a step of the server and a step of the     *)
(* tunnel, so the invariants proved of each in VpnServerProofs (SP) and in *)
(* TunnelClientProofs (TP) carry over: their lemmas are cited here, not    *)
(* proved again.                                                           *)
(***************************************************************************)
EXTENDS VpnSystem, FiniteSetTheorems, SequenceTheorems, TLAPS

\* The places of a handler before it has checked the keys of the client, and
\* those in which it has taken a request from its inbox and not yet answered it.
Fresh == {"free", "check", "admit", "handshake"}
InHand(h) == hpc[h] \in {"rate", "consume", "limited", "forward", "reply"}
Hand(h) == IF InHand(h) THEN 1 ELSE 0

TypeInv ==
  /\ hpc \in [Handler -> Server!Label]
  /\ inbox \in [Handler -> Seq(Server!Frame)]
  /\ reqs \in [Handler -> Seq(Browser)]
  /\ ran \in [Handler -> BOOLEAN]
  /\ execs \in [Browser -> Nat]
  /\ pc \in [Browser -> Tunnel!Label]
  /\ conn \in Handler \cup {NoSocket, Shut}
  /\ dialled \in Handler \cup {NoSocket, Shut}
  /\ welcomed \in BOOLEAN

\* A handler: what is in hand is the oldest request, only that one can have been
\* carried out, and behind each request in the inbox stands one in reqs.
HandlerOK(h) ==
  /\ hpc[h] \in Fresh => inbox[h] = <<>> /\ reqs[h] = <<>>
  /\ InHand(h) => reqs[h] # <<>>
  /\ ran[h] => hpc[h] \in {"reply", "release", "close"} /\ reqs[h] # <<>>
  /\ hpc[h] = "reply" => ran[h]
  /\ \A k \in 1..Len(inbox[h]) :
       inbox[h][k] = "request" => k + Hand(h) <= Len(reqs[h])
  /\ \A i, j \in 1..Len(reqs[h]) : reqs[h][i] = reqs[h][j] => i = j

\* The thread inside a with block holds the lock, and one that dials has closed
\* the old connection first.
LockOK ==
  /\ \A b \in Browser : pc[b] \in {"dial", "send", "recv", "redial"} <=> lock = b
  /\ \A b \in Browser : pc[b] \in {"dial", "redial"} => conn = NoSocket

\* A connection being opened carries no request yet.
DialOK ==
  /\ dialled # NoSocket => conn = NoSocket
  /\ welcomed => dialled # NoSocket
  /\ dialled \in Handler =>
       /\ reqs[dialled] = <<>> /\ inbox[dialled] = <<>>
       /\ welcomed => Established(dialled)

\* The connection in use: what its handler has still to read, unless a frame
\* was cut short, is in reqs, and so is no thread that could send again.
ConnOK ==
  conn \in Handler =>
    /\ Established(conn)
    /\ Server!Serving(conn) /\ ~upCut
         => Len(inbox[conn]) + Hand(conn) <= Len(reqs[conn])
    /\ \A k \in 1..Len(reqs[conn]) : pc[reqs[conn][k]] \in {"recv", "failed", "done"}

SysInv == /\ TypeInv
          /\ \A h \in Handler : HandlerOK(h)
          /\ LockOK /\ DialOK /\ ConnOK

\* The invariant holds at the start.
LEMMA InitSysInv == Init => SysInv
<1>. SUFFICES ASSUME Init PROVE SysInv
  OBVIOUS
<1>1. TypeInv
  <2>1. \A h \in Handler : <<>> \in Seq(Server!Frame) /\ <<>> \in Seq(Browser)
    BY EmptySeq
  <2>. QED
    BY <2>1 DEF Init, TypeInv, Tunnel!Init, Tunnel!Label, Server!Label
<1>2. \A h \in Handler : HandlerOK(h)
  BY DEF Init, HandlerOK, InHand, Hand, Fresh
<1>3. LockOK /\ DialOK /\ ConnOK
  BY BrowserAssumption, SocketAssumption DEF Init, LockOK, DialOK, ConnOK, Tunnel!Init,
     Established, Server!Serving, Hand, InHand
<1>. QED
  BY <1>1, <1>2, <1>3 DEF SysInv

(***************************************************************************)
(* Steps of a handler that answer nothing.                                 *)
(***************************************************************************)
\* The ways a handler goes without touching its inbox.
Ways == {<<"check", "admit">>, <<"check", "close">>, <<"admit", "handshake">>,
         <<"admit", "close">>, <<"handshake", "loop">>, <<"handshake", "release">>,
         <<"loop", "recv">>, <<"loop", "release">>, <<"recv", "release">>,
         <<"rate", "consume">>, <<"consume", "forward">>, <<"consume", "limited">>,
         <<"reply", "release">>, <<"limited", "release">>, <<"release", "close">>}

Moved(h, to) ==
  /\ hpc' = [hpc EXCEPT ![h] = to]
  /\ \/ inbox' = inbox /\ <<hpc[h], to>> \in Ways
     \/ /\ hpc[h] = "recv" /\ inbox[h] # <<>>
        /\ inbox' = [inbox EXCEPT ![h] = Tail(@)]
        /\ to = "release" \/ (to = "rate" /\ Head(inbox[h]) = "request")

\* A handler that acts alone only moves to another label.
LEMMA HandlerMoves ==
  ASSUME NEW h \in Handler, HandleAlone(h) \/ DropIdle(h) \/ HandshakeOk(h)
  PROVE  \E to : Moved(h, to)
<1>1. CASE \/ Server!CheckAccess(h) \/ Server!Admit(h) \/ Server!Deny(h)
           \/ Server!HandshakeFails(h) \/ Server!CheckIdle(h)
  BY <1>1 DEF Server!CheckAccess, Server!Admit, Server!Deny, Server!HandshakeFails,
     Server!CheckIdle, Server!Step, Server!connVars, Moved, Ways
<1>2. CASE Server!RecvRequest(h) \/ Server!RecvCorrupt(h)
  <2>1. CASE Server!RecvRequest(h)
    <3>1. Moved(h, "rate")
      BY <2>1 DEF Server!RecvRequest, Server!Served, Server!Step, Moved
    <3>. QED
      BY <3>1
  <2>2. CASE Server!RecvCorrupt(h)
    <3>1. /\ hpc[h] = "recv" /\ inbox[h] # <<>>
          /\ hpc' = [hpc EXCEPT ![h] = "release"]
          /\ inbox' = [inbox EXCEPT ![h] = Tail(@)]
      BY <2>2 DEF Server!RecvCorrupt, Server!Served, Server!Step
    <3>2. Moved(h, "release")
      BY <3>1 DEF Moved
    <3>. QED
      BY <3>2
  <2>. QED
    BY <1>2, <2>1, <2>2
<1>3. CASE Server!RecvDisconnect(h) \/ Server!RecvTimeout(h) \/ Server!CheckRate(h)
  BY <1>3 DEF Server!RecvDisconnect, Server!RecvTimeout, Server!CheckRate,
     Server!Step, Server!connVars, Moved, Ways
<1>5. CASE Server!TakeToken(h)
  <2>1. \E to \in {"forward", "limited"} : Server!Step(h, "consume", to) /\ inbox' = inbox
    BY <1>5 DEF Server!TakeToken, Server!connVars
  <2>. QED
    BY <2>1 DEF Server!Step, Moved, Ways
<1>6. CASE Server!SendFails(h) \/ Server!Release(h)
  BY <1>6 DEF Server!SendFails, Server!Release, Server!Step, Server!connVars, Moved, Ways
<1>4. CASE DropIdle(h) \/ HandshakeOk(h)
  BY <1>4 DEF DropIdle, HandshakeOk, Server!HandshakeOk, Server!Step,
     Server!connVars, Moved, Ways
<1>. QED
  BY <1>1, <1>2, <1>3, <1>4, <1>5, <1>6 DEF HandleAlone

\* What a sequence loses with its head.
LEMMA TailElements ==
  ASSUME NEW S, NEW s \in Seq(S), s # <<>>
  PROVE  /\ Head(s) \in S /\ Tail(s) \in Seq(S) /\ Head(s) = s[1]
         /\ Len(s) \in Nat /\ Len(s) >= 1 /\ Len(Tail(s)) = Len(s) - 1
         /\ \A k \in 1..Len(s) - 1 : Tail(s)[k] = s[k + 1]
  OBVIOUS

\* A move keeps what is known of the handlers.
LEMMA MoveKeepsHandler ==
  ASSUME SysInv, NEW h \in Handler, NEW to, Moved(h, to), UNCHANGED <<reqs, ran>>
  PROVE  \A g \in Handler : HandlerOK(g)'
<1>1. ASSUME NEW g \in Handler, g # h
      PROVE  HandlerOK(g)'
  <2>1. UNCHANGED <<hpc[g], inbox[g], reqs[g], ran[g]>>
    BY <1>1 DEF Moved, SysInv, TypeInv
  <2>. QED
    BY <2>1 DEF SysInv, HandlerOK, InHand, Hand
<1>2. HandlerOK(h)'
  <2>0. /\ hpc'[h] = to /\ UNCHANGED <<reqs[h], ran[h]>> /\ HandlerOK(h)
        /\ inbox[h] \in Seq(Server!Frame) /\ reqs[h] \in Seq(Browser)
    BY DEF Moved, SysInv, TypeInv
  <2>1. CASE inbox' = inbox /\ <<hpc[h], to>> \in Ways
    BY <2>0, <2>1 DEF Ways, HandlerOK, InHand, Hand, Fresh
  <2>2. CASE /\ hpc[h] = "recv" /\ inbox[h] # <<>>
             /\ inbox' = [inbox EXCEPT ![h] = Tail(@)]
             /\ to = "release" \/ (to = "rate" /\ Head(inbox[h]) = "request")
    <3>1. inbox'[h] = Tail(inbox[h])
      BY <2>2 DEF SysInv, TypeInv
    <3>2. ~InHand(h) /\ (Hand(h)' = 0 \/ (Hand(h)' = 1 /\ Head(inbox[h]) = "request"))
      BY <2>0, <2>2 DEF InHand, Hand
    <3>3. \A k \in 1..Len(inbox[h]) :
            inbox[h][k] = "request" => k <= Len(reqs[h])
      BY <2>0, <3>2 DEF HandlerOK, Hand
    <3>4. \A k \in 1..Len(inbox[h]) - 1 : Tail(inbox[h])[k] = inbox[h][k + 1]
      BY <2>0, <2>2, TailElements
    <3>5. /\ Len(inbox[h]) \in Nat /\ Len(inbox[h]) >= 1 /\ Len(reqs[h]) \in Nat
          /\ Len(Tail(inbox[h])) = Len(inbox[h]) - 1 /\ Head(inbox[h]) = inbox[h][1]
      BY <2>0, <2>2, TailElements
    <3>6. \A k \in 1..Len(inbox'[h]) :
            inbox'[h][k] = "request" => k + Hand(h)' <= Len(reqs[h])
      BY <3>1, <3>2, <3>3, <3>4, <3>5
    <3>7. InHand(h)' => reqs[h] # <<>>
      BY <3>2, <3>3, <3>5 DEF Hand
    <3>. QED
      BY <2>0, <2>2, <3>6, <3>7 DEF HandlerOK, Fresh
  <2>. QED
    BY <2>1, <2>2 DEF Moved
<1>. QED
  BY <1>1, <1>2

(***************************************************************************)
(* The variables of TunnelClient that the mapping computes.                *)
(***************************************************************************)
MUp == IF conn \in Handler THEN reqs[conn] ELSE <<>>
MStray == [b \in Browser |-> Cardinality(LeftBehind(b))]
MExecs == [b \in Browser |-> execs[b] - Cardinality(Unsettled(b))]

On(b, q) == \E k \in 1..Len(q) : q[k] = b

\* The two sets that the mapping counts are finite.
LEMMA Counted ==
  ASSUME NEW b
  PROVE  /\ IsFiniteSet(Unsettled(b)) /\ Cardinality(Unsettled(b)) \in Nat
         /\ IsFiniteSet(LeftBehind(b)) /\ Cardinality(LeftBehind(b)) \in Nat
<1>1. Unsettled(b) \subseteq Handler /\ LeftBehind(b) \subseteq Handler
  BY DEF Unsettled, LeftBehind
<1>2. IsFiniteSet(Unsettled(b)) /\ IsFiniteSet(LeftBehind(b))
  BY <1>1, HandlerAssumption, FS_Subset
<1>. QED
  BY <1>2, FS_CardinalityType

\* A handler puts off the oldest of its requests, or all of them.
LEMMA Settles ==
  ASSUME TypeInv, NEW h \in Handler, NEW s \in Seq(Browser),
         reqs' = [reqs EXCEPT ![h] = s], ran' = [ran EXCEPT ![h] = FALSE],
         execs' = execs,
         conn' = conn \/ (conn = h /\ conn' = Shut /\ s = <<>>),
         \A b \in Browser : On(b, s) => On(b, reqs[h])
  PROVE  /\ MExecs' = [b \in Browser |-> IF ran[h] /\ Head(reqs[h]) = b
                                         THEN MExecs[b] + 1 ELSE MExecs[b]]
         /\ MStray' = [b \in Browser |->
                         IF h # conn /\ On(b, reqs[h]) /\ ~On(b, s)
                         THEN MStray[b] - 1 ELSE MStray[b]]
<1>0. /\ ran \in [Handler -> BOOLEAN] /\ reqs \in [Handler -> Seq(Browser)]
      /\ execs \in [Browser -> Nat]
      /\ reqs'[h] = s /\ ~ran'[h]
      /\ \A g \in Handler \ {h} : reqs'[g] = reqs[g] /\ ran'[g] = ran[g]
  BY DEF TypeInv
<1>1. ASSUME NEW b \in Browser
      PROVE  MExecs'[b] = IF ran[h] /\ Head(reqs[h]) = b
                          THEN MExecs[b] + 1 ELSE MExecs[b]
  <2>1. Unsettled(b)' = Unsettled(b) \ {h}
    BY <1>0 DEF Unsettled
  <2>2. h \in Unsettled(b) <=> ran[h] /\ Head(reqs[h]) = b
    BY DEF Unsettled
  <2>3. Cardinality(Unsettled(b)') = IF h \in Unsettled(b)
          THEN Cardinality(Unsettled(b)) - 1 ELSE Cardinality(Unsettled(b))
    BY <2>1, Counted, FS_RemoveElement
  <2>4. /\ MExecs'[b] = execs[b] - Cardinality(Unsettled(b)')
        /\ MExecs[b] = execs[b] - Cardinality(Unsettled(b))
    BY DEF MExecs
  <2>5. execs[b] \in Nat /\ Cardinality(Unsettled(b)) \in Nat
    BY <1>0, Counted
  <2>. QED
    BY <2>2, <2>3, <2>4, <2>5
<1>2. ASSUME NEW b \in Browser
      PROVE  MStray'[b] = IF h # conn /\ On(b, reqs[h]) /\ ~On(b, s)
                          THEN MStray[b] - 1 ELSE MStray[b]
  <2>0. LeftBehind(b) = {g \in Handler : g # conn /\ On(b, reqs[g])}
    BY DEF LeftBehind, On
  <2>1. LeftBehind(b)' = {g \in Handler : g # conn' /\ On(b, reqs'[g])}
    BY DEF LeftBehind, On
  <2>2. ~On(b, <<>>)
    BY DEF On
  <2>3. \A g \in Handler : g # h => (g # conn' <=> g # conn)
    BY SocketAssumption
  <2>4. \A g \in Handler : g # h =>
          (g \in LeftBehind(b)' <=> g \in LeftBehind(b))
    BY <1>0, <2>0, <2>1, <2>3
  <2>5. /\ h \in LeftBehind(b) <=> h # conn /\ On(b, reqs[h])
        /\ h \in LeftBehind(b)' <=> h # conn /\ On(b, s)
    BY <1>0, <2>0, <2>1, <2>2
  <2>6. LeftBehind(b)' = IF h # conn /\ On(b, reqs[h]) /\ ~On(b, s)
                         THEN LeftBehind(b) \ {h} ELSE LeftBehind(b)
    <3>1. LeftBehind(b) \subseteq Handler /\ LeftBehind(b)' \subseteq Handler
      BY <2>0, <2>1
    <3>2. CASE h # conn /\ On(b, reqs[h]) /\ ~On(b, s)
      <4>1. h \notin LeftBehind(b)'
        BY <3>2, <2>5
      <4>2. \A g : g \in LeftBehind(b)' <=> g \in LeftBehind(b) /\ g # h
        BY <3>1, <4>1, <2>4
      <4>3. LeftBehind(b)' = LeftBehind(b) \ {h}
        BY <4>2
      <4>. QED
        BY <3>2, <4>3
    <3>3. CASE ~(h # conn /\ On(b, reqs[h]) /\ ~On(b, s))
      <4>1. h \in LeftBehind(b)' <=> h \in LeftBehind(b)
        BY <3>3, <2>5
      <4>2. \A g : g \in LeftBehind(b)' <=> g \in LeftBehind(b)
        BY <3>1, <4>1, <2>4
      <4>3. LeftBehind(b)' = LeftBehind(b)
        BY <4>2
      <4>. QED
        BY <3>3, <4>3
    <3>. QED
      BY <3>2, <3>3
  <2>7. /\ MStray'[b] = Cardinality(LeftBehind(b)')
        /\ MStray[b] = Cardinality(LeftBehind(b))
    BY DEF MStray
  <2>8. h \in LeftBehind(b) =>
          Cardinality(LeftBehind(b) \ {h}) = Cardinality(LeftBehind(b)) - 1
    BY Counted, FS_RemoveElement
  <2>. QED
    BY <2>5, <2>6, <2>7, <2>8
<1>3. /\ MExecs' = [b \in Browser |-> MExecs'[b]]
      /\ MStray' = [b \in Browser |-> MStray'[b]]
  BY DEF MExecs, MStray
<1>. QED
  BY <1>1, <1>2, <1>3

(***************************************************************************)
(* What the steps of the handlers are to the tunnel.                       *)
(***************************************************************************)
LEMMA Unseen ==
  ASSUME UNCHANGED <<threadVars, conn, wireVars, MUp, MStray, MExecs>>
  PROVE  UNCHANGED Tunnel!vars
BY DEF Tunnel!vars, Tunnel!wireVars, threadVars, wireVars, MUp, MStray, MExecs

\* Without a change of connection or work, the tunnel sees nothing.
LEMMA SameWork ==
  ASSUME UNCHANGED <<conn, workVars>>
  PROVE  UNCHANGED <<MUp, MStray, MExecs>>
BY DEF workVars, MUp, MStray, MExecs, Unsettled, LeftBehind

\* The request is carried out; the tunnel sees that with its answer.
LEMMA ForwardUnseen ==
  ASSUME SysInv, NEW h \in Handler, Forward(h)
  PROVE  UNCHANGED Tunnel!vars
<1>0. /\ hpc[h] = "forward" /\ reqs[h] # <<>> /\ ~ran[h]
      /\ ran \in [Handler -> BOOLEAN] /\ reqs \in [Handler -> Seq(Browser)]
      /\ execs \in [Browser -> Nat]
      /\ ran' = [ran EXCEPT ![h] = TRUE]
      /\ execs' = [execs EXCEPT ![Head(reqs[h])] = @ + 1]
      /\ UNCHANGED <<threadVars, socketVars, wireVars, reqs>>
  BY DEF Forward, Server!Forward, Server!Step, SysInv, TypeInv, HandlerOK, InHand
<1>1. Head(reqs[h]) \in Browser
  BY <1>0, TailElements
<1>2. ASSUME NEW b \in Browser
      PROVE  MExecs'[b] = MExecs[b]
  <2>1. /\ MExecs'[b] = execs'[b] - Cardinality(Unsettled(b)')
        /\ MExecs[b] = execs[b] - Cardinality(Unsettled(b))
        /\ execs[b] \in Nat /\ Cardinality(Unsettled(b)) \in Nat
    BY <1>0, Counted DEF MExecs
  <2>2. h \notin Unsettled(b)
    BY <1>0 DEF Unsettled
  <2>3. CASE b = Head(reqs[h])
    <3>1. Unsettled(b)' = Unsettled(b) \cup {h}
      BY <1>0, <2>3 DEF Unsettled
    <3>2. Cardinality(Unsettled(b)') = Cardinality(Unsettled(b)) + 1
      BY <2>2, <3>1, Counted, FS_AddElement
    <3>3. execs'[b] = execs[b] + 1
      BY <1>0, <2>3
    <3>. QED
      BY <2>1, <3>2, <3>3
  <2>4. CASE b # Head(reqs[h])
    <3>1. Unsettled(b)' = Unsettled(b)
      BY <1>0, <2>4 DEF Unsettled
    <3>2. execs'[b] = execs[b]
      BY <1>0, <1>1, <2>4
    <3>. QED
      BY <2>1, <3>1, <3>2
  <2>. QED
    BY <2>3, <2>4
<1>3. MExecs' = MExecs
  BY <1>2 DEF MExecs
<1>4. UNCHANGED <<MUp, MStray>>
  BY <1>0 DEF socketVars, MUp, MStray, LeftBehind
<1>. QED
  BY <1>0, <1>3, <1>4, Unseen DEF socketVars

\* A step of a handler on a connection the client has given up.
LEMMA StrayStep ==
  ASSUME SysInv, NEW h \in Handler, h # conn, NEW s \in Seq(Browser),
         reqs' = [reqs EXCEPT ![h] = s], ran' = [ran EXCEPT ![h] = FALSE],
         UNCHANGED <<threadVars, conn, wireVars, execs>>,
         \A b \in Browser : On(b, s) => On(b, reqs[h]),
         ran[h] => Head(reqs[h]) \in Browser /\ On(Head(reqs[h]), reqs[h])
                     /\ ~On(Head(reqs[h]), s)
  PROVE  Tunnel!StrayRequests
<1>. DEFINE ended == {b \in Browser : On(b, reqs[h]) /\ ~On(b, s)}
<1>0. TypeInv /\ reqs \in [Handler -> Seq(Browser)]
  BY DEF SysInv, TypeInv
<1>1. /\ MExecs' = [b \in Browser |-> IF ran[h] /\ Head(reqs[h]) = b
                                      THEN MExecs[b] + 1 ELSE MExecs[b]]
      /\ MStray' = [b \in Browser |-> IF h # conn /\ On(b, reqs[h]) /\ ~On(b, s)
                                      THEN MStray[b] - 1 ELSE MStray[b]]
  BY <1>0, Settles
<1>2. MStray' = [b \in Browser |-> IF b \in ended THEN MStray[b] - 1 ELSE MStray[b]]
  BY <1>1
<1>3. ended \in SUBSET {b \in Browser : MStray[b] > 0}
  <2>1. ASSUME NEW b \in ended
        PROVE  MStray[b] > 0
    <3>1. h \in LeftBehind(b)
      BY DEF LeftBehind, On
    <3>2. Cardinality(LeftBehind(b)) # 0 /\ Cardinality(LeftBehind(b)) \in Nat
      BY <3>1, Counted, FS_EmptySet
    <3>. QED
      BY <3>2 DEF MStray
  <2>. QED
    BY <2>1
<1>4. MExecs' = MExecs \/ \E r \in ended : MExecs' = [MExecs EXCEPT ![r] = @ + 1]
  <2>1. CASE ran[h]
    <3>1. Head(reqs[h]) \in ended
      BY <2>1
    <3>2. MExecs' = [MExecs EXCEPT ![Head(reqs[h])] = @ + 1]
      BY <1>1, <2>1, <3>1 DEF MExecs
    <3>. QED
      BY <3>1, <3>2
  <2>2. CASE ~ran[h]
    BY <1>1, <2>2 DEF MExecs
  <2>. QED
    BY <2>1, <2>2
<1>5. UNCHANGED <<pc, attempt, result, lock, Tunnel!wireVars>>
  <2>1. MUp' = MUp
    BY <1>0 DEF MUp
  <2>. QED
    BY <2>1 DEF MUp, threadVars, wireVars, Tunnel!wireVars
<1>. HIDE DEF ended
<1>. QED
  BY <1>2, <1>3, <1>4, <1>5 DEF Tunnel!StrayRequests, MStray, MExecs

\* The oldest request is not among the others.
LEMMA OldestOnce ==
  ASSUME SysInv, NEW h \in Handler, reqs[h] # <<>>
  PROVE  /\ Head(reqs[h]) \in Browser /\ On(Head(reqs[h]), reqs[h])
         /\ Tail(reqs[h]) \in Seq(Browser)
         /\ ~On(Head(reqs[h]), Tail(reqs[h]))
         /\ \A b \in Browser : On(b, Tail(reqs[h])) => On(b, reqs[h])
<1>1. reqs[h] \in Seq(Browser)
  BY DEF SysInv, TypeInv
<1>2. /\ Head(reqs[h]) \in Browser /\ Tail(reqs[h]) \in Seq(Browser)
      /\ Head(reqs[h]) = reqs[h][1]
      /\ Len(reqs[h]) \in Nat /\ Len(reqs[h]) >= 1
      /\ Len(Tail(reqs[h])) = Len(reqs[h]) - 1
      /\ \A k \in 1..Len(reqs[h]) - 1 : Tail(reqs[h])[k] = reqs[h][k + 1]
  BY <1>1, TailElements
<1>3. \A i, j \in 1..Len(reqs[h]) : reqs[h][i] = reqs[h][j] => i = j
  BY DEF SysInv, HandlerOK
<1>4. On(Head(reqs[h]), reqs[h])
  BY <1>2 DEF On
<1>5. ASSUME NEW k \in 1..Len(Tail(reqs[h]))
      PROVE  /\ k + 1 \in 1..Len(reqs[h]) /\ Tail(reqs[h])[k] = reqs[h][k + 1]
             /\ Tail(reqs[h])[k] # Head(reqs[h])
  <2>1. k \in 1..Len(reqs[h]) - 1 /\ k + 1 \in 1..Len(reqs[h]) /\ 1 \in 1..Len(reqs[h])
        /\ k + 1 # 1
    BY <1>2
  <2>. QED
    BY <1>2, <1>3, <2>1
<1>. QED
  BY <1>2, <1>4, <1>5 DEF On

\* An answer is a step of TunnelClient's server.
LEMMA ReplyMaps ==
  ASSUME SysInv, NEW h \in Handler, Reply(h)
  PROVE  Tunnel!Server
<1>0. /\ hpc[h] \in {"reply", "limited"} /\ reqs[h] # <<>>
      /\ hpc[h] = "reply" <=> ran[h]
      /\ TypeInv
      /\ reqs' = [reqs EXCEPT ![h] = Tail(@)] /\ ran' = [ran EXCEPT ![h] = FALSE]
      /\ down' = IF h = conn THEN Append(down, Answer(h)) ELSE down
      /\ UNCHANGED <<threadVars, socketVars, upCut, downCut, poisoned, execs>>
  BY DEF Reply, Server!SendOk, Server!Step, SysInv, TypeInv, HandlerOK, InHand
<1>1. /\ reqs \in [Handler -> Seq(Browser)]
      /\ reqs' = [reqs EXCEPT ![h] = Tail(reqs[h])] /\ conn' = conn
  BY <1>0 DEF TypeInv, socketVars
<1>2. CASE h # conn
  <2>1. UNCHANGED <<threadVars, conn, wireVars, execs>>
    BY <1>0, <1>2 DEF socketVars, wireVars
  <2>2. Tunnel!StrayRequests
    BY <1>0, <1>1, <1>2, <2>1, OldestOnce, StrayStep
  <2>. QED
    BY <2>2 DEF Tunnel!Server
<1>3. CASE h = conn
  <2>1. /\ MUp = reqs[h] /\ MUp' = Tail(reqs[h]) /\ conn # NoSocket
    BY <1>1, <1>3, SocketAssumption DEF MUp
  <2>2. /\ MStray' = MStray
        /\ MExecs' = [b \in Browser |-> IF ran[h] /\ Head(reqs[h]) = b
                                        THEN MExecs[b] + 1 ELSE MExecs[b]]
    <3>1. /\ MStray' = [b \in Browser |->
                          IF h # conn /\ On(b, reqs[h]) /\ ~On(b, Tail(reqs[h]))
                          THEN MStray[b] - 1 ELSE MStray[b]]
          /\ MExecs' = [b \in Browser |-> IF ran[h] /\ Head(reqs[h]) = b
                                          THEN MExecs[b] + 1 ELSE MExecs[b]]
      BY <1>0, <1>1, OldestOnce, Settles
    <3>. QED
      BY <1>3, <3>1 DEF MStray
  <2>3. Tunnel!ServerReads
    BY <1>0, <1>1, <2>1, <2>2
       DEF Tunnel!ServerReads, MUp, MStray, threadVars, socketVars
  <2>4. CASE hpc[h] = "reply"
    <3>1. MExecs' = [MExecs EXCEPT ![Head(MUp)] = @ + 1]
      BY <1>0, <2>1, <2>2, <2>4 DEF MExecs
    <3>2. down' = Append(down, Head(MUp))
      BY <1>0, <1>3, <2>1, <2>4 DEF Answer
    <3>3. MUp' = Tail(MUp)
      BY <2>1
    <3>4. Tunnel!ServerAnswers
      BY <1>1, <2>3, <3>1, <3>2, <3>3 DEF Tunnel!ServerAnswers, MUp, MExecs
    <3>. QED
      BY <3>4 DEF Tunnel!Server
  <2>5. CASE hpc[h] = "limited"
    <3>1. MExecs' = MExecs
      BY <1>0, <2>2, <2>5 DEF MExecs
    <3>2. down' = Append(down, ErrorFrame)
      BY <1>0, <1>3, <2>5 DEF Answer
    <3>3. MUp' = Tail(MUp)
      BY <2>1
    <3>4. Tunnel!ServerRefuses
      BY <1>1, <2>3, <3>1, <3>2, <3>3 DEF Tunnel!ServerRefuses, MUp, MExecs
    <3>. QED
      BY <3>4 DEF Tunnel!Server
  <2>. QED
    BY <1>0, <2>4, <2>5
<1>. QED
  BY <1>2, <1>3

\* So is the close of a connection: a hang-up, or the end of a stray request.
LEMMA CloseMaps ==
  ASSUME SysInv, NEW h \in Handler, Close(h)
  PROVE  Tunnel!Server
<1>0. /\ ran[h] => reqs[h] # <<>>
      /\ TypeInv
      /\ reqs' = [reqs EXCEPT ![h] = <<>>] /\ ran' = [ran EXCEPT ![h] = FALSE]
      /\ conn' = AfterClose(h, conn)
      /\ UNCHANGED <<threadVars, welcomed, wireVars, execs>>
  BY DEF Close, SysInv, HandlerOK
<1>1. reqs \in [Handler -> Seq(Browser)] /\ <<>> \in Seq(Browser)
  BY <1>0, EmptySeq DEF TypeInv
<1>2. \A b \in Browser : ~On(b, <<>>)
  BY DEF On
<1>3. CASE h # conn
  <2>1. conn' = conn
    BY <1>0, <1>3 DEF AfterClose
  <2>2. ran[h] => Head(reqs[h]) \in Browser /\ On(Head(reqs[h]), reqs[h])
    BY <1>0, OldestOnce
  <2>3. Tunnel!StrayRequests
    BY <1>0, <1>1, <1>2, <1>3, <2>1, <2>2, StrayStep
  <2>. QED
    BY <2>3 DEF Tunnel!Server
<1>4. CASE h = conn
  <2>1. /\ conn' = Shut /\ conn # NoSocket /\ conn # Shut /\ conn' # NoSocket
        /\ MUp = reqs[h] /\ MUp' = <<>>
    BY <1>0, <1>4, SocketAssumption DEF MUp, AfterClose
  <2>2. /\ MStray' = MStray
        /\ MExecs' = [b \in Browser |-> IF ran[h] /\ Head(reqs[h]) = b
                                        THEN MExecs[b] + 1 ELSE MExecs[b]]
    <3>1. /\ MStray' = [b \in Browser |->
                          IF h # conn /\ On(b, reqs[h]) /\ ~On(b, <<>>)
                          THEN MStray[b] - 1 ELSE MStray[b]]
          /\ MExecs' = [b \in Browser |-> IF ran[h] /\ Head(reqs[h]) = b
                                          THEN MExecs[b] + 1 ELSE MExecs[b]]
      BY <1>0, <1>1, <1>2, <1>4, <2>1, Settles
    <3>. QED
      BY <1>4, <3>1 DEF MStray
  <2>3. CASE ran[h]
    <3>1. MExecs' = [MExecs EXCEPT ![Head(MUp)] = @ + 1]
      BY <2>1, <2>2, <2>3 DEF MExecs
    <3>2. Tunnel!ServerReads
      BY <1>0, <2>1, <2>2, <2>3
         DEF Tunnel!ServerReads, MUp, MStray, threadVars, wireVars
    <3>3. Tunnel!ServerChokes
      BY <1>0, <2>1, <3>1, <3>2 DEF Tunnel!ServerChokes, MUp, MExecs, wireVars
    <3>. QED
      BY <3>3 DEF Tunnel!Server
  <2>4. CASE ~ran[h]
    <3>1. MExecs' = MExecs
      BY <2>2, <2>4 DEF MExecs
    <3>2. Tunnel!ServerHangsUp
      BY <1>0, <2>1, <2>2, <3>1
         DEF Tunnel!ServerHangsUp, MUp, MStray, MExecs, threadVars, wireVars
    <3>. QED
      BY <3>2 DEF Tunnel!Server
  <2>. QED
    BY <2>3, <2>4
<1>. QED
  BY <1>3, <1>4

\* Every step is one of TunnelClient, or none for it.
LEMMA StepMaps ==
  ASSUME SysInv, [Next]_vars
  PROVE  [Tunnel!Next]_(Tunnel!vars)
<1>1. ASSUME NEW b \in Browser, Client(b)
      PROVE  Tunnel!Next \/ UNCHANGED Tunnel!vars
  <2>1. CASE Alone(b)
    BY <2>1 DEF Alone, Tunnel!Next, Tunnel!Request, Tunnel!Recover
  <2>2. CASE ConnectSocket(b)
    BY <2>2, SameWork, Unseen DEF ConnectSocket, workVars
  <2>3. CASE Connected(b) \/ ConnectFails(b)
    BY <2>3 DEF Connected, ConnectFails, Tunnel!Next, Tunnel!Request, Tunnel!Recover
  <2>4. CASE SendOk(b) \/ GiveUp(b)
    BY <2>4 DEF SendOk, GiveUp, Tunnel!Next, Tunnel!Request, Tunnel!Recover
  <2>. QED
    BY <1>1, <2>1, <2>2, <2>3, <2>4 DEF Client
<1>2. ASSUME NEW h \in Handler, Handle(h) \/ Forward(h) \/ FreeSocket(h)
      PROVE  Tunnel!Next \/ UNCHANGED Tunnel!vars
  <2>1. CASE HandleAlone(h) \/ DropIdle(h) \/ HandshakeOk(h) \/ FreeSocket(h)
    <3>1. UNCHANGED <<threadVars, conn, wireVars, workVars>>
      BY <2>1 DEF HandleAlone, DropIdle, HandshakeOk, FreeSocket, clientVars, socketVars
    <3>. QED
      BY <3>1, SameWork, Unseen
  <2>2. CASE Forward(h)
    BY <2>2, ForwardUnseen
  <2>3. CASE Reply(h) \/ Close(h)
    BY <2>3, ReplyMaps, CloseMaps DEF Tunnel!Next
  <2>. QED
    BY <1>2, <2>1, <2>2, <2>3 DEF Handle
<1>3. CASE CloseTunnel
  BY <1>3 DEF CloseTunnel, Tunnel!Next
<1>4. CASE UNCHANGED vars
  BY <1>4, SameWork, Unseen DEF vars, clientVars, socketVars
<1>. QED
  BY <1>1, <1>2, <1>3, <1>4 DEF Next

(***************************************************************************)
(* Every step keeps the invariant.                                         *)
(***************************************************************************)
LEMMA Moves ==
  ASSUME SysInv, NEW h \in Handler, NEW to, Moved(h, to)
  PROVE  /\ hpc' \in [Handler -> Server!Label]
         /\ inbox' \in [Handler -> Seq(Server!Frame)]
         /\ inbox[h] = <<>> => inbox'[h] = <<>>
         /\ \A g \in Handler \ {h} : UNCHANGED <<hpc[g], inbox[g]>>
         /\ Established(h) => Established(h)'
         /\ Established(h) /\ Server!Serving(h)' =>
              /\ Server!Serving(h)
              /\ Len(inbox'[h]) + Hand(h)' <= Len(inbox[h]) + Hand(h)
<1>0. /\ hpc \in [Handler -> Server!Label] /\ hpc' = [hpc EXCEPT ![h] = to]
      /\ inbox \in [Handler -> Seq(Server!Frame)]
  BY DEF SysInv, TypeInv, Moved
<1>1. CASE inbox' = inbox /\ <<hpc[h], to>> \in Ways
  <2>1. to \in Server!Label /\ hpc'[h] = to
    BY <1>0, <1>1 DEF Ways, Server!Label
  <2>2. Established(h) => Established(h)'
    BY <1>1, <2>1 DEF Ways, Established, Server!Serving
  <2>3. Established(h) /\ Server!Serving(h)' => Server!Serving(h) /\ Hand(h)' <= Hand(h)
    BY <1>1, <2>1 DEF Ways, Established, Server!Serving, Hand, InHand
  <2>4. Len(inbox[h]) \in Nat /\ Hand(h) \in Nat /\ Hand(h)' \in Nat
    BY <1>0 DEF Hand
  <2>. QED
    BY <1>0, <1>1, <2>1, <2>2, <2>3, <2>4
<1>2. CASE /\ hpc[h] = "recv" /\ inbox[h] # <<>>
           /\ inbox' = [inbox EXCEPT ![h] = Tail(@)]
           /\ to = "release" \/ (to = "rate" /\ Head(inbox[h]) = "request")
  <2>1. to \in Server!Label /\ hpc'[h] = to
    BY <1>0, <1>2 DEF Server!Label
  <2>2. /\ Tail(inbox[h]) \in Seq(Server!Frame) /\ inbox'[h] = Tail(inbox[h])
        /\ Len(inbox[h]) \in Nat /\ Len(inbox'[h]) = Len(inbox[h]) - 1
    BY <1>0, <1>2, TailElements
  <2>3. Established(h)' /\ Server!Serving(h)
    BY <1>2, <2>1 DEF Established, Server!Serving
  <2>4. Hand(h) = 0 /\ Hand(h)' \in 0..1
    BY <1>2 DEF Hand, InHand
  <2>. QED
    BY <1>0, <1>2, <2>1, <2>2, <2>3, <2>4
<1>. QED
  BY <1>1, <1>2 DEF Moved

\* The steps of a handler that acts alone keep the invariant.
LEMMA MoveKeepsInv ==
  ASSUME SysInv, NEW h \in Handler, HandleAlone(h) \/ DropIdle(h) \/ HandshakeOk(h)
  PROVE  SysInv'
<1>1. PICK to : Moved(h, to)
  BY HandlerMoves
<1>2. UNCHANGED <<threadVars, conn, dialled, wireVars, workVars>>
  BY DEF HandleAlone, DropIdle, HandshakeOk, clientVars, socketVars
<1>3. /\ welcomed' \in BOOLEAN
      /\ welcomed' => welcomed \/ (h = dialled /\ hpc'[h] = "loop")
  <2>1. CASE HandleAlone(h) \/ DropIdle(h)
    BY <2>1 DEF HandleAlone, DropIdle, clientVars, socketVars, SysInv, TypeInv
  <2>2. CASE HandshakeOk(h)
    <3>1. welcomed' = (welcomed \/ h = dialled) /\ hpc' = [hpc EXCEPT ![h] = "loop"]
      BY <2>2 DEF HandshakeOk, Server!HandshakeOk, Server!Step
    <3>. QED
      BY <3>1 DEF SysInv, TypeInv
  <2>. QED
    BY <2>1, <2>2
<1>4. TypeInv'
  BY <1>1, <1>2, <1>3, Moves DEF SysInv, TypeInv, workVars, threadVars
<1>5. \A g \in Handler : HandlerOK(g)'
  BY <1>1, <1>2, MoveKeepsHandler DEF workVars
<1>6. LockOK'
  BY <1>2 DEF SysInv, LockOK, threadVars
<1>7. DialOK'
  <2>1. ASSUME NEW d \in Handler, d = dialled
        PROVE  inbox'[d] = <<>> /\ (welcomed' => Established(d)')
    <3>0. inbox[d] = <<>> /\ (welcomed => Established(d))
      BY <2>1 DEF SysInv, DialOK
    <3>1. CASE d = h
      <4>1. inbox'[h] = <<>> /\ (Established(h) => Established(h)')
        BY <1>1, <3>0, <3>1, Moves
      <4>2. hpc'[h] = "loop" => Established(h)'
        BY DEF Established, Server!Serving
      <4>. QED
        BY <1>3, <3>0, <3>1, <4>1, <4>2
    <3>2. CASE d # h
      <4>1. hpc'[d] = hpc[d] /\ inbox'[d] = inbox[d]
        BY <1>1, <3>2, Moves
      <4>2. welcomed' => welcomed
        BY <1>3, <2>1, <3>2
      <4>. QED
        BY <3>0, <4>1, <4>2 DEF Established, Server!Serving
    <3>. QED
      BY <3>1, <3>2
  <2>2. (dialled # NoSocket => conn = NoSocket) /\ (welcomed' => dialled # NoSocket)
    BY <1>3, SocketAssumption DEF SysInv, DialOK
  <2>. QED
    BY <1>2, <2>1, <2>2 DEF SysInv, DialOK, workVars
<1>8. ConnOK'
  <2>1. SUFFICES ASSUME conn \in Handler PROVE ConnOK'
    BY <1>2 DEF ConnOK
  <2>2. /\ Established(conn)
        /\ Server!Serving(conn) /\ ~upCut
             => Len(inbox[conn]) + Hand(conn) <= Len(reqs[conn])
        /\ reqs[conn] \in Seq(Browser) /\ inbox[conn] \in Seq(Server!Frame)
    BY <2>1 DEF SysInv, ConnOK, TypeInv
  <2>3. /\ Established(conn)'
        /\ Server!Serving(conn)' => Server!Serving(conn)
        /\ Server!Serving(conn)' =>
              Len(inbox'[conn]) + Hand(conn)' <= Len(inbox[conn]) + Hand(conn)
    <3>1. CASE conn = h
      BY <1>1, <1>2, <2>2, <3>1, Moves DEF Established, Hand, InHand, Server!Serving
    <3>2. CASE conn # h
      <4>1. UNCHANGED <<hpc[conn], inbox[conn]>>
        BY <1>1, <1>2, <2>1, <3>2, Moves
      <4>2. Hand(conn)' = Hand(conn) /\ Hand(conn) \in Nat /\ Len(inbox[conn]) \in Nat
        BY <1>2, <2>2, <4>1 DEF Hand, InHand
      <4>. QED
        BY <1>2, <2>2, <4>1, <4>2 DEF Established, Server!Serving
    <3>. QED
      BY <3>1, <3>2
  <2>4. /\ Hand(conn) \in Nat /\ Hand(conn)' \in Nat
        /\ Len(inbox[conn]) \in Nat /\ Len(reqs[conn]) \in Nat
    BY <2>2 DEF Hand
  <2>5. inbox'[conn] \in Seq(Server!Frame) /\ Len(inbox'[conn]) \in Nat
    BY <1>4, <2>1 DEF TypeInv
  <2>6. Server!Serving(conn)' /\ ~upCut'
          => Len(inbox'[conn]) + Hand(conn)' <= Len(reqs[conn])
    BY <1>2, <2>2, <2>3, <2>4, <2>5 DEF wireVars
  <2>. QED
    BY <1>2, <2>1, <2>3, <2>6 DEF SysInv, ConnOK, workVars, threadVars
<1>. QED
  BY <1>4, <1>5, <1>6, <1>7, <1>8 DEF SysInv

\* So do steps that change nothing it speaks of.
LEMMA SameKeepsInv ==
  ASSUME SysInv, UNCHANGED <<hpc, inbox, threadVars, socketVars, upCut, workVars>>
  PROVE  SysInv'
<1>1. /\ hpc' = hpc /\ inbox' = inbox /\ reqs' = reqs /\ ran' = ran /\ execs' = execs
      /\ pc' = pc /\ lock' = lock /\ upCut' = upCut
      /\ conn' = conn /\ dialled' = dialled /\ welcomed' = welcomed
  BY DEF threadVars, socketVars, workVars
<1>2. TypeInv'
  BY <1>1 DEF SysInv, TypeInv
<1>3. ASSUME NEW h \in Handler
      PROVE  HandlerOK(h)'
  BY <1>1 DEF SysInv, HandlerOK, Hand, InHand
<1>4. LockOK'
  BY <1>1 DEF SysInv, LockOK
<1>5. DialOK'
  BY <1>1 DEF SysInv, DialOK, Established, Server!Serving
<1>6. ConnOK'
  <2>1. SUFFICES ASSUME conn \in Handler
                 PROVE  /\ Established(conn)'
                        /\ Server!Serving(conn)' /\ ~upCut
                             => Len(inbox[conn]) + Hand(conn)' <= Len(reqs[conn])
                        /\ \A k \in 1..Len(reqs[conn]) :
                             pc[reqs[conn][k]] \in {"recv", "failed", "done"}
    BY <1>1 DEF ConnOK
  <2>2. ConnOK
    BY DEF SysInv
  <2>3. Established(conn)' /\ (Server!Serving(conn)' => Server!Serving(conn))
    BY <1>1, <2>1, <2>2 DEF ConnOK, Established, Server!Serving
  <2>4. Hand(conn)' = Hand(conn)
    BY <1>1 DEF Hand, InHand
  <2>. QED
    BY <2>1, <2>2, <2>3, <2>4 DEF ConnOK
<1>. QED
  BY <1>2, <1>3, <1>4, <1>5, <1>6 DEF SysInv

\* A step of one handler concerns no other one.
LEMMA OtherHandler ==
  ASSUME SysInv, NEW g \in Handler,
         UNCHANGED <<hpc[g], inbox[g], reqs[g], ran[g]>>
  PROVE  HandlerOK(g)'
<1>1. HandlerOK(g)
  BY DEF SysInv
<1>. QED
  BY <1>1 DEF HandlerOK, Hand, InHand

\* Carrying out a request keeps the invariant.
LEMMA ForwardKeepsInv ==
  ASSUME SysInv, NEW h \in Handler, Forward(h)
  PROVE  SysInv'
<1>0. /\ TypeInv /\ HandlerOK(h) /\ hpc[h] = "forward" /\ reqs[h] # <<>>
      /\ hpc' = [hpc EXCEPT ![h] = "reply"]
      /\ ran' = [ran EXCEPT ![h] = TRUE]
      /\ execs' = [execs EXCEPT ![Head(reqs[h])] = @ + 1]
      /\ UNCHANGED <<inbox, threadVars, socketVars, wireVars, reqs>>
  BY DEF Forward, Server!Forward, Server!Step, Server!connVars, SysInv, HandlerOK, InHand
<1>1. /\ hpc'[h] = "reply" /\ ran'[h]
      /\ \A g \in Handler \ {h} : hpc'[g] = hpc[g] /\ ran'[g] = ran[g]
  BY <1>0 DEF TypeInv
<1>2. TypeInv'
  <2>1. Head(reqs[h]) \in Browser
    BY <1>0, OldestOnce
  <2>2. execs[Head(reqs[h])] + 1 \in Nat
    BY <1>0, <2>1 DEF TypeInv
  <2>3. execs' \in [Browser -> Nat]
    BY <1>0, <2>1, <2>2 DEF TypeInv
  <2>4. hpc' \in [Handler -> Server!Label] /\ ran' \in [Handler -> BOOLEAN]
    BY <1>0 DEF TypeInv, Server!Label
  <2>. QED
    BY <1>0, <2>3, <2>4 DEF TypeInv, threadVars, socketVars
<1>3. ASSUME NEW g \in Handler
      PROVE  HandlerOK(g)'
  <2>1. CASE g # h
    BY <1>0, <1>1, <2>1, OtherHandler
  <2>2. CASE g = h
    BY <1>0, <1>1, <2>2 DEF HandlerOK, Hand, InHand, Fresh
  <2>. QED
    BY <2>1, <2>2
<1>4. \A g \in Handler : /\ Established(g)' <=> Established(g)
                         /\ Server!Serving(g)' <=> Server!Serving(g)
                         /\ Hand(g)' = Hand(g)
  BY <1>0, <1>1 DEF Established, Server!Serving, Hand, InHand
<1>5. LockOK' /\ DialOK' /\ ConnOK'
  <2>1. conn' = conn /\ dialled' = dialled /\ welcomed' = welcomed /\ pc' = pc
        /\ lock' = lock /\ upCut' = upCut /\ reqs' = reqs /\ inbox' = inbox
    BY <1>0 DEF threadVars, socketVars, wireVars
  <2>2. LockOK'
    BY <2>1 DEF SysInv, LockOK
  <2>3. DialOK'
    BY <1>4, <2>1 DEF SysInv, DialOK
  <2>4. ConnOK'
    BY <1>4, <2>1 DEF SysInv, ConnOK
  <2>. QED
    BY <2>2, <2>3, <2>4
<1>. QED
  BY <1>2, <1>3, <1>5 DEF SysInv

\* So does an answer: the next request becomes the oldest.
LEMMA ReplyKeepsInv ==
  ASSUME SysInv, NEW h \in Handler, Reply(h)
  PROVE  SysInv'
<1>0. /\ TypeInv /\ HandlerOK(h) /\ InHand(h) /\ reqs[h] # <<>>
      /\ hpc' = [hpc EXCEPT ![h] = "loop"]
      /\ reqs' = [reqs EXCEPT ![h] = Tail(@)] /\ ran' = [ran EXCEPT ![h] = FALSE]
      /\ UNCHANGED <<inbox, threadVars, socketVars, upCut, execs>>
  BY DEF Reply, Server!SendOk, Server!Step, Server!connVars, SysInv, HandlerOK, InHand
<1>1. /\ hpc'[h] = "loop" /\ ~ran'[h] /\ reqs'[h] = Tail(reqs[h])
      /\ \A g \in Handler \ {h} :
           hpc'[g] = hpc[g] /\ ran'[g] = ran[g] /\ reqs'[g] = reqs[g]
  BY <1>0 DEF TypeInv
<1>2. TypeInv'
  <2>1. Tail(reqs[h]) \in Seq(Browser)
    BY <1>0, OldestOnce
  <2>. QED
    BY <1>0, <2>1 DEF TypeInv, Server!Label, threadVars, socketVars
<1>3. /\ Len(reqs[h]) \in Nat /\ Len(reqs'[h]) = Len(reqs[h]) - 1
      /\ \A k \in 1..Len(reqs'[h]) :
           k + 1 \in 1..Len(reqs[h]) /\ reqs'[h][k] = reqs[h][k + 1]
      /\ Hand(h) = 1 /\ Hand(h)' = 0 /\ ~InHand(h)'
  <2>1. reqs[h] \in Seq(Browser)
    BY <1>0 DEF TypeInv
  <2>2. /\ Len(reqs[h]) \in Nat /\ Len(Tail(reqs[h])) = Len(reqs[h]) - 1
        /\ \A k \in 1..Len(reqs[h]) - 1 : Tail(reqs[h])[k] = reqs[h][k + 1]
    BY <1>0, <2>1, TailElements
  <2>3. Hand(h) = 1 /\ Hand(h)' = 0 /\ ~InHand(h)'
    BY <1>0, <1>1 DEF Hand, InHand
  <2>. QED
    BY <1>1, <2>2, <2>3
<1>4. ASSUME NEW g \in Handler
      PROVE  HandlerOK(g)'
  <2>1. CASE g # h
    BY <1>0, <1>1, <2>1, OtherHandler
  <2>2. CASE g = h
    <3>1. \A k \in 1..Len(inbox[h]) :
            inbox[h][k] = "request" => k + Hand(h)' <= Len(reqs'[h])
      <4>1. \A k \in 1..Len(inbox[h]) : inbox[h][k] = "request" => k + 1 <= Len(reqs[h])
        BY <1>0, <1>3 DEF HandlerOK
      <4>. QED
        BY <1>3, <4>1
    <3>2. \A i, j \in 1..Len(reqs'[h]) : reqs'[h][i] = reqs'[h][j] => i = j
      <4>1. \A i, j \in 1..Len(reqs[h]) : reqs[h][i] = reqs[h][j] => i = j
        BY <1>0 DEF HandlerOK
      <4>2. ASSUME NEW i \in 1..Len(reqs'[h]), NEW j \in 1..Len(reqs'[h]),
                   reqs'[h][i] = reqs'[h][j]
            PROVE  i = j
        <5>1. i + 1 = j + 1
          BY <1>3, <4>1, <4>2
        <5>. QED
          BY <1>3, <5>1
      <4>. QED
        BY <4>2
    <3>. QED
      BY <1>0, <1>1, <1>3, <2>2, <3>1, <3>2 DEF HandlerOK, Fresh
  <2>. QED
    BY <2>1, <2>2
<1>5. LockOK'
  BY <1>0 DEF SysInv, LockOK, threadVars, socketVars
<1>6. DialOK'
  <2>1. ASSUME NEW d \in Handler, d = dialled
        PROVE  reqs'[d] = <<>> /\ inbox'[d] = <<>> /\ (welcomed => Established(d)')
    <3>1. reqs[d] = <<>> /\ inbox[d] = <<>> /\ (welcomed => Established(d))
      BY <2>1 DEF SysInv, DialOK
    <3>2. d # h
      BY <1>0, <3>1
    <3>. QED
      BY <1>0, <1>1, <3>1, <3>2 DEF Established, Server!Serving
  <2>. QED
    BY <1>0, <2>1 DEF SysInv, DialOK, socketVars
<1>7. ConnOK'
  <2>1. SUFFICES ASSUME NEW c \in Handler, c = conn
                 PROVE  /\ Established(c)'
                        /\ Server!Serving(c)' /\ ~upCut
                             => Len(inbox[c]) + Hand(c)' <= Len(reqs'[c])
                        /\ \A k \in 1..Len(reqs'[c]) :
                             pc[reqs'[c][k]] \in {"recv", "failed", "done"}
    BY <1>0 DEF ConnOK, socketVars, threadVars
  <2>2. /\ Established(c)
        /\ Server!Serving(c) /\ ~upCut => Len(inbox[c]) + Hand(c) <= Len(reqs[c])
        /\ \A k \in 1..Len(reqs[c]) : pc[reqs[c][k]] \in {"recv", "failed", "done"}
    BY <2>1 DEF SysInv, ConnOK
  <2>3. CASE c = h
    <3>1. Server!Serving(h) /\ Established(h)' /\ Len(inbox[h]) \in Nat
      BY <1>0, <1>1 DEF Established, Server!Serving, InHand, TypeInv
    <3>. QED
      BY <1>3, <2>2, <2>3, <3>1
  <2>4. CASE c # h
    <3>1. hpc'[c] = hpc[c] /\ reqs'[c] = reqs[c]
      BY <1>1, <2>4
    <3>2. /\ Established(c)' <=> Established(c)
          /\ Server!Serving(c)' <=> Server!Serving(c)
          /\ Hand(c)' = Hand(c)
      BY <3>1 DEF Established, Server!Serving, Hand, InHand
    <3>. QED
      BY <2>2, <3>1, <3>2
  <2>. QED
    BY <2>3, <2>4
<1>. QED
  BY <1>2, <1>4, <1>5, <1>6, <1>7 DEF SysInv

\* So does the close of a connection.
LEMMA CloseKeepsInv ==
  ASSUME SysInv, NEW h \in Handler, Close(h)
  PROVE  SysInv'
<1>0. /\ TypeInv
      /\ hpc' = [hpc EXCEPT ![h] = "free"] /\ inbox' = [inbox EXCEPT ![h] = <<>>]
      /\ reqs' = [reqs EXCEPT ![h] = <<>>] /\ ran' = [ran EXCEPT ![h] = FALSE]
      /\ conn' = AfterClose(h, conn) /\ dialled' = AfterClose(h, dialled)
      /\ UNCHANGED <<threadVars, welcomed, upCut, execs>>
  BY DEF Close, Server!Close, Server!Step, SysInv, wireVars
<1>1. /\ hpc'[h] = "free" /\ inbox'[h] = <<>> /\ reqs'[h] = <<>> /\ ~ran'[h]
      /\ \A g \in Handler \ {h} :
           UNCHANGED <<hpc[g], inbox[g], reqs[g], ran[g]>>
  BY <1>0 DEF TypeInv
<1>2. /\ conn' \in Handler \cup {NoSocket, Shut}
      /\ dialled' \in Handler \cup {NoSocket, Shut}
      /\ conn' \in Handler => conn' = conn /\ conn # h
      /\ dialled' \in Handler => dialled' = dialled /\ dialled # h
      /\ conn' = NoSocket <=> conn = NoSocket
      /\ dialled' = NoSocket <=> dialled = NoSocket
  BY <1>0, SocketAssumption DEF AfterClose, TypeInv
<1>3. TypeInv'
  <2>1. <<>> \in Seq(Server!Frame) /\ <<>> \in Seq(Browser)
    BY EmptySeq
  <2>. QED
    BY <1>0, <1>2, <2>1 DEF TypeInv, Server!Label, threadVars
<1>4. ASSUME NEW g \in Handler
      PROVE  HandlerOK(g)'
  <2>1. CASE g # h
    BY <1>1, <2>1, OtherHandler
  <2>2. CASE g = h
    BY <1>1, <2>2 DEF HandlerOK, InHand, Fresh
  <2>. QED
    BY <2>1, <2>2
<1>5. LockOK'
  BY <1>0, <1>2 DEF SysInv, LockOK, threadVars
<1>6. DialOK'
  <2>1. dialled' \in Handler =>
          /\ reqs'[dialled'] = <<>> /\ inbox'[dialled'] = <<>>
          /\ welcomed' => Established(dialled)'
    BY <1>0, <1>1, <1>2 DEF SysInv, DialOK, Established, Server!Serving
  <2>. QED
    BY <1>0, <1>2, <2>1 DEF SysInv, DialOK
<1>7. ConnOK'
  <2>1. SUFFICES ASSUME NEW c \in Handler, c = conn, c = conn', c # h
                 PROVE  /\ Established(c)'
                        /\ Server!Serving(c)' /\ ~upCut
                             => Len(inbox'[c]) + Hand(c)' <= Len(reqs'[c])
                        /\ \A k \in 1..Len(reqs'[c]) :
                             pc[reqs'[c][k]] \in {"recv", "failed", "done"}
    BY <1>0, <1>2 DEF ConnOK, threadVars
  <2>2. UNCHANGED <<hpc[c], inbox[c], reqs[c]>>
    BY <1>1, <2>1
  <2>. QED
    BY <2>1, <2>2 DEF SysInv, ConnOK, Established, Server!Serving, Hand, InHand
<1>. QED
  BY <1>3, <1>4, <1>5, <1>6, <1>7 DEF SysInv

(***************************************************************************)
(* The client's steps.                                                     *)
(***************************************************************************)
Inside == {"dial", "send", "recv", "redial"}

\* A thread takes, keeps or gives back the lock as it enters or leaves a with block.
LEMMA LockKept ==
  ASSUME SysInv, NEW b \in Browser, NEW to, pc' = [pc EXCEPT ![b] = to],
         \/ lock' = lock /\ (to \in Inside <=> pc[b] \in Inside)
         \/ lock = NoThread /\ lock' = b /\ to \in Inside
         \/ pc[b] \in Inside /\ lock' = NoThread /\ to \notin Inside
  PROVE  \A a \in Browser : pc'[a] \in Inside <=> lock' = a
<1>1. \A a \in Browser : pc[a] \in Inside <=> lock = a
  BY DEF SysInv, LockOK, Inside
<1>2. pc'[b] = to /\ \A a \in Browser \ {b} : pc'[a] = pc[a]
  BY DEF SysInv, TypeInv
<1>. QED
  BY <1>1, <1>2, BrowserAssumption

\* How a thread goes on without touching a connection.
Goes(b, to) ==
  /\ pc' = [pc EXCEPT ![b] = to]
  /\ \/ pc[b] \in {"idle", "backoff"} /\ to = "want" /\ lock' = lock
     \/ /\ pc[b] = "want" /\ lock = NoThread /\ lock' = b
        /\ to = IF conn # NoSocket THEN "send" ELSE "dial"
     \/ /\ pc[b] \in {"send", "recv"} /\ lock' = NoThread
        /\ to = "failed" \/ (to = "done" /\ pc[b] = "recv")

\* Steps in which a thread only goes on leave the connections as they are, with
\* fewer and fewer frames that make sense to the server.
LEMMA AloneKeepsInv ==
  ASSUME SysInv, NEW b \in Browser, Alone(b)
  PROVE  SysInv'
<1>0. /\ UNCHANGED <<hpc, inbox, socketVars, reqs, ran, execs>>
      /\ TypeInv /\ LockOK /\ DialOK /\ ConnOK
      /\ \A g \in Handler : HandlerOK(g)
  BY DEF Alone, serverVars, SysInv
<1>1. \E to \in Tunnel!Label : Goes(b, to)
  <2>1. CASE Tunnel!Call(b)
    BY <2>1 DEF Tunnel!Call, Tunnel!Goto, Tunnel!Label, Goes
  <2>2. CASE Tunnel!Acquire(b)
    BY <2>2 DEF Tunnel!Acquire, Tunnel!Goto, Tunnel!Label, Goes
  <2>3. CASE Tunnel!Backoff(b)
    BY <2>3 DEF Tunnel!Backoff, Tunnel!Goto, Tunnel!Label, Goes
  <2>4. CASE Tunnel!SendFails(b)
    BY <2>4 DEF Tunnel!SendFails, Tunnel!Fail, Tunnel!Unlock, Tunnel!Goto, Tunnel!Label,
       Goes
  <2>5. CASE Tunnel!Receive(b)
    BY <2>5 DEF Tunnel!Receive, Tunnel!RecvResponse, Tunnel!RecvError, Tunnel!RecvBroken,
       Tunnel!RecvTimeout, Tunnel!Fail, Tunnel!Unlock, Tunnel!Goto, Tunnel!Label, Goes
  <2>. QED
    BY <2>1, <2>2, <2>3, <2>4, <2>5 DEF Alone
<1>2. PICK to \in Tunnel!Label : Goes(b, to)
  BY <1>1
<1>3. ~upCut' => ~upCut
  BY DEF Alone, Tunnel!Call, Tunnel!Acquire, Tunnel!Backoff, Tunnel!SendFails,
     Tunnel!Receive, Tunnel!RecvResponse, Tunnel!RecvError, Tunnel!RecvBroken,
     Tunnel!RecvTimeout, Tunnel!wireVars
<1>4. pc'[b] = to /\ \A a \in Browser \ {b} : pc'[a] = pc[a]
  BY <1>0, <1>2 DEF TypeInv, Goes
<1>5. TypeInv'
  BY <1>0, <1>2 DEF TypeInv, socketVars, Goes
<1>6. \A g \in Handler : HandlerOK(g)'
  BY <1>0, OtherHandler
<1>7. LockOK'
  <2>1. \/ lock' = lock /\ (to \in Inside <=> pc[b] \in Inside)
        \/ lock = NoThread /\ lock' = b /\ to \in Inside
        \/ pc[b] \in Inside /\ lock' = NoThread /\ to \notin Inside
    BY <1>2 DEF Inside, Goes
  <2>2. \A a \in Browser : pc'[a] \in Inside <=> lock' = a
    BY <1>2, <2>1, LockKept DEF Goes
  <2>3. \A a \in Browser : pc'[a] \in {"dial", "redial"} => conn = NoSocket
    BY <1>0, <1>2, <1>4 DEF LockOK, Goes
  <2>. QED
    BY <1>0, <2>2, <2>3 DEF LockOK, Inside, socketVars
<1>8. DialOK'
  BY <1>0 DEF DialOK, Established, Server!Serving, socketVars
<1>9. ConnOK'
  <2>1. \A a \in Browser : pc[a] \in {"recv", "failed", "done"}
                            => pc'[a] \in {"recv", "failed", "done"}
    BY <1>2, <1>4 DEF Goes
  <2>2. conn \in Handler => \A k \in 1..Len(reqs[conn]) : reqs[conn][k] \in Browser
    BY <1>0 DEF TypeInv
  <2>. QED
    BY <1>0, <1>3, <2>1, <2>2
       DEF ConnOK, Established, Server!Serving, Hand, InHand, socketVars
<1>. QED
  BY <1>5, <1>6, <1>7, <1>8, <1>9 DEF SysInv

\* A connection being opened has a fresh handler.
LEMMA ConnectSocketKeepsInv ==
  ASSUME SysInv, NEW b \in Browser, ConnectSocket(b)
  PROVE  SysInv'
<1>1. PICK h \in Handler : Server!Accept(h, ClientIp) /\ dialled' = h
  BY DEF ConnectSocket
<1>0. /\ TypeInv /\ hpc[h] = "free" /\ hpc' = [hpc EXCEPT ![h] = "check"]
      /\ pc[b] \in {"dial", "redial"} /\ dialled = NoSocket
      /\ UNCHANGED <<inbox, threadVars, conn, welcomed, wireVars, workVars>>
  BY <1>1 DEF ConnectSocket, Server!Accept, Server!Step, SysInv
<1>2. /\ hpc'[h] = "check" /\ reqs[h] = <<>> /\ inbox[h] = <<>> /\ HandlerOK(h)
      /\ \A g \in Handler \ {h} : hpc'[g] = hpc[g]
      /\ conn = NoSocket /\ ~welcomed /\ h # NoSocket
  BY <1>0, SocketAssumption DEF SysInv, TypeInv, HandlerOK, Fresh, LockOK, DialOK
<1>3. TypeInv'
  BY <1>0, <1>1 DEF TypeInv, Server!Label, threadVars, workVars
<1>4. ASSUME NEW g \in Handler
      PROVE  HandlerOK(g)'
  <2>1. CASE g # h
    BY <1>0, <1>2, <2>1, OtherHandler DEF workVars
  <2>2. CASE g = h
    BY <1>0, <1>2, <2>2 DEF HandlerOK, InHand, Fresh, workVars
  <2>. QED
    BY <2>1, <2>2
<1>5. LockOK' /\ DialOK' /\ ConnOK'
  <2>1. LockOK'
    BY <1>0 DEF SysInv, LockOK, threadVars
  <2>2. DialOK' /\ ConnOK'
    BY <1>0, <1>1, <1>2, SocketAssumption DEF DialOK, ConnOK, workVars
  <2>. QED
    BY <2>1, <2>2
<1>. QED
  BY <1>3, <1>4, <1>5 DEF SysInv

\* It is taken into use or dropped.
LEMMA ConnectEndsKeepsInv ==
  ASSUME SysInv, NEW b \in Browser, Connected(b) \/ ConnectFails(b)
  PROVE  SysInv'
<1>0. /\ TypeInv /\ LockOK /\ DialOK /\ dialled' = NoSocket /\ welcomed' = FALSE
      /\ UNCHANGED <<hpc, inbox, reqs, ran, execs>>
      /\ pc[b] \in {"dial", "redial"}
      /\ \/ welcomed /\ conn' = dialled
         \/ conn' = conn
  BY DEF Connected, ConnectFails, serverVars, SysInv, Tunnel!DialOk, Tunnel!RedialOk,
     Tunnel!DialFails, Tunnel!RedialFails
<1>1. \E to \in {"send", "backoff", "raised", "failed"} :
        /\ pc' = [pc EXCEPT ![b] = to]
        /\ \/ to = "send" /\ lock' = lock
           \/ to # "send" /\ lock' = NoThread
  BY DEF Connected, ConnectFails, Tunnel!DialOk, Tunnel!RedialOk,
     Tunnel!DialFails, Tunnel!RedialFails, Tunnel!Goto, Tunnel!AfterAttempt,
     Tunnel!Fail, Tunnel!Unlock
<1>2. PICK to \in {"send", "backoff", "raised", "failed"} :
        /\ pc' = [pc EXCEPT ![b] = to]
        /\ \/ to = "send" /\ lock' = lock
           \/ to # "send" /\ lock' = NoThread
  BY <1>1
<1>3. conn = NoSocket
  BY <1>0 DEF LockOK
<1>4. TypeInv'
  BY <1>0, <1>2 DEF TypeInv, Tunnel!Label
<1>5. \A g \in Handler : HandlerOK(g)'
  BY <1>0, OtherHandler
<1>6. LockOK'
  <2>1. \A a \in Browser : pc'[a] \in Inside <=> lock' = a
    <3>1. \/ lock' = lock /\ (to \in Inside <=> pc[b] \in Inside)
          \/ pc[b] \in Inside /\ lock' = NoThread /\ to \notin Inside
      BY <1>0, <1>2 DEF Inside
    <3>. QED
      BY <1>2, <3>1, LockKept
  <2>2. \A a \in Browser : pc'[a] \notin {"dial", "redial"}
    <3>1. \A a \in Browser \ {b} : lock # a /\ pc'[a] = pc[a]
      BY <1>0, <1>2 DEF LockOK, TypeInv
    <3>2. pc'[b] = to
      BY <1>2, <1>0 DEF TypeInv
    <3>. QED
      BY <1>0, <3>1, <3>2 DEF LockOK
  <2>. QED
    BY <2>1, <2>2 DEF LockOK, Inside
<1>7. DialOK' /\ ConnOK'
  <2>1. DialOK'
    BY <1>0, SocketAssumption DEF DialOK
  <2>2. ASSUME conn' \in Handler
        PROVE  /\ Established(dialled) /\ reqs[dialled] = <<>> /\ inbox[dialled] = <<>>
               /\ ~InHand(dialled) /\ conn' = dialled
    <3>1. conn' = dialled /\ welcomed
      BY <1>0, <1>3, <2>2, SocketAssumption
    <3>2. reqs[dialled] = <<>> /\ inbox[dialled] = <<>> /\ Established(dialled)
      BY <1>0, <2>2, <3>1 DEF DialOK
    <3>. QED
      BY <2>2, <3>1, <3>2 DEF SysInv, HandlerOK
  <2>3. ASSUME NEW c \in Handler, c = conn'
        PROVE  /\ Established(c)' /\ reqs'[c] = <<>>
               /\ Len(inbox'[c]) + Hand(c)' <= Len(reqs'[c])
    <3>1. /\ Established(c) /\ reqs[c] = <<>> /\ inbox[c] = <<>> /\ ~InHand(c)
      BY <2>2, <2>3
    <3>2. /\ hpc'[c] = hpc[c] /\ inbox'[c] = <<>> /\ reqs'[c] = <<>>
      BY <1>0, <3>1
    <3>3. Established(c)' /\ Hand(c)' = 0
      BY <3>1, <3>2 DEF Established, Server!Serving, Hand, InHand
    <3>. QED
      BY <3>2, <3>3
  <2>4. ConnOK'
    BY <2>3 DEF ConnOK
  <2>. QED
    BY <2>1, <2>4
<1>. QED
  BY <1>4, <1>5, <1>6, <1>7 DEF SysInv

\* The connection in use is given up.
LEMMA AbandonKeepsInv ==
  ASSUME SysInv, (\E b \in Browser : GiveUp(b)) \/ CloseTunnel
  PROVE  SysInv'
<1>0. /\ TypeInv /\ LockOK /\ DialOK /\ conn' = NoSocket
      /\ UNCHANGED <<hpc, inbox, dialled, welcomed, reqs, ran, execs>>
  BY DEF GiveUp, CloseTunnel, Abandon, Server!PeerClose, serverVars, SysInv
<1>1. \A g \in Handler : HandlerOK(g)'
  BY <1>0, OtherHandler
<1>2. DialOK' /\ ConnOK'
  BY <1>0, SocketAssumption DEF DialOK, ConnOK, Established, Server!Serving
<1>3. TypeInv' /\ LockOK'
  <2>1. CASE CloseTunnel
    BY <1>0, <2>1 DEF CloseTunnel, Tunnel!Close, TypeInv, LockOK
  <2>2. ASSUME NEW b \in Browser, GiveUp(b)
        PROVE  TypeInv' /\ LockOK'
    <3>1. lock = NoThread /\ lock' = b /\ pc' = [pc EXCEPT ![b] = "redial"]
      BY <2>2 DEF GiveUp, Tunnel!Reacquire, Tunnel!Goto
    <3>2. TypeInv'
      BY <1>0, <3>1 DEF TypeInv, Tunnel!Label
    <3>3. \A a \in Browser : pc'[a] \in Inside <=> lock' = a
      BY <3>1, LockKept DEF Inside
    <3>. QED
      BY <1>0, <3>2, <3>3 DEF LockOK, Inside
  <2>. QED
    BY <2>1, <2>2
<1>. QED
  BY <1>1, <1>2, <1>3 DEF SysInv

\* A request is sent by a thread that has none on the connection.
LEMMA SendOkKeepsInv ==
  ASSUME SysInv, NEW b \in Browser, SendOk(b)
  PROVE  SysInv'
<1>0. /\ TypeInv /\ LockOK /\ DialOK /\ ConnOK
      /\ pc[b] = "send" /\ pc' = [pc EXCEPT ![b] = "recv"]
      /\ reqs' = IF conn \in Handler /\ ~upCut
                 THEN [reqs EXCEPT ![conn] = Append(@, b)] ELSE reqs
      /\ UNCHANGED <<hpc, lock, socketVars, upCut, ran, execs>>
      /\ \A g \in Handler : HandlerOK(g)
  BY DEF SendOk, Tunnel!SendOk, Tunnel!Goto, Server!PeerSend, serverVars, SysInv
<1>. DEFINE frame == IF upCut THEN "corrupt" ELSE "request"
<1>1. \/ inbox' = inbox /\ ~(conn \in Handler /\ Server!Serving(conn))
      \/ /\ conn \in Handler /\ Server!Serving(conn)
         /\ inbox' = [inbox EXCEPT ![conn] = Append(@, frame)]
  BY DEF SendOk, Server!PeerSend, serverVars
<1>2. pc'[b] = "recv" /\ \A a \in Browser \ {b} : pc'[a] = pc[a]
  BY <1>0 DEF TypeInv
<1>3. \A g \in Handler : /\ inbox[g] \in Seq(Server!Frame) /\ inbox'[g] \in Seq(Server!Frame)
                         /\ reqs[g] \in Seq(Browser) /\ reqs'[g] \in Seq(Browser)
                         /\ g # conn => inbox'[g] = inbox[g] /\ reqs'[g] = reqs[g]
  <2>1. ASSUME NEW g \in Handler
        PROVE  /\ inbox[g] \in Seq(Server!Frame) /\ inbox'[g] \in Seq(Server!Frame)
               /\ g # conn => inbox'[g] = inbox[g]
    <3>1. frame \in Server!Frame
      BY DEF Server!Frame
    <3>. HIDE DEF frame
    <3>2. inbox \in [Handler -> Seq(Server!Frame)]
      BY <1>0 DEF TypeInv
    <3>3. \A s \in Seq(Server!Frame) : Append(s, frame) \in Seq(Server!Frame)
      BY <3>1
    <3>. QED
      BY <1>1, <3>2, <3>3
  <2>2. ASSUME NEW g \in Handler
        PROVE  /\ reqs[g] \in Seq(Browser) /\ reqs'[g] \in Seq(Browser)
               /\ g # conn => reqs'[g] = reqs[g]
    BY <1>0 DEF TypeInv
  <2>. QED
    BY <2>1, <2>2
<1>4. TypeInv'
  <2>1. inbox' \in [Handler -> Seq(Server!Frame)] /\ reqs' \in [Handler -> Seq(Browser)]
    BY <1>0, <1>1, <1>3 DEF TypeInv
  <2>. QED
    BY <1>0, <2>1 DEF TypeInv, Tunnel!Label, socketVars
<1>5. LockOK'
  <2>1. \A a \in Browser : pc'[a] \in Inside <=> lock' = a
    BY <1>0, LockKept DEF Inside
  <2>. QED
    BY <1>0, <1>2, <2>1 DEF LockOK, Inside, socketVars
<1>6. DialOK'
  BY <1>0, <1>3, SocketAssumption
     DEF DialOK, Established, Server!Serving, socketVars
<1>7. ASSUME NEW g \in Handler, g # conn
      PROVE  HandlerOK(g)'
  BY <1>0, <1>3, <1>7, OtherHandler
<1>8. ASSUME NEW c \in Handler, c = conn
      PROVE  /\ HandlerOK(c)' /\ Established(c)'
             /\ Server!Serving(c)' /\ ~upCut'
                  => Len(inbox'[c]) + Hand(c)' <= Len(reqs'[c])
             /\ \A k \in 1..Len(reqs'[c]) :
                  pc'[reqs'[c][k]] \in {"recv", "failed", "done"}
  <2>0. /\ HandlerOK(c) /\ Established(c) /\ hpc'[c] = hpc[c] /\ ran'[c] = ran[c]
        /\ Server!Serving(c) /\ ~upCut => Len(inbox[c]) + Hand(c) <= Len(reqs[c])
        /\ \A k \in 1..Len(reqs[c]) : pc[reqs[c][k]] \in {"recv", "failed", "done"}
        /\ Len(inbox[c]) \in Nat /\ Len(reqs[c]) \in Nat
        /\ \A k \in 1..Len(reqs[c]) : reqs[c][k] \in Browser
    BY <1>0, <1>3, <1>8 DEF ConnOK
  <2>1. /\ Established(c)'
        /\ Server!Serving(c)' <=> Server!Serving(c)
        /\ InHand(c)' <=> InHand(c)
        /\ Hand(c)' = Hand(c) /\ Hand(c) \in 0..1
        /\ hpc[c] \notin Fresh
        /\ InHand(c) => Server!Serving(c)
    BY <2>0 DEF Established, Server!Serving, InHand, Hand, Fresh
  <2>2. /\ \/ upCut /\ reqs'[c] = reqs[c]
           \/ /\ ~upCut /\ reqs'[c] = Append(reqs[c], b)
              /\ Len(reqs'[c]) = Len(reqs[c]) + 1 /\ reqs'[c][Len(reqs[c]) + 1] = b
        /\ \A k \in 1..Len(reqs[c]) : reqs'[c][k] = reqs[c][k]
    BY <1>0, <1>3, <1>8 DEF TypeInv
  <2>3. \/ inbox'[c] = inbox[c] /\ ~Server!Serving(c)
        \/ /\ Server!Serving(c) /\ Len(inbox'[c]) = Len(inbox[c]) + 1
           /\ inbox'[c][Len(inbox[c]) + 1] = frame
           /\ \A k \in 1..Len(inbox[c]) : inbox'[c][k] = inbox[c][k]
    <3>. HIDE DEF frame
    <3>1. \/ inbox'[c] = inbox[c] /\ ~Server!Serving(c)
          \/ Server!Serving(c) /\ inbox'[c] = Append(inbox[c], frame)
      BY <1>0, <1>1, <1>8 DEF TypeInv
    <3>. QED
      BY <1>3, <3>1, SMTT(20)
  <2>4. /\ Len(reqs'[c]) \in Nat /\ Len(inbox'[c]) \in Nat
        /\ Len(reqs[c]) <= Len(reqs'[c])
        /\ ~upCut => Len(reqs'[c]) = Len(reqs[c]) + 1
    BY <1>3, <2>0, <2>2
  <2>5. \A k \in 1..Len(reqs'[c]) :
          \/ k \in 1..Len(reqs[c]) /\ reqs'[c][k] = reqs[c][k]
          \/ k = Len(reqs[c]) + 1 /\ reqs'[c][k] = b
    BY <2>0, <2>2
  <2>6. \A k \in 1..Len(inbox'[c]) :
          inbox'[c][k] = "request" => k + Hand(c)' <= Len(reqs'[c])
    <3>1. \A k \in 1..Len(inbox[c]) :
            inbox[c][k] = "request" => k + Hand(c)' <= Len(reqs'[c])
      BY <2>0, <2>1, <2>4 DEF HandlerOK
    <3>2. CASE inbox'[c] = inbox[c] /\ ~Server!Serving(c)
      BY <3>1, <3>2
    <3>3. CASE /\ Server!Serving(c) /\ Len(inbox'[c]) = Len(inbox[c]) + 1
               /\ inbox'[c][Len(inbox[c]) + 1] = frame
               /\ \A k \in 1..Len(inbox[c]) : inbox'[c][k] = inbox[c][k]
      <4>1. ~upCut => Len(inbox[c]) + 1 + Hand(c)' <= Len(reqs'[c])
        BY <2>0, <2>1, <2>4, <3>3
      <4>2. ASSUME NEW k \in 1..Len(inbox'[c]), inbox'[c][k] = "request"
            PROVE  k + Hand(c)' <= Len(reqs'[c])
        <5>1. CASE k = Len(inbox[c]) + 1
          BY <3>3, <4>1, <4>2, <5>1
        <5>2. CASE k # Len(inbox[c]) + 1
          <6>1. k \in 1..Len(inbox[c])
            BY <2>0, <3>3, <5>2
          <6>. QED
            BY <3>1, <3>3, <4>2, <6>1
        <5>. QED
          BY <5>1, <5>2
      <4>. QED
        BY <4>2
    <3>. QED
      BY <2>3, <3>2, <3>3
  <2>7. \A i, j \in 1..Len(reqs'[c]) : reqs'[c][i] = reqs'[c][j] => i = j
    <3>1. \A k \in 1..Len(reqs[c]) : reqs[c][k] # b
      BY <1>0, <2>0
    <3>2. \A i, j \in 1..Len(reqs[c]) : reqs[c][i] = reqs[c][j] => i = j
      BY <2>0 DEF HandlerOK
    <3>. QED
      BY <2>5, <3>1, <3>2
  <2>8. Server!Serving(c) /\ ~upCut => Len(inbox'[c]) + Hand(c)' <= Len(reqs'[c])
    BY <2>0, <2>1, <2>3, <2>4
  <2>9. \A k \in 1..Len(reqs'[c]) : pc'[reqs'[c][k]] \in {"recv", "failed", "done"}
    <3>1. ASSUME NEW k \in 1..Len(reqs[c])
          PROVE  pc'[reqs[c][k]] \in {"recv", "failed", "done"}
      BY <1>2, <2>0
    <3>. QED
      BY <1>2, <2>5, <3>1
  <2>10. (InHand(c)' => reqs'[c] # <<>>) /\ (ran'[c] => reqs'[c] # <<>>)
    <3>1. reqs[c] # <<>> => reqs'[c] # <<>>
      BY <1>3, <2>0, <2>4
    <3>. QED
      BY <2>0, <2>1, <3>1 DEF HandlerOK
  <2>. QED
    BY <1>0, <2>0, <2>1, <2>6, <2>7, <2>8, <2>9, <2>10 DEF HandlerOK
<1>9. \A g \in Handler : HandlerOK(g)'
  BY <1>7, <1>8
<1>10. ConnOK'
  BY <1>0, <1>8 DEF ConnOK, socketVars
<1>. QED
  BY <1>4, <1>5, <1>6, <1>9, <1>10 DEF SysInv

\* Every step keeps the invariant.
LEMMA NextKeepsSysInv ==
  ASSUME SysInv, [Next]_vars
  PROVE  SysInv'
<1>1. ASSUME NEW b \in Browser, Client(b)
      PROVE  SysInv'
  BY <1>1, AloneKeepsInv, ConnectSocketKeepsInv, ConnectEndsKeepsInv, SendOkKeepsInv,
     AbandonKeepsInv DEF Client
<1>2. ASSUME NEW h \in Handler, Handle(h) \/ Forward(h)
      PROVE  SysInv'
  BY <1>2, MoveKeepsInv, ReplyKeepsInv, CloseKeepsInv, ForwardKeepsInv DEF Handle
<1>3. CASE CloseTunnel
  BY <1>3, AbandonKeepsInv
<1>4. CASE (\E h \in Handler : FreeSocket(h)) \/ UNCHANGED vars
  BY <1>4, SameKeepsInv DEF FreeSocket, Server!PeerClose, vars, serverVars, clientVars,
     socketVars, wireVars
<1>. QED
  BY <1>1, <1>2, <1>3, <1>4 DEF Next

(***************************************************************************)
(* The theorem.                                                            *)
(***************************************************************************)
\* Whatever the handlers of given-up connections still do, server and network
\* are to the browser threads the other end that TunnelClient assumes: each
\* request is answered once, in order, on its own connection, or that ends.
THEOREM SystemImplementsTunnel == Spec => TunnelSpec
<1>1. Init => Tunnel!Init
  BY DEF Init
<1>2. Spec => []SysInv
  <2>1. SysInv /\ [Next]_vars => SysInv'
    BY NextKeepsSysInv
  <2>. QED
    BY <2>1, InitSysInv, PTL DEF Spec
<1>3. SysInv /\ [Next]_vars => [Tunnel!Next]_(Tunnel!vars)
  BY StepMaps
<1>. QED
  BY <1>1, <1>2, <1>3, PTL DEF Spec, TunnelSpec, Tunnel!Spec

(***************************************************************************)
(* What is proved of each side, about the two sides of the system.         *)
(***************************************************************************)
SP == INSTANCE VpnServerProofs WITH Thread <- Handler, IP <- {ClientIp}, pc <- hpc

TP == INSTANCE TunnelClientProofs WITH
  Thread <- Browser,
  connected <- conn # NoSocket,
  hungUp <- conn = Shut,
  up <- IF conn \in Handler THEN reqs[conn] ELSE <<>>,
  stray <- [b \in Browser |-> Cardinality(LeftBehind(b))],
  execs <- [b \in Browser |-> execs[b] - Cardinality(Unsettled(b))]

\* The constants of the system are as the server needs them.
LEMMA ServerConstants ==
  /\ \A f \in WhitelistFile : f = Absent \/ f \subseteq SP!Network \cup {Garbage}
  /\ NoIp \notin {ClientIp}
  /\ SP!IsFiniteSet(Handler)
BY ServerAssumption, HandlerAssumption DEF SP!Network, SP!IsFiniteSet, IsFiniteSet

\* The slots stay accounted for in every step of the server.
LEMMA SlotsStep == SP!SlotInv /\ [SP!Next]_(SP!vars) => SP!SlotInv'
BY SP!SlotInvStep, ServerConstants, ServerAssumption

\* The steps of a handler in the system are those of the server.
LEMMA HandlerSteps ==
  ASSUME NEW h \in Handler
  PROVE  /\ \/ Server!CheckAccess(h) \/ Server!Admit(h) \/ Server!Deny(h)
            \/ Server!HandshakeOk(h) \/ Server!HandshakeFails(h) \/ Server!CheckIdle(h)
            \/ Server!RecvRequest(h) \/ Server!RecvCorrupt(h)
            \/ Server!RecvDisconnect(h) \/ Server!RecvTimeout(h)
            \/ Server!CheckRate(h) \/ Server!TakeToken(h)
            \/ Server!SendOk(h) \/ Server!SendFails(h)
            \/ Server!Release(h) \/ Server!Close(h)
            => SP!Handle(h)
         /\ Server!Forward(h) => SP!Forward(h)
<1>. USE DEF Server!Step, SP!Step, Server!limiterVars, SP!limiterVars,
       Server!bucketVars, SP!bucketVars, Server!accessVars, SP!accessVars,
       Server!connVars, SP!connVars
<1>1. Server!CheckAccess(h) => SP!CheckAccess(h)
  BY DEF Server!CheckAccess, SP!CheckAccess, Server!IsAllowed, SP!IsAllowed
<1>2. Server!Admit(h) => SP!Admit(h)
  BY DEF Server!Admit, SP!Admit, Server!BelowCaps, SP!BelowCaps,
     Server!AddConnection, SP!AddConnection
<1>3. Server!Deny(h) => SP!Deny(h)
  BY DEF Server!Deny, SP!Deny, Server!BelowCaps, SP!BelowCaps
<1>4. /\ Server!HandshakeOk(h) => SP!HandshakeOk(h)
      /\ Server!HandshakeFails(h) => SP!HandshakeFails(h)
      /\ Server!SendOk(h) => SP!SendOk(h)
      /\ Server!SendFails(h) => SP!SendFails(h)
      /\ Server!Close(h) => SP!Close(h)
      /\ Server!Forward(h) => SP!Forward(h)
  BY DEF Server!HandshakeOk, SP!HandshakeOk, Server!HandshakeFails, SP!HandshakeFails,
     Server!SendOk, SP!SendOk, Server!SendFails, SP!SendFails, Server!Close, SP!Close,
     Server!Forward, SP!Forward
<1>5. Server!CheckIdle(h) => SP!CheckIdle(h)
  BY DEF Server!CheckIdle, SP!CheckIdle, Server!IsIdle, SP!IsIdle, Server!Never, SP!Never
<1>6. /\ Server!RecvRequest(h) => SP!Receive(h)
      /\ Server!RecvCorrupt(h) => SP!Receive(h)
      /\ Server!RecvDisconnect(h) => SP!Receive(h)
      /\ Server!RecvTimeout(h) => SP!Receive(h)
  BY DEF Server!RecvRequest, SP!RecvRequest, Server!RecvCorrupt, SP!RecvCorrupt,
     Server!RecvDisconnect, SP!RecvDisconnect, Server!RecvTimeout, SP!RecvTimeout,
     Server!Served, SP!Served, Server!Touch, SP!Touch, SP!Receive
<1>7. Server!CheckRate(h) => SP!CheckRate(h)
  BY DEF Server!CheckRate, SP!CheckRate, Server!LookupBucket, SP!LookupBucket,
     Server!CreateBucket, SP!CreateBucket, Server!BucketCapacity, SP!BucketCapacity
<1>8. Server!TakeToken(h) => SP!TakeToken(h)
  BY DEF Server!TakeToken, SP!TakeToken, Server!Consume, SP!Consume,
     Server!Refilled, SP!Refilled, Server!BucketCapacity, SP!BucketCapacity
<1>9. Server!Release(h) => SP!Release(h)
  BY DEF Server!Release, SP!Release, Server!RemoveConnection, SP!RemoveConnection
<1>. QED
  BY <1>1, <1>2, <1>3, <1>4, <1>5, <1>6, <1>7, <1>8, <1>9 DEF SP!Handle

\* So are those in which it meets the client.
LEMMA MeetingSteps ==
  ASSUME NEW h \in Handler
  PROVE  /\ Server!Accept(h, ClientIp) => SP!Accept(h, ClientIp)
         /\ \A f \in Server!Frame : Server!PeerSend(h, f) => SP!PeerSends(h)
         /\ Server!PeerClose(h) => SP!PeerClose(h)
BY DEF Server!Step, SP!Step, Server!limiterVars, SP!limiterVars,
   Server!bucketVars, SP!bucketVars, Server!accessVars, SP!accessVars,
   Server!Accept, SP!Accept, Server!PeerSend, SP!PeerSend, SP!PeerSends,
   Server!Frame, SP!Frame, Server!Serving, SP!Serving, Server!PeerClose, SP!PeerClose

\* The step a system step is for the server, but for the idle timeout, whose time
\* the system does not count.
LEMMA ServerSteps ==
  ASSUME [Next]_vars
  PROVE  [SP!Next]_(SP!vars) \/ \E h \in Handler : DropIdle(h)
<1>0. UNCHANGED serverVars => UNCHANGED SP!vars
  BY DEF serverVars, SP!vars, SP!limiterVars, SP!bucketVars, SP!accessVars, SP!connVars
<1>1. ASSUME NEW b \in Browser, Client(b)
      PROVE  [SP!Next]_(SP!vars)
  <2>1. CASE Alone(b) \/ Connected(b) \/ ConnectFails(b)
    BY <1>0, <2>1 DEF Alone, Connected, ConnectFails
  <2>2. CASE ConnectSocket(b)
    BY <2>2, MeetingSteps DEF ConnectSocket, SP!Next
  <2>3. CASE SendOk(b)
    <3>1. (IF upCut THEN "corrupt" ELSE "request") \in Server!Frame
      BY DEF Server!Frame
    <3>2. CASE conn \in Handler /\ Server!Serving(conn)
      <4>1. Server!PeerSend(conn, IF upCut THEN "corrupt" ELSE "request")
        BY <2>3, <3>2 DEF SendOk
      <4>2. SP!PeerSends(conn)
        BY <3>1, <3>2, <4>1, MeetingSteps
      <4>. QED
        BY <3>2, <4>2 DEF SP!Next
    <3>3. CASE ~(conn \in Handler /\ Server!Serving(conn))
      BY <1>0, <2>3, <3>3 DEF SendOk
    <3>. QED
      BY <3>2, <3>3
  <2>4. CASE GiveUp(b)
    BY <1>0, <2>4, MeetingSteps DEF GiveUp, Abandon, SP!Next
  <2>. QED
    BY <1>1, <2>1, <2>2, <2>3, <2>4 DEF Client
<1>2. ASSUME NEW h \in Handler, Handle(h) \/ Forward(h) \/ FreeSocket(h)
      PROVE  [SP!Next]_(SP!vars) \/ DropIdle(h)
  <2>1. SP!Handle(h) \/ SP!Forward(h) \/ SP!PeerClose(h) \/ DropIdle(h)
    BY <1>2, HandlerSteps, MeetingSteps
       DEF Handle, HandleAlone, HandshakeOk, Reply, Close, Forward, FreeSocket
  <2>. QED
    BY <2>1 DEF SP!Next
<1>3. CASE CloseTunnel
  BY <1>0, <1>3, MeetingSteps DEF CloseTunnel, Abandon, SP!Next
<1>4. CASE UNCHANGED vars
  BY <1>0, <1>4 DEF vars
<1>. QED
  BY <1>1, <1>2, <1>3, <1>4 DEF Next

\* A handler that drops its connection for being idle keeps its slot for the moment.
LEMMA DropIdleKeepsSlots ==
  ASSUME SP!SlotInv, NEW h \in Handler, DropIdle(h)
  PROVE  SP!SlotInv'
<1>1. /\ hpc[h] = "loop" /\ hpc' = [hpc EXCEPT ![h] = "release"]
      /\ UNCHANGED <<clock, connections, total, lastActivity, buckets, tokens, refilled,
                     grants, whitelistFile, networks, ip, inbox, gone>>
  BY DEF DropIdle, Server!Step
<1>2. SP!TypeOK /\ SP!ServesAddress /\ SP!NotAhead
  BY DEF SP!SlotInv, SP!TypeInv
<1>3. hpc \in [Handler -> SP!Label]
  BY <1>2 DEF SP!TypeOK
<1>4. SP!TypeOK'
  BY <1>1, <1>2 DEF SP!TypeOK, SP!Label, SP!LimiterTypeOK
<1>5. SP!ServesAddress' /\ SP!NotAhead'
  BY <1>1, <1>2, <1>3 DEF SP!ServesAddress, SP!NotAhead
<1>6. \A g \in Handler : SP!Holding(g)' <=> SP!Holding(g)
  BY <1>1, <1>3 DEF SP!Holding, SP!Serving
<1>7. SP!Holders' = SP!Holders /\ \A i : SP!HoldersOf(i)' = SP!HoldersOf(i)
  BY <1>1, <1>6 DEF SP!Holders, SP!HoldersOf
<1>8. SP!SlotAccounting' /\ SP!CapsRespected'
  BY <1>1, <1>7 DEF SP!SlotInv, SP!SlotAccounting, SP!CapsRespected
<1>. QED
  BY <1>4, <1>5, <1>8 DEF SP!SlotInv, SP!TypeInv

\* The connection with which the system starts holds the first slot.
LEMMA SlotsInit == Init => SP!SlotInv
<1>. SUFFICES ASSUME Init PROVE SP!SlotInv
  OBVIOUS
<1>1. PICK h \in Handler : h = conn
  BY DEF Init
<1>2. /\ hpc = [g \in Handler |-> IF g = h THEN "loop" ELSE "free"]
      /\ ip = [g \in Handler |-> IF g = h THEN ClientIp ELSE NoIp]
      /\ inbox = [g \in Handler |-> <<>>] /\ gone = [g \in Handler |-> FALSE]
      /\ whitelistFile \in WhitelistFile /\ networks = Server!Loaded(whitelistFile)
      /\ clock = 0 /\ connections = [i \in {ClientIp} |-> 1] /\ total = 1
      /\ lastActivity = [i \in {ClientIp} |-> 0] /\ buckets = {}
      /\ tokens = [i \in {ClientIp} |-> 0] /\ refilled = [i \in {ClientIp} |-> 0]
      /\ grants = [i \in {ClientIp} |-> <<>>]
  BY <1>1 DEF Init
<1>3. SP!LimiterTypeOK
  <2>1. SP!BucketCapacity \in Nat
    BY ServerAssumption DEF SP!BucketCapacity
  <2>2. grants \in [{ClientIp} -> Seq(0..MaxClock)]
    BY <1>2
  <2>. QED
    BY <1>2, <2>1, <2>2, ServerAssumption DEF SP!LimiterTypeOK
<1>4. SP!TypeOK
  <2>1. networks \subseteq SP!Network
    BY <1>2, ServerAssumption DEF Server!Loaded, SP!Network
  <2>2. inbox \in [Handler -> Seq(SP!Frame)]
    BY <1>2
  <2>. QED
    BY <1>2, <1>3, <2>1, <2>2 DEF SP!TypeOK, SP!Label
<1>5. SP!ServesAddress /\ SP!NotAhead
  BY <1>2 DEF SP!ServesAddress, SP!NotAhead
<1>6. SP!Holders = {h} /\ SP!HoldersOf(ClientIp) = {h}
  BY <1>2 DEF SP!Holders, SP!HoldersOf, SP!Holding, SP!Serving
<1>7. SP!Cardinality({h}) = 1
  <2>1. SP!Cardinality({h}) = Cardinality({h})
    BY DEF SP!Cardinality, Cardinality
  <2>. QED
    BY <2>1, FS_Singleton
<1>8. SP!SlotAccounting /\ SP!CapsRespected
  <2>1. total = 1 /\ connections[ClientIp] = 1 /\ 1 <= MaxTotal /\ 1 <= MaxPerIp
    BY <1>2, ServerAssumption
  <2>2. SP!Cardinality(SP!Holders) = 1 /\ SP!Cardinality(SP!HoldersOf(ClientIp)) = 1
    BY <1>6, <1>7
  <2>. QED
    BY <2>1, <2>2 DEF SP!SlotAccounting, SP!CapsRespected
<1>. QED
  BY <1>4, <1>5, <1>8 DEF SP!SlotInv, SP!TypeInv

\* The slots of the server in the system are accounted for, and within the caps.
LEMMA SlotsInvariant == Spec => []SP!SlotInv
<1>1. SP!SlotInv /\ [Next]_vars => SP!SlotInv'
  BY ServerSteps, SlotsStep, DropIdleKeepsSlots
<1>. QED
  BY <1>1, SlotsInit, PTL DEF Spec

\* The steps of TunnelClient are the same, whichever module they are taken from.
LEMMA TunnelSteps ==
  /\ Tunnel!Init => TP!Init
  /\ [Tunnel!Next]_(Tunnel!vars) => [TP!Next]_(TP!vars)
<1>1. Tunnel!Init => TP!Init
  BY DEF Tunnel!Init, TP!Init
<1>2. UNCHANGED Tunnel!vars => UNCHANGED TP!vars
  BY DEF Tunnel!vars, TP!vars, Tunnel!wireVars, TP!wireVars
<1>3. ASSUME NEW t \in Browser
      PROVE  /\ Tunnel!Call(t) => TP!Call(t)
             /\ Tunnel!Request(t) => TP!Request(t)
             /\ Tunnel!Recover(t) => TP!Recover(t)
  <2>. USE DEF Tunnel!Goto, TP!Goto, Tunnel!Unlock, TP!Unlock, Tunnel!Fail, TP!Fail,
         Tunnel!wireVars, TP!wireVars
  <2>1. /\ Tunnel!Call(t) => TP!Call(t)
        /\ Tunnel!Acquire(t) => TP!Acquire(t)
        /\ Tunnel!DialFails(t) => TP!DialFails(t)
        /\ Tunnel!Backoff(t) => TP!Backoff(t)
    BY DEF Tunnel!Call, TP!Call, Tunnel!Acquire, TP!Acquire, Tunnel!DialFails, TP!DialFails,
       Tunnel!Backoff, TP!Backoff
  <2>2. /\ Tunnel!SendOk(t) => TP!SendOk(t)
        /\ Tunnel!SendFails(t) => TP!SendFails(t)
        /\ Tunnel!Receive(t) => TP!Receive(t)
    BY DEF Tunnel!SendOk, TP!SendOk, Tunnel!SendFails, TP!SendFails,
       Tunnel!Receive, TP!Receive, Tunnel!RecvResponse, TP!RecvResponse,
       Tunnel!RecvError, TP!RecvError, Tunnel!RecvBroken, TP!RecvBroken,
       Tunnel!RecvTimeout, TP!RecvTimeout
  <2>3. /\ Tunnel!DialOk(t) => TP!DialOk(t)
        /\ Tunnel!RedialOk(t) => TP!RedialOk(t)
        /\ Tunnel!RedialFails(t) => TP!RedialFails(t)
    BY DEF Tunnel!DialOk, TP!DialOk, Tunnel!RedialOk, TP!RedialOk,
       Tunnel!RedialFails, TP!RedialFails, Tunnel!AfterAttempt, TP!AfterAttempt,
       Tunnel!Open, TP!Open, Tunnel!EmptyWire, TP!EmptyWire
  <2>4. Tunnel!Reacquire(t) => TP!Reacquire(t)
    BY DEF Tunnel!Reacquire, TP!Reacquire, Tunnel!CloseSocket, TP!CloseSocket,
       Tunnel!EmptyWire, TP!EmptyWire, Tunnel!Occurs, TP!Occurs,
       Tunnel!Cardinality, TP!Cardinality
  <2>. QED
    BY <2>1, <2>2, <2>3, <2>4
       DEF Tunnel!Request, TP!Request, Tunnel!Recover, TP!Recover
<1>4. Tunnel!Close => TP!Close
  BY DEF Tunnel!Close, TP!Close, Tunnel!CloseSocket, TP!CloseSocket,
     Tunnel!EmptyWire, TP!EmptyWire, Tunnel!Occurs, TP!Occurs,
     Tunnel!Cardinality, TP!Cardinality
<1>5. Tunnel!Server => TP!Server
  BY DEF Tunnel!Server, TP!Server, Tunnel!ServerAnswers, TP!ServerAnswers,
     Tunnel!ServerRefuses, TP!ServerRefuses, Tunnel!ServerChokes, TP!ServerChokes,
     Tunnel!ServerHangsUp, TP!ServerHangsUp, Tunnel!StrayRequests, TP!StrayRequests,
     Tunnel!ServerReads, TP!ServerReads, Tunnel!wireVars, TP!wireVars
<1>6. Tunnel!Next => TP!Next
  BY <1>3, <1>4, <1>5 DEF Tunnel!Next, TP!Next
<1>. QED
  BY <1>1, <1>2, <1>6

\* The tunnel keeps its inductive invariants.
LEMMA TunnelInvStep ==
  /\ TP!Inv /\ [TP!Next]_(TP!vars) => TP!Inv'
  /\ TP!TypeOK /\ TP!OnceInv /\ [TP!Next]_(TP!vars) => TP!OnceInv'
  /\ TP!TypeOK /\ TP!OnceInv /\ TP!BoundInv /\ [TP!Next]_(TP!vars) => TP!BoundInv'
<1>1. TP!Inv /\ [TP!Next]_(TP!vars) => TP!Inv'
  BY TP!InvStep, BrowserAssumption, RetriesAssumption
<1>2. TP!TypeOK /\ TP!OnceInv /\ [TP!Next]_(TP!vars) => TP!OnceInv'
  BY TP!OnceStep, BrowserAssumption, RetriesAssumption
<1>3. TP!TypeOK /\ TP!OnceInv /\ TP!BoundInv /\ [TP!Next]_(TP!vars) => TP!BoundInv'
  BY TP!BoundStep, BrowserAssumption, RetriesAssumption
<1>. QED
  BY <1>1, <1>2, <1>3

\* They hold at the start.
LEMMA TunnelInvInit == Init => TP!Inv /\ TP!OnceInv /\ TP!BoundInv
<1>1. TP!Init => TP!Inv
  BY TP!InitInv, BrowserAssumption, RetriesAssumption
<1>2. TP!Init => TP!OnceInv /\ TP!BoundInv
  BY TP!BoundInit, BrowserAssumption, RetriesAssumption
<1>. QED
  BY <1>1, <1>2, TunnelSteps DEF Init

(***************************************************************************)
(* A connection in use has not been closed by the client.                  *)
(***************************************************************************)
GoneInv ==
  /\ \A h \in Handler : hpc[h] = "free" => ~gone[h]
  /\ \A h \in Handler : h \in {conn, dialled} => ~gone[h]

\* Only a connection that is being given up is marked as closed.
LEMMA GoneStep ==
  ASSUME SysInv, SP!TypeOK, GoneInv, [Next]_vars
  PROVE  GoneInv'
<1>0. /\ gone \in [Handler -> BOOLEAN] /\ hpc \in [Handler -> Server!Label]
      /\ NoSocket \notin Handler /\ Shut \notin Handler
  BY SocketAssumption DEF SP!TypeOK, SysInv, TypeInv
\* A step that closes no connection, frees no handler and takes none into use.
<1>a. ASSUME UNCHANGED gone,
             \A h \in Handler : hpc'[h] = "free" => hpc[h] = "free",
             \A h \in Handler : h \in {conn', dialled'} => h \in {conn, dialled} \/ hpc[h] = "free"
      PROVE  GoneInv'
  BY <1>a DEF GoneInv
<1>1. ASSUME NEW b \in Browser, Alone(b) \/ Connected(b) \/ ConnectFails(b)
      PROVE  GoneInv'
  BY <1>a, <1>0, <1>1 DEF Alone, Connected, ConnectFails, serverVars, socketVars
<1>2. ASSUME NEW b \in Browser, ConnectSocket(b)
      PROVE  GoneInv'
  <2>1. PICK h \in Handler : Server!Accept(h, ClientIp) /\ dialled' = h
    BY <1>2 DEF ConnectSocket
  <2>2. /\ hpc[h] = "free" /\ hpc' = [hpc EXCEPT ![h] = "check"]
        /\ UNCHANGED <<gone, conn>>
    BY <1>2, <2>1 DEF ConnectSocket, Server!Accept, Server!Step
  <2>. QED
    BY <1>a, <1>0, <2>1, <2>2
<1>3. ASSUME NEW b \in Browser, SendOk(b)
      PROVE  GoneInv'
  <2>1. UNCHANGED <<gone, hpc, conn, dialled>>
    BY <1>3 DEF SendOk, Server!PeerSend, serverVars, socketVars
  <2>. QED
    BY <1>a, <2>1
<1>4. CASE CloseTunnel \/ \E b \in Browser : GiveUp(b)
  <2>1. /\ conn' = NoSocket /\ UNCHANGED <<dialled, hpc>>
        /\ \/ UNCHANGED gone
           \/ /\ conn \in Handler /\ hpc[conn] # "free"
              /\ gone' = [gone EXCEPT ![conn] = TRUE]
    BY <1>4 DEF CloseTunnel, GiveUp, Abandon, Server!PeerClose, serverVars
  <2>2. conn \in Handler => dialled \notin Handler
    BY <1>0 DEF SysInv, DialOK, TypeInv
  <2>3. CASE UNCHANGED gone
    BY <1>a, <1>0, <2>1, <2>3
  <2>4. CASE conn \in Handler /\ hpc[conn] # "free" /\ gone' = [gone EXCEPT ![conn] = TRUE]
    BY <1>0, <2>1, <2>2, <2>4 DEF GoneInv
  <2>. QED
    BY <2>1, <2>3, <2>4
<1>5. ASSUME NEW h \in Handler, FreeSocket(h)
      PROVE  GoneInv'
  <2>1. /\ h \notin {conn, dialled} /\ hpc[h] # "free" /\ gone' = [gone EXCEPT ![h] = TRUE]
        /\ UNCHANGED <<hpc, conn, dialled>>
    BY <1>5 DEF FreeSocket, Server!PeerClose, clientVars, socketVars
  <2>. QED
    BY <1>0, <2>1 DEF GoneInv
<1>6. ASSUME NEW h \in Handler, HandleAlone(h) \/ DropIdle(h) \/ HandshakeOk(h)
      PROVE  GoneInv'
  <2>1. UNCHANGED <<gone, conn, dialled>>
    BY <1>6 DEF HandleAlone, DropIdle, HandshakeOk, Server!CheckAccess, Server!Admit,
       Server!Deny, Server!HandshakeFails, Server!CheckIdle, Server!RecvRequest,
       Server!RecvCorrupt, Server!RecvDisconnect, Server!RecvTimeout, Server!CheckRate,
       Server!TakeToken, Server!SendFails, Server!Release, Server!HandshakeOk,
       Server!connVars, clientVars, socketVars
  <2>2. PICK to : hpc' = [hpc EXCEPT ![h] = to] /\ to # "free"
    BY <1>6, HandlerMoves DEF Moved, Ways
  <2>. QED
    BY <1>a, <1>0, <2>1, <2>2
<1>7. ASSUME NEW h \in Handler, Forward(h) \/ Reply(h)
      PROVE  GoneInv'
  <2>1. /\ UNCHANGED <<gone, conn, dialled>>
        /\ \E to \in {"reply", "loop"} : hpc' = [hpc EXCEPT ![h] = to]
    BY <1>7 DEF Forward, Reply, Server!Forward, Server!SendOk, Server!Step,
       Server!connVars, socketVars
  <2>. QED
    BY <1>a, <1>0, <2>1
<1>8. ASSUME NEW h \in Handler, Close(h)
      PROVE  GoneInv'
  <2>1. /\ hpc' = [hpc EXCEPT ![h] = "free"] /\ gone' = [gone EXCEPT ![h] = FALSE]
        /\ conn' = AfterClose(h, conn) /\ dialled' = AfterClose(h, dialled)
    BY <1>8 DEF Close, Server!Close, Server!Step
  <2>. QED
    BY <1>0, <2>1 DEF GoneInv, AfterClose
<1>9. CASE UNCHANGED vars
  BY <1>a, <1>9 DEF vars, serverVars, clientVars, socketVars
<1>. QED
  BY <1>1, <1>2, <1>3, <1>4, <1>5, <1>6, <1>7, <1>8, <1>9 DEF Next, Client, Handle

\* All that holds of the system, of its server and of its tunnel together.
LEMMA SystemInvariant ==
  Spec => [](SysInv /\ SP!SlotInv /\ TP!Inv /\ TP!OnceInv /\ TP!BoundInv /\ GoneInv)
<1>1. Init => GoneInv
  BY DEF Init, GoneInv
<1>2. SysInv /\ [Next]_vars => SysInv'
  BY NextKeepsSysInv
<1>3. SysInv /\ [Next]_vars => [TP!Next]_(TP!vars)
  BY StepMaps, TunnelSteps
<1>4. TP!Inv => TP!TypeOK
  BY DEF TP!Inv
<1>5. SP!SlotInv => SP!TypeOK
  BY DEF SP!SlotInv, SP!TypeInv
<1>. QED
  BY <1>1, <1>2, <1>3, <1>4, <1>5, InitSysInv, TunnelInvInit, TunnelInvStep, GoneStep,
     SlotsInvariant, PTL DEF Spec

\* Every variable of the system keeps its type, and the connection in use is always
\* one that the server has admitted and the client has not closed.
THEOREM SystemTypes == Spec => []TypeOK
<1>1. SP!TypeOK => Server!TypeOK
  BY DEF SP!TypeOK, Server!TypeOK, SP!LimiterTypeOK, Server!LimiterTypeOK, SP!Label,
     Server!Label, SP!Frame, Server!Frame, SP!Network, Server!Network, SP!Never,
     Server!Never, SP!BucketCapacity, Server!BucketCapacity
<1>2. TP!TypeOK => Tunnel!TypeOK
  BY DEF TP!TypeOK, Tunnel!TypeOK, TP!FlagsOK, Tunnel!FlagsOK, TP!Label, Tunnel!Label
<1>3. SysInv /\ SP!SlotInv /\ TP!Inv /\ GoneInv => TypeOK
  <2>. SUFFICES ASSUME SysInv, SP!SlotInv, TP!Inv, GoneInv
                PROVE  TypeOK
    OBVIOUS
  <2>1. Server!TypeOK /\ Tunnel!TypeOK
    BY <1>1, <1>2 DEF SP!SlotInv, SP!TypeInv, TP!Inv
  <2>2. conn \in Handler => Established(conn) /\ ~gone[conn]
    BY DEF SysInv, ConnOK, GoneInv
  <2>. QED
    BY <2>1, <2>2 DEF TypeOK, SysInv, TypeInv
<1>. QED
  BY <1>3, SystemInvariant, PTL

\* A handler that has read the whitelist is turned away only for want of a slot.
LEMMA OnlyDenialsEndAdmission ==
  ASSUME hpc \in [Handler -> Server!Label], [Next]_vars, NEW h \in Handler,
         hpc[h] = "admit", hpc'[h] = "close"
  PROVE  Server!Deny(h)
<1>. DEFINE Elsewhere == \E g \in Handler : \E to :
              /\ hpc' = [hpc EXCEPT ![g] = to]
              /\ hpc[g] # "admit" \/ to # "close"
<1>1. hpc' # hpc
  OBVIOUS
<1>2. ~Elsewhere
  OBVIOUS
<1>3. \E g \in Handler : Handle(g)
  <2>1. ASSUME NEW b \in Browser, Client(b)
        PROVE  UNCHANGED hpc \/ Elsewhere
    BY <2>1 DEF Client, Alone, ConnectSocket, Connected, ConnectFails, SendOk, GiveUp,
       Abandon, Server!Accept, Server!Step, Server!PeerSend, Server!PeerClose, serverVars
  <2>2. CASE CloseTunnel \/ \E g \in Handler : FreeSocket(g)
    BY <1>1, <2>2 DEF CloseTunnel, Abandon, FreeSocket, Server!PeerClose, serverVars
  <2>3. ASSUME NEW g \in Handler, Forward(g)
        PROVE  Elsewhere
    BY <2>3 DEF Forward, Server!Forward, Server!Step
  <2>4. ~UNCHANGED vars
    BY <1>1 DEF vars, serverVars
  <2>. HIDE DEF Elsewhere
  <2>. QED
    BY <1>1, <1>2, <2>1, <2>2, <2>3, <2>4 DEF Next
<1>4. PICK g \in Handler : Handle(g)
  BY <1>3
<1>5. Server!Deny(g) \/ Elsewhere
  <2>1. CASE Server!CheckAccess(g) \/ Server!CheckIdle(g)
    BY <2>1 DEF Server!CheckAccess, Server!CheckIdle
  <2>2. CASE Server!TakeToken(g)
    BY <2>2 DEF Server!TakeToken, Server!Step
  <2>3. CASE \/ Server!Admit(g) \/ Server!HandshakeFails(g) \/ Server!RecvRequest(g)
             \/ Server!RecvCorrupt(g) \/ Server!RecvDisconnect(g) \/ Server!RecvTimeout(g)
             \/ Server!CheckRate(g) \/ Server!Release(g)
    BY <2>3 DEF Server!Admit, Server!HandshakeFails, Server!RecvRequest, Server!RecvCorrupt,
       Server!RecvDisconnect, Server!RecvTimeout, Server!CheckRate, Server!Release,
       Server!Step
  <2>4. CASE Server!SendFails(g) \/ Reply(g)
    BY <2>4 DEF Server!SendFails, Reply, Server!SendOk, Server!Step
  <2>5. CASE DropIdle(g) \/ HandshakeOk(g) \/ Close(g)
    BY <2>5 DEF DropIdle, HandshakeOk, Close, Server!HandshakeOk, Server!Close, Server!Step
  <2>. HIDE DEF Elsewhere
  <2>. QED
    BY <1>4, <2>1, <2>2, <2>3, <2>4, <2>5 DEF Handle, HandleAlone
<1>6. Server!Deny(g)
  BY <1>2, <1>5
<1>7. g = h
  BY <1>6 DEF Server!Deny, Server!Step
<1>. QED
  BY <1>6, <1>7

\* For any numbers of threads and any caps, the server refuses its client another
\* connection only because of connections that the client has given up.
THEOREM DeniedByLeftovers == Spec => DeniedOnlyByLeftovers
<1>. DEFINE Excused == \A h \in Handler :
              hpc[h] = "admit" /\ hpc'[h] = "close" /\ h = dialled
                => Server!Holders # {} /\ conn \notin Server!Holders
<1>1. SysInv /\ SP!SlotInv /\ [Next]_vars => Excused
  <2>. SUFFICES ASSUME SysInv, SP!SlotInv, [Next]_vars, NEW h \in Handler,
                       hpc[h] = "admit", hpc'[h] = "close", h = dialled
                PROVE  Server!Holders # {} /\ conn \notin Server!Holders
    BY DEF Excused
  <2>0. hpc \in [Handler -> Server!Label] /\ NoSocket \notin Handler
    BY SocketAssumption DEF SysInv, TypeInv
  <2>1. conn = NoSocket
    BY <2>0 DEF SysInv, DialOK
  <2>2. ip[h] = ClientIp
    BY DEF SP!SlotInv, SP!TypeInv, SP!ServesAddress
  <2>3. total >= MaxTotal \/ connections[ClientIp] >= MaxPerIp
    <3>1. Server!Deny(h)
      BY <2>0, OnlyDenialsEndAdmission
    <3>2. total \in Nat /\ connections[ClientIp] \in Nat
      BY DEF SP!SlotInv, SP!TypeInv, SP!TypeOK, SP!LimiterTypeOK
    <3>. QED
      BY <2>2, <3>1, <3>2, ServerAssumption DEF Server!Deny, Server!BelowCaps
  <2>4. total # 0 \/ connections[ClientIp] # 0
    BY <2>3, ServerAssumption
  <2>5. Server!Holders # {}
    <3>1. SP!Holders = Server!Holders
      BY DEF SP!Holders, Server!Holders, SP!Holding, Server!Holding, SP!Serving, Server!Serving
    <3>2. SP!Holders = {} => SP!HoldersOf(ClientIp) = {}
      BY DEF SP!HoldersOf
    <3>3. SP!Cardinality({}) = 0
      <4>1. SP!Cardinality({}) = Cardinality({})
        BY DEF SP!Cardinality, Cardinality
      <4>. QED
        BY <4>1, FS_EmptySet
    <3>4. total = SP!Cardinality(SP!Holders)
          /\ connections[ClientIp] = SP!Cardinality(SP!HoldersOf(ClientIp))
      BY DEF SP!SlotInv, SP!SlotAccounting
    <3>. QED
      BY <2>4, <3>1, <3>2, <3>3, <3>4
  <2>. QED
    BY <2>0, <2>1, <2>5 DEF Server!Holders
<1>. HIDE DEF Excused
<1>2. SysInv /\ SP!SlotInv /\ [Next]_vars => [Excused]_vars
  BY <1>1
<1>3. Spec => [][Excused]_vars
  BY <1>2, SystemInvariant, PTL DEF Spec
<1>. QED
  BY <1>3 DEF Excused, DeniedOnlyByLeftovers

\* The work done for a request is found again on its connection: on one given up,
\* or on the one in use, where it is sent once.
LEMMA UnsettledOnWire ==
  ASSUME SysInv, NEW b \in Browser
  PROVE  /\ Cardinality(Unsettled(b)) \in Nat /\ Cardinality(LeftBehind(b)) \in Nat
         /\ TP!Cardinality(TP!Occurs(b)) \in Nat
         /\ Cardinality(Unsettled(b))
              <= Cardinality(LeftBehind(b)) + TP!Cardinality(TP!Occurs(b))
<1>0. /\ IsFiniteSet(Unsettled(b)) /\ Cardinality(Unsettled(b)) \in Nat
      /\ IsFiniteSet(LeftBehind(b)) /\ Cardinality(LeftBehind(b)) \in Nat
  BY Counted
<1>1. IsFiniteSet(TP!Occurs(b)) /\ Cardinality(TP!Occurs(b)) \in Nat
  <2>. DEFINE s == IF conn \in Handler THEN reqs[conn] ELSE <<>>
  <2>1. Len(s) \in Nat
    BY DEF SysInv, TypeInv
  <2>2. TP!Occurs(b) \subseteq 1..Len(s)
    BY DEF TP!Occurs
  <2>. HIDE DEF s
  <2>3. IsFiniteSet(1..Len(s))
    BY <2>1, FS_Interval
  <2>4. IsFiniteSet(TP!Occurs(b))
    BY <2>2, <2>3, FS_Subset
  <2>. QED
    BY <2>4, FS_CardinalityType
<1>2. TP!Cardinality(TP!Occurs(b)) = Cardinality(TP!Occurs(b))
  BY DEF TP!Cardinality, Cardinality
<1>3. ASSUME NEW h \in Unsettled(b)
      PROVE  1 \in 1..Len(reqs[h]) /\ reqs[h][1] = b
  <2>1. /\ h \in Handler /\ ran[h] /\ Head(reqs[h]) = b
        /\ reqs[h] \in Seq(Browser) /\ reqs[h] # <<>>
    BY DEF Unsettled, SysInv, TypeInv, HandlerOK
  <2>. QED
    BY <2>1, TailElements
<1>4. Unsettled(b) \ {conn} \subseteq LeftBehind(b)
  BY <1>3 DEF Unsettled, LeftBehind
<1>5. CASE conn \notin Unsettled(b)
  <2>1. Unsettled(b) \subseteq LeftBehind(b)
    BY <1>4, <1>5
  <2>2. Cardinality(Unsettled(b)) <= Cardinality(LeftBehind(b))
    BY <1>0, <2>1, FS_Subset
  <2>. QED
    BY <1>0, <1>1, <1>2, <2>2
<1>6. CASE conn \in Unsettled(b)
  <2>1. conn \in Handler
    BY <1>6 DEF Unsettled
  <2>2. 1 \in TP!Occurs(b)
    BY <1>3, <1>6, <2>1 DEF TP!Occurs
  <2>3. Cardinality(TP!Occurs(b)) >= 1
    BY <1>1, <2>2, FS_EmptySet
  <2>4. conn \notin LeftBehind(b)
    BY DEF LeftBehind
  <2>5. /\ IsFiniteSet(LeftBehind(b) \cup {conn})
        /\ Cardinality(LeftBehind(b) \cup {conn}) = Cardinality(LeftBehind(b)) + 1
    BY <1>0, <2>4, FS_AddElement
  <2>6. Unsettled(b) \subseteq LeftBehind(b) \cup {conn}
    BY <1>4
  <2>7. Cardinality(Unsettled(b)) <= Cardinality(LeftBehind(b)) + 1
    <3>1. Cardinality(Unsettled(b)) <= Cardinality(LeftBehind(b) \cup {conn})
      BY <2>5, <2>6, FS_Subset
    <3>. QED
      BY <2>5, <3>1
  <2>. QED
    BY <1>0, <1>1, <1>2, <2>3, <2>7
<1>. QED
  BY <1>0, <1>1, <1>2, <1>5, <1>6

\* However many threads share the tunnel and however often it is replaced, the
\* server carries a request out no more often than the client has attempted it.
THEOREM ExecutionsAttempted == Spec => []NoMoreThanAttempted
<1>1. SysInv /\ TP!Inv /\ TP!OnceInv /\ TP!BoundInv => NoMoreThanAttempted
  <2>. SUFFICES ASSUME SysInv, TP!Inv, TP!OnceInv, TP!BoundInv, NEW b \in Browser
                PROVE  execs[b] <= attempt[b]
    BY DEF NoMoreThanAttempted
  <2>. DEFINE
         tunnelExecs == [c \in Browser |-> execs[c] - Cardinality(Unsettled(c))]
         stray == [c \in Browser |-> Cardinality(LeftBehind(c))]
  <2>1. TP!TypeOK /\ attempt[b] \in Nat
    BY DEF TP!Inv, TP!TypeOK
  <2>2. TP!ExecutionsBounded
    BY <2>1, TP!BoundSuffices, BrowserAssumption, RetriesAssumption
  <2>3. tunnelExecs[b] + stray[b] + TP!Cardinality(TP!Occurs(b)) <= attempt[b]
    BY <2>2 DEF TP!ExecutionsBounded
  <2>4. execs[b] \in Nat
    BY DEF SysInv, TypeInv
  <2>. QED
    BY <2>1, <2>3, <2>4, UnsettledOnWire
<1>. QED
  BY <1>1, SystemInvariant, PTL

\* The slots of the server are accounted for and within its caps also while the
\* client leaves connections behind and the idle timeout ends others.
THEOREM SystemSlots == Spec => [](Server!SlotAccounting /\ Server!CapsRespected)
<1>1. SP!SlotInv => Server!SlotAccounting /\ Server!CapsRespected
  BY DEF SP!SlotInv, SP!SlotAccounting, Server!SlotAccounting, SP!CapsRespected,
     Server!CapsRespected, SP!Cardinality, Server!Cardinality, SP!Holders, Server!Holders,
     SP!HoldersOf, Server!HoldersOf, SP!Holding, Server!Holding, SP!Serving, Server!Serving
<1>. QED
  BY <1>1, SystemInvariant, PTL
=============================================================================
