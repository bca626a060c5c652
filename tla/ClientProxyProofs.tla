--------------------------- MODULE ClientProxyProofs ---------------------------
(***************************************************************************)
(* Theorems about ClientProxy, for any number of retries, chunks and       *)
(* connections to the target.                                              *)
(*                                                                         *)
(* A connection that the server has left is never used again, so for the   *)
(* first one it is enough to look at the time it is in use.  In that time  *)
(* the thread goes on to the next chunk only after the last one has got    *)
(* through, and a late RELAY is one of a chunk the thread had read.        *)
(***************************************************************************)
EXTENDS ClientProxy, SequenceTheorems, TLAPS

\* A RELAY, also a late one, is one of a chunk that the proxy has read.
TypeInv ==
  /\ TypeOK
  /\ taken \in [Dial -> Nat]
  /\ \A q \in stray : q <= read
  /\ pc \in {"relay", "deliver"} => read >= 1
  /\ pc \in {"first", "http", "connect"} => read = 0

\* The target has got the chunk k on the first connection.
Got(k) == \E i \in 1..Len(targetGot[1]) : targetGot[1][i] = k

\* While the first connection is in use the target has got on it every chunk
\* read, or every one but the last while that is being relayed or given up.
GapInv ==
  /\ dials = 0 => read = 0 /\ pc \notin {"loop", "relay", "deliver"}
  /\ session = 1 =>
       \A k \in 1..read : Got(k) \/ (k = read /\ pc \notin {"loop", "deliver"})
  /\ NoGapAtTarget

\* The bytes the target sent: the first n on its first connection.
Stream(n) == [k \in 1..n |-> <<1, k>>]

\* A stream to which nothing has happened: what each end has, at each place of
\* the thread, and that the end of the stream is followed by the end of the thread.
StreamInv ==
  spoiled = {} =>
    /\ stray = {} /\ dials <= 1
    /\ pc \in {"first", "http", "connect"} => dials = 0
    /\ dials = 0 => targetGot[1] = <<>> /\ taken[1] = 0 /\ browserGot = <<>>
    /\ pc \in {"loop", "relay"} => session = 1
    /\ pc = "deliver" => session = 1 \/ reply.closed
    /\ pc \in {"loop", "deliver"} => Len(targetGot[1]) = read
    /\ pc = "relay" => Len(targetGot[1]) + 1 = read
    /\ pc \notin {"deliver", "closed"} => reply.body = <<>>
    /\ IsSegment(targetGot[1])
    /\ browserGot \o reply.body = Stream(taken[1])

(***************************************************************************)
(* Requests at the server.                                                 *)
(***************************************************************************)
\* Every body the server answers with is made of the page or of target bytes.
LEMMA BodyType ==
  ASSUME NEW d \in Dial, NEW m \in Nat, NEW n \in Nat, m + n <= MaxDown
  PROVE  [k \in 1..n |-> <<d, m + k>>] \in Seq(Item)
<1>1. ASSUME NEW k \in 1..n
      PROVE  <<d, m + k>> \in Item
  <2>1. m + k \in 1..MaxDown
    BY BoundsAssumption
  <2>. QED
    BY <2>1 DEF Item
<1>. QED
  BY <1>1

\* A chunk the proxy has read may be appended to what a connection got.
LEMMA AppendType ==
  ASSUME TypeInv, NEW d \in Dial, NEW q \in 1..read
  PROVE  [targetGot EXCEPT ![d] = Append(@, q)] \in [Dial -> Seq(1..read)]
<1>1. targetGot \in [Dial -> Seq(1..read)]
  BY DEF TypeInv, TypeOK
<1>2. Append(targetGot[d], q) \in Seq(1..read)
  BY <1>1
<1>. QED
  BY <1>1, <1>2

\* A request keeps the types of what the server has, and of its answer.
LEMMA ExecuteTypes ==
  ASSUME TypeInv, NEW q \in 0..read, NEW answer, Execute(q, answer)
  PROVE  /\ dials' \in 0..MaxDials /\ session' \in 0..dials'
         /\ targetGot' \in [Dial -> Seq(1..read)]
         /\ taken' \in [Dial -> Nat]
         /\ \A d \in Dial : taken'[d] \in 0..down[d]
         /\ answer \in [body : Seq(Item), closed : BOOLEAN]
<1>0. /\ dials \in 0..MaxDials /\ session \in 0..dials
      /\ targetGot \in [Dial -> Seq(1..read)] /\ read \in Nat
      /\ taken \in [Dial -> Nat] /\ down \in [Dial -> 0..MaxDown]
      /\ \A d \in Dial : taken[d] \in 0..down[d]
      /\ MaxDials \in Nat /\ MaxDown \in Nat
  BY BoundsAssumption DEF TypeInv, TypeOK
<1>1. /\ NoReply \in [body : Seq(Item), closed : BOOLEAN]
      /\ [body |-> <<Page>>, closed |-> FALSE] \in [body : Seq(Item), closed : BOOLEAN]
  BY DEF NoReply, Item
<1>2. CASE q = CONNECT \/ session = 0
  <2>1. /\ UNCHANGED <<targetGot, taken>>
        /\ \/ dials < MaxDials /\ dials' = dials + 1 /\ session' = dials + 1
           \/ UNCHANGED <<dials, session>>
        /\ answer = NoReply \/ answer = [body |-> <<Page>>, closed |-> FALSE]
    BY <1>2 DEF Execute, serverVars, CONNECT
  <2>2. dials' \in 0..MaxDials /\ session' \in 0..dials'
    BY <1>0, <2>1
  <2>. QED
    BY <1>0, <1>1, <2>1, <2>2
<1>3. CASE q # CONNECT /\ session # 0
  <2>1. session \in Dial /\ q \in 1..read
    BY <1>0, <1>3 DEF Dial, CONNECT
  <2>2. CASE /\ session' = 0
             /\ answer = [body |-> <<Page>>, closed |-> FALSE]
             /\ UNCHANGED <<dials, targetGot, taken>>
    BY <1>0, <1>1, <2>2
  <2>3. ASSUME NEW n \in taken[session]..down[session], NEW eof \in BOOLEAN,
               targetGot' = [targetGot EXCEPT ![session] = Append(@, q)],
               taken' = [taken EXCEPT ![session] = n],
               answer = [body |-> [k \in 1..(n - taken[session]) |->
                                     <<session, taken[session] + k>>],
                         closed |-> eof],
               session' = IF eof THEN 0 ELSE session,
               UNCHANGED dials
        PROVE  /\ dials' \in 0..MaxDials /\ session' \in 0..dials'
               /\ targetGot' \in [Dial -> Seq(1..read)]
               /\ taken' \in [Dial -> Nat]
               /\ \A d \in Dial : taken'[d] \in 0..down[d]
               /\ answer \in [body : Seq(Item), closed : BOOLEAN]
    <3>1. /\ taken[session] \in Nat /\ n \in Nat /\ n <= down[session]
          /\ n - taken[session] \in Nat
          /\ taken[session] + (n - taken[session]) <= MaxDown
      BY <1>0, <2>1
    <3>2. answer.body \in Seq(Item)
      BY <2>1, <2>3, <3>1, BodyType
    <3>3. \A d \in Dial : taken'[d] = IF d = session THEN n ELSE taken[d]
      BY <1>0, <2>3
    <3>4. ASSUME NEW d \in Dial
          PROVE  taken'[d] \in 0..down[d]
      <4>1. n \in 0..down[session] /\ taken[d] \in 0..down[d]
        BY <1>0, <2>1, <3>1
      <4>. QED
        BY <3>3, <4>1
    <3>. QED
      BY <1>0, <2>1, <2>3, <3>1, <3>2, <3>4, AppendType
  <2>. QED
    BY <1>3, <2>2, <2>3 DEF Execute
<1>. QED
  BY <1>2, <1>3

\* The server's part of a step: a request is carried out, or nothing changes.
ServerStep(q) == Executed(q) \/ UNCHANGED serverVars

\* It keeps the types of the server's variables.
LEMMA ServerTypes ==
  ASSUME TypeInv, NEW q \in 0..read, ServerStep(q)
  PROVE  /\ dials' \in 0..MaxDials /\ session' \in 0..dials'
         /\ targetGot' \in [Dial -> Seq(1..read)]
         /\ taken' \in [Dial -> Nat]
         /\ \A d \in Dial : taken'[d] \in 0..down[d]
<1>1. CASE Executed(q)
  BY <1>1, ExecuteTypes DEF Executed
<1>2. CASE UNCHANGED serverVars
  BY <1>2 DEF TypeInv, TypeOK, serverVars
<1>. QED
  BY <1>1, <1>2 DEF ServerStep

\* A failed attempt at q may leave q behind, and ends in the same place or in giveUp.
LEMMA AttemptEffect ==
  ASSUME TypeInv, NEW q \in 0..read, NEW giveUp \in Label, AttemptFails(q, giveUp)
  PROVE  /\ ServerStep(q)
         /\ attempt' \in 1..MaxRetries
         /\ pc' = pc \/ pc' = giveUp
         /\ stray' \in SUBSET Request /\ \A r \in stray' : r <= read
         /\ spoiled' \in SUBSET Incident /\ "retry" \in spoiled'
         /\ UNCHANGED <<reply, browserVars, targetVars>>
<1>1. /\ attempt \in 1..MaxRetries /\ MaxRetries \in Nat /\ stray \in SUBSET Request
      /\ q \in Request /\ q <= read /\ \A r \in stray : r <= read
      /\ spoiled \in SUBSET Incident
  BY BoundsAssumption DEF TypeInv, TypeOK, Request
<1>2. /\ stray' = stray \/ stray' = stray \cup {q}
      /\ spoiled' = spoiled \cup {"retry"}
      /\ UNCHANGED <<reply, browserVars, targetVars>>
  BY DEF AttemptFails
<1>3. ServerStep(q)
  BY DEF AttemptFails, ServerStep
<1>4. attempt' \in 1..MaxRetries /\ (pc' = pc \/ pc' = giveUp)
  BY <1>1 DEF AttemptFails
<1>. QED
  BY <1>1, <1>2, <1>3, <1>4 DEF Incident

(***************************************************************************)
(* Types.                                                                  *)
(***************************************************************************)
\* The stream starts with nothing sent and no connection made.
LEMMA TypeInit == Init => TypeInv
<1>. SUFFICES ASSUME Init PROVE TypeInv
  OBVIOUS
<1>1. /\ pc = "first" /\ attempt = 1 /\ reply = NoReply
      /\ browserEof = FALSE /\ written = 0 /\ read = 0 /\ browserGot = <<>>
      /\ dials = 0 /\ session = 0 /\ targetEof = {} /\ stray = {} /\ spoiled = {}
  BY DEF Init
<1>2. /\ targetGot \in [Dial -> Seq(1..read)]
      /\ down \in [Dial -> 0..MaxDown]
      /\ \A d \in Dial : taken[d] \in 0..down[d]
      /\ taken \in [Dial -> Nat]
  BY BoundsAssumption DEF Init
<1>3. reply \in [body : Seq(Item), closed : BOOLEAN]
  BY <1>1 DEF NoReply
<1>4. attempt \in 1..MaxRetries /\ written \in 0..MaxUp /\ dials \in 0..MaxDials
  BY <1>1, BoundsAssumption
<1>5. browserGot \in Seq(Item) /\ read \in 0..written /\ session \in 0..dials
  BY <1>1
<1>6. pc \in Label /\ pc \notin {"relay", "deliver"}
  BY <1>1 DEF Label
<1>7. TypeOK
  BY <1>1, <1>2, <1>3, <1>4, <1>5, <1>6 DEF TypeOK
<1>. QED
  BY <1>1, <1>2, <1>6, <1>7 DEF TypeInv

\* The variables that a step of the server and of the attempts leaves alone, and
\* that keep their types with the rest of TypeOK.
LEMMA TypeKept ==
  ASSUME TypeInv,
         pc' \in Label, attempt' \in 1..MaxRetries,
         reply' \in [body : Seq(Item), closed : BOOLEAN],
         UNCHANGED <<browserVars, targetVars>>,
         dials' \in 0..MaxDials /\ session' \in 0..dials',
         targetGot' \in [Dial -> Seq(1..read)],
         taken' \in [Dial -> Nat], \A d \in Dial : taken'[d] \in 0..down[d],
         stray' \in SUBSET Request, \A q \in stray' : q <= read,
         spoiled' \in SUBSET Incident,
         pc' \in {"relay", "deliver"} => pc \in {"relay", "deliver"},
         pc' \in {"first", "http", "connect"} => pc \in {"first", "http", "connect"}
  PROVE  TypeInv'
BY DEF TypeInv, TypeOK, browserVars, targetVars

\* So do steps of the thread in which the server has no part.
LEMMA TypeQuiet ==
  ASSUME TypeInv, pc' \in Label,
         reply' \in [body : Seq(Item), closed : BOOLEAN],
         browserGot' \in Seq(Item), spoiled' \in SUBSET Incident,
         UNCHANGED <<attempt, browserEof, written, read, serverVars, targetVars, stray>>,
         pc' \in {"relay", "deliver"} => pc \in {"relay", "deliver"},
         pc' \in {"first", "http", "connect"} => pc \in {"first", "http", "connect"}
  PROVE  TypeInv'
BY DEF TypeInv, TypeOK, serverVars, targetVars

\* Every step keeps the types.
LEMMA TypeStep == TypeInv /\ [Next]_vars => TypeInv'
<1>. SUFFICES ASSUME TypeInv, [Next]_vars PROVE TypeInv'
  OBVIOUS
<1>0. /\ TypeOK /\ read \in Nat /\ written \in Nat /\ read <= written
      /\ MaxUp \in Nat /\ MaxRetries \in Nat /\ MaxRetries >= 1
      /\ CONNECT \in 0..read
  BY BoundsAssumption DEF TypeInv, TypeOK, CONNECT
<1>1. CASE \/ FirstHttp \/ FirstConnect \/ FirstMalformed \/ AnswerHttp
           \/ ReadEof \/ DeliverFails
  <2>1. /\ pc' \in {"http", "connect", "closed"}
        /\ pc' # "closed" => pc = "first"
        /\ UNCHANGED <<attempt, reply, browserVars, serverVars, targetVars, stray, spoiled>>
    BY <1>1 DEF FirstHttp, FirstConnect, FirstMalformed, AnswerHttp, ReadEof, DeliverFails
  <2>2. /\ pc' \in Label /\ browserGot' \in Seq(Item) /\ spoiled' \in SUBSET Incident
        /\ reply' \in [body : Seq(Item), closed : BOOLEAN]
        /\ UNCHANGED <<attempt, browserEof, written, read, serverVars, targetVars, stray>>
    BY <1>0, <2>1 DEF TypeOK, Label, browserVars
  <2>3. pc' \notin {"relay", "deliver"}
    BY <2>1
  <2>. QED
    BY <2>1, <2>2, <2>3, TypeQuiet
<1>2. CASE ConnectAnswered
  <2>1. PICK answer \in Answer : Execute(CONNECT, answer)
    BY <1>2 DEF ConnectAnswered
  <2>2. /\ pc' \in {"loop", "closed"} /\ attempt' = 1
        /\ UNCHANGED <<reply, browserVars, targetVars, stray, spoiled>>
    BY <1>2 DEF ConnectAnswered
  <2>3. /\ dials' \in 0..MaxDials /\ session' \in 0..dials'
        /\ targetGot' \in [Dial -> Seq(1..read)]
        /\ taken' \in [Dial -> Nat] /\ \A d \in Dial : taken'[d] \in 0..down[d]
    BY <1>0, <2>1, ExecuteTypes
  <2>4. /\ stray' \in SUBSET Request /\ \A q \in stray' : q <= read
        /\ reply' \in [body : Seq(Item), closed : BOOLEAN]
        /\ spoiled' \in SUBSET Incident /\ attempt' \in 1..MaxRetries
    BY <1>0, <2>2 DEF TypeInv, TypeOK
  <2>. QED
    BY <2>2, <2>3, <2>4, TypeKept DEF Label
<1>3. CASE RelayAnswered
  <2>0. pc = "relay" /\ read \in 0..read
    <3>1. pc = "relay"
      BY <1>3 DEF RelayAnswered
    <3>. QED
      BY <1>0, <3>1
  <2>1. PICK answer \in Answer :
          /\ Execute(read, answer)
          /\ reply' = answer
          /\ spoiled' = IF Page \in Range(answer.body)
                        THEN spoiled \cup {"error page"} ELSE spoiled
    BY <1>3 DEF RelayAnswered
  <2>2. /\ pc' = "deliver" /\ attempt' = 1 /\ UNCHANGED <<browserVars, targetVars, stray>>
    BY <1>3 DEF RelayAnswered
  <2>3. /\ dials' \in 0..MaxDials /\ session' \in 0..dials'
        /\ targetGot' \in [Dial -> Seq(1..read)]
        /\ taken' \in [Dial -> Nat] /\ \A d \in Dial : taken'[d] \in 0..down[d]
        /\ reply' \in [body : Seq(Item), closed : BOOLEAN]
    BY <2>0, <2>1, ExecuteTypes
  <2>4. /\ stray' \in SUBSET Request /\ \A q \in stray' : q <= read
        /\ attempt' \in 1..MaxRetries
    BY <1>0, <2>2 DEF TypeInv, TypeOK
  <2>5. spoiled' \in SUBSET Incident
    BY <1>0, <2>1 DEF TypeOK, Incident
  <2>. QED
    BY <2>0, <2>2, <2>3, <2>4, <2>5, TypeKept DEF Label
<1>4. CASE ConnectFails \/ RelayFails
  <2>1. PICK q \in 0..read : AttemptFails(q, "closed")
    BY <1>0, <1>4 DEF ConnectFails, RelayFails
  <2>2. "closed" \in Label
    BY DEF Label
  <2>3. /\ ServerStep(q) /\ attempt' \in 1..MaxRetries
        /\ pc' = pc \/ pc' = "closed"
        /\ stray' \in SUBSET Request /\ \A r \in stray' : r <= read
        /\ spoiled' \in SUBSET Incident
        /\ UNCHANGED <<reply, browserVars, targetVars>>
    BY <2>1, <2>2, AttemptEffect
  <2>4. /\ dials' \in 0..MaxDials /\ session' \in 0..dials'
        /\ targetGot' \in [Dial -> Seq(1..read)]
        /\ taken' \in [Dial -> Nat] /\ \A d \in Dial : taken'[d] \in 0..down[d]
    BY <2>3, ServerTypes
  <2>5. pc' \in Label /\ reply' \in [body : Seq(Item), closed : BOOLEAN]
    BY <1>0, <2>2, <2>3 DEF TypeOK
  <2>. QED
    BY <2>3, <2>4, <2>5, TypeKept
<1>5. CASE ReadChunk
  <2>1. /\ pc' = "relay" /\ read < written /\ read' = read + 1
        /\ UNCHANGED <<attempt, reply, browserEof, written, browserGot, serverVars,
                       targetVars, stray, spoiled>>
    BY <1>5 DEF ReadChunk
  <2>2. /\ read' \in 0..written' /\ read' >= 1
        /\ \A q \in stray' : q <= read'
    BY <1>0, <2>1 DEF TypeInv, TypeOK, Request
  <2>3. targetGot' \in [Dial -> Seq(1..read')]
    <3>1. 1..read \subseteq 1..read'
      BY <1>0, <2>1
    <3>2. Seq(1..read) \subseteq Seq(1..read')
      BY <3>1, SeqMonotonic
    <3>3. targetGot' = targetGot /\ targetGot \in [Dial -> Seq(1..read)]
      BY <1>0, <2>1 DEF TypeOK, serverVars
    <3>. QED
      BY <3>2, <3>3
  <2>. QED
    BY <2>1, <2>2, <2>3 DEF TypeInv, TypeOK, Label, serverVars, targetVars
<1>6. CASE DeliverAll \/ DeliverPart
  <2>1. /\ pc' \in {"loop", "closed"} /\ reply' = NoReply
        /\ UNCHANGED <<attempt, browserEof, written, read, serverVars, targetVars, stray>>
        /\ spoiled' = spoiled \/ spoiled' = spoiled \cup {"short write"}
    BY <1>6 DEF DeliverAll, DeliverPart
  <2>2. browserGot \in Seq(Item) /\ reply.body \in Seq(Item)
    BY <1>0 DEF TypeOK
  <2>3. browserGot' \in Seq(Item)
    <3>1. CASE DeliverAll
      BY <2>2, <3>1 DEF DeliverAll
    <3>2. CASE DeliverPart
      <4>1. PICK n \in 0..(Len(reply.body) - 1) :
              browserGot' = browserGot \o SubSeq(reply.body, 1, n)
        BY <3>2 DEF DeliverPart
      <4>2. SubSeq(reply.body, 1, n) \in Seq(Item)
        BY <2>2, <4>1
      <4>. QED
        BY <2>2, <4>1, <4>2
    <3>. QED
      BY <1>6, <3>1, <3>2
  <2>4. reply' \in [body : Seq(Item), closed : BOOLEAN]
    <3>1. NoReply \in [body : Seq(Item), closed : BOOLEAN]
      BY DEF NoReply
    <3>. QED
      BY <2>1, <3>1
  <2>5. spoiled' \in SUBSET Incident
    BY <1>0, <2>1 DEF TypeOK, Incident
  <2>6. pc' \in Label /\ pc' \notin {"first", "http", "connect", "relay", "deliver"}
    BY <2>1 DEF Label
  <2>. QED
    BY <2>1, <2>3, <2>4, <2>5, <2>6, TypeQuiet
<1>7. CASE BrowserWrites \/ BrowserCloses
  <2>1. /\ written' \in {written, written + 1} /\ written' \in 0..MaxUp
        /\ browserEof' \in BOOLEAN
        /\ UNCHANGED <<proxyVars, read, browserGot, serverVars, targetVars, stray, spoiled>>
    <3>1. written \in 0..MaxUp /\ browserEof \in BOOLEAN
      BY <1>0 DEF TypeOK
    <3>2. CASE BrowserWrites
      BY <1>0, <3>1, <3>2 DEF BrowserWrites
    <3>3. CASE BrowserCloses
      BY <3>1, <3>3 DEF BrowserCloses
    <3>. QED
      BY <1>7, <3>2, <3>3
  <2>2. read' \in 0..written'
    BY <1>0, <2>1
  <2>. QED
    BY <2>1, <2>2 DEF TypeInv, TypeOK, proxyVars, serverVars, targetVars
<1>8. ASSUME NEW d \in Dial, TargetWrites(d) \/ TargetCloses(d)
      PROVE  TypeInv'
  <2>1. /\ UNCHANGED <<proxyVars, browserVars, serverVars, stray, spoiled>>
        /\ \/ down' = down
           \/ down[d] < MaxDown /\ down' = [down EXCEPT ![d] = @ + 1]
        /\ targetEof' \in SUBSET Dial
    BY <1>0, <1>8 DEF TargetWrites, TargetCloses, TypeOK
  <2>2. /\ down' \in [Dial -> 0..MaxDown]
        /\ \A e \in Dial : down[e] \in Nat /\ down'[e] \in Nat /\ down[e] <= down'[e]
    <3>1. down \in [Dial -> 0..MaxDown] /\ MaxDown \in Nat
      BY <1>0, BoundsAssumption DEF TypeOK
    <3>2. CASE down' = down
      BY <3>1, <3>2
    <3>3. CASE down[d] < MaxDown /\ down' = [down EXCEPT ![d] = @ + 1]
      <4>1. \A e \in Dial : down'[e] = IF e = d THEN down[e] + 1 ELSE down[e]
        BY <3>1, <3>3
      <4>2. down[d] + 1 \in 0..MaxDown
        BY <3>1, <3>3
      <4>3. down' \in [Dial -> 0..MaxDown]
        BY <3>1, <3>3, <4>2
      <4>. QED
        BY <3>1, <4>1, <4>3
    <3>. QED
      BY <2>1, <3>2, <3>3
  <2>3. \A e \in Dial : taken'[e] \in 0..down'[e]
    BY <1>0, <2>1, <2>2 DEF TypeOK, serverVars
  <2>. QED
    BY <2>1, <2>2, <2>3 DEF TypeInv, TypeOK, proxyVars, browserVars, serverVars
<1>9. ASSUME NEW q \in Request, LateRequest(q)
      PROVE  TypeInv'
  <2>1. /\ q \in stray /\ stray' = stray \ {q} /\ Executed(q)
        /\ UNCHANGED <<proxyVars, browserVars, targetVars, spoiled>>
    BY <1>9 DEF LateRequest
  <2>2. q \in 0..read
    BY <1>0, <2>1 DEF TypeInv, Request
  <2>3. /\ dials' \in 0..MaxDials /\ session' \in 0..dials'
        /\ targetGot' \in [Dial -> Seq(1..read)]
        /\ taken' \in [Dial -> Nat] /\ \A d \in Dial : taken'[d] \in 0..down[d]
    BY <2>1, <2>2, ServerTypes DEF ServerStep
  <2>4. /\ pc' \in Label /\ pc' = pc /\ attempt' \in 1..MaxRetries
        /\ reply' \in [body : Seq(Item), closed : BOOLEAN]
        /\ stray' \in SUBSET Request /\ \A r \in stray' : r <= read
        /\ spoiled' \in SUBSET Incident
    BY <1>0, <2>1 DEF TypeInv, TypeOK, proxyVars
  <2>. QED
    BY <2>1, <2>3, <2>4, TypeKept
<1>10. CASE UNCHANGED vars
  BY <1>10 DEF TypeInv, TypeOK, vars, proxyVars, browserVars, serverVars, targetVars
<1>. QED
  BY <1>1, <1>2, <1>3, <1>4, <1>5, <1>6, <1>7, <1>8, <1>9, <1>10
     DEF Next, Proxy, Environment

\* For any bounds, every variable keeps its type.
THEOREM TypeCorrect == Spec => []TypeOK
<1>1. TypeInv => TypeOK
  BY DEF TypeInv
<1>. QED
  BY <1>1, TypeInit, TypeStep, PTL DEF Spec

(***************************************************************************)
(* The chunks that the target gets.                                        *)
(***************************************************************************)
\* A chunk is appended to what the first connection got: that keeps what it got,
\* and makes no gap when every earlier chunk was there.
LEMMA AppendNoGap ==
  ASSUME targetGot[1] \in Seq(Nat), NEW q \in Nat, NoGapAtTarget,
         \A k \in 1..(q - 1) : Got(k),
         targetGot'[1] = Append(targetGot[1], q)
  PROVE  NoGapAtTarget' /\ Got(q)' /\ \A k \in Nat : Got(k) => Got(k)'
<1>1. PICK n \in Nat, s \in Seq(Nat) : s = targetGot[1] /\ n = Len(s)
  OBVIOUS
<1>2. /\ Len(targetGot'[1]) = n + 1 /\ targetGot'[1][n + 1] = q
      /\ \A i \in 1..n : targetGot'[1][i] = s[i]
  BY <1>1
<1>3. \A k \in Nat : Got(k) => Got(k)'
  BY <1>1, <1>2 DEF Got
<1>4. Got(q)'
  BY <1>1, <1>2 DEF Got
<1>5. ASSUME NEW j \in 1..(n + 1), NEW k \in 1..(targetGot'[1][j] - 1)
      PROVE  \E i \in 1..(j - 1) : targetGot'[1][i] = k
  <2>1. CASE j = n + 1
    <3>1. k \in 1..(q - 1)
      BY <1>2, <1>5, <2>1
    <3>2. PICK i \in 1..n : s[i] = k
      BY <1>1, <3>1 DEF Got
    <3>. QED
      BY <1>1, <1>2, <2>1, <3>2
  <2>2. CASE j # n + 1
    <3>1. j \in 1..n /\ k \in 1..(s[j] - 1)
      BY <1>1, <1>2, <1>5, <2>2
    <3>2. PICK i \in 1..(j - 1) : s[i] = k
      BY <1>1, <3>1 DEF NoGapAtTarget
    <3>3. i \in 1..n
      BY <1>1, <3>1, <3>2
    <3>. QED
      BY <1>2, <3>2, <3>3
  <2>. QED
    BY <2>1, <2>2
<1>. QED
  BY <1>2, <1>3, <1>4, <1>5 DEF NoGapAtTarget

\* A request leaves no gap: on the first connection it comes after those before it.
LEMMA ExecuteNoGap ==
  ASSUME TypeInv, GapInv, NEW q \in 0..read, NEW answer, Execute(q, answer)
  PROVE  /\ NoGapAtTarget'
         /\ \A k \in Nat : Got(k) => Got(k)'
         /\ dials' = 0 => dials = 0
         /\ session' = 1 => session = 1 \/ read = 0
         /\ session' = 1 /\ q # CONNECT => Got(q)'
<1>0. /\ dials \in 0..MaxDials /\ MaxDials \in Nat /\ session \in 0..dials
      /\ read \in Nat /\ targetGot \in [Dial -> Seq(1..read)] /\ 1 \in Dial
      /\ NoGapAtTarget
  BY BoundsAssumption DEF TypeInv, TypeOK, Dial, GapInv
<1>1. CASE UNCHANGED targetGot
  <2>1. NoGapAtTarget' /\ \A k \in Nat : Got(k) => Got(k)'
    BY <1>0, <1>1 DEF NoGapAtTarget, Got
  <2>2. \/ q = CONNECT /\ dials' = dials + 1 /\ session' = dials + 1
        \/ q = CONNECT /\ UNCHANGED <<dials, session>>
        \/ session' = 0 /\ dials' = dials
    <3>1. ASSUME session # 0
          PROVE  targetGot' # [targetGot EXCEPT ![session] = Append(@, q)]
      <4>1. session \in Dial
        BY <1>0, <3>1 DEF Dial
      <4>2. Len(Append(targetGot[session], q)) = Len(targetGot[session]) + 1
        BY <1>0, <4>1
      <4>3. Append(targetGot[session], q) # targetGot[session]
        BY <1>0, <4>1, <4>2
      <4>. QED
        BY <1>0, <1>1, <4>1, <4>3
    <3>. QED
      BY <3>1 DEF Execute, serverVars
  <2>3. dials = 0 => read = 0
    BY DEF GapInv
  <2>. QED
    BY <1>0, <2>1, <2>2, <2>3 DEF CONNECT
<1>2. CASE /\ q # CONNECT /\ session # 0 /\ UNCHANGED dials
           /\ session' \in {0, session}
           /\ targetGot' = [targetGot EXCEPT ![session] = Append(@, q)]
  <2>1. session \in Dial /\ q \in 1..read
    BY <1>0, <1>2 DEF Dial, CONNECT
  <2>2. CASE session = 1
    <3>1. targetGot'[1] = Append(targetGot[1], q) /\ targetGot[1] \in Seq(Nat)
      BY <1>0, <1>2, <2>2, SeqMonotonic
    <3>2. \A k \in 1..(q - 1) : Got(k)
      BY <1>0, <2>1, <2>2 DEF GapInv
    <3>3. NoGapAtTarget' /\ Got(q)' /\ \A k \in Nat : Got(k) => Got(k)'
      <4>1. q \in Nat /\ NoGapAtTarget
        BY <1>0, <2>1
      <4>. QED
        BY <3>1, <3>2, <4>1, AppendNoGap
    <3>. QED
      BY <1>2, <2>2, <3>3
  <2>3. CASE session # 1
    <3>1. targetGot'[1] = targetGot[1]
      BY <1>0, <1>2, <2>3
    <3>2. NoGapAtTarget' /\ \A k \in Nat : Got(k) => Got(k)'
      BY <1>0, <3>1 DEF NoGapAtTarget, Got
    <3>. QED
      BY <1>2, <2>3, <3>2
  <2>. QED
    BY <2>2, <2>3
<1>3. \/ UNCHANGED targetGot
      \/ /\ q # CONNECT /\ session # 0 /\ UNCHANGED dials
         /\ session' \in {0, session}
         /\ targetGot' = [targetGot EXCEPT ![session] = Append(@, q)]
  BY DEF Execute, serverVars
<1>. QED
  BY <1>1, <1>2, <1>3

\* A step in which the proxy reads nothing keeps GapInv, when the thread goes on to
\* the next chunk only if the last one is there.
LEMMA GapKept ==
  ASSUME TypeInv, GapInv, NoGapAtTarget', UNCHANGED read,
         \A k \in Nat : Got(k) => Got(k)',
         dials' = 0 => dials = 0,
         session' = 1 => session = 1 \/ read = 0,
         dials' = 0 => pc' \notin {"loop", "relay", "deliver"},
         session' = 1 /\ pc' \in {"loop", "deliver"} /\ pc \notin {"loop", "deliver"}
           => read = 0 \/ Got(read)'
  PROVE  GapInv'
<1>0. read \in Nat /\ read' = read
  BY DEF TypeInv, TypeOK
<1>1. dials' = 0 => read' = 0 /\ pc' \notin {"loop", "relay", "deliver"}
  BY <1>0 DEF GapInv
<1>2. ASSUME session' = 1, NEW k \in 1..read'
      PROVE  Got(k)' \/ (k = read' /\ pc' \notin {"loop", "deliver"})
  <2>1. session = 1 /\ k \in 1..read /\ k \in Nat
    BY <1>0, <1>2
  <2>2. CASE Got(k)
    BY <2>1, <2>2
  <2>3. CASE ~Got(k)
    BY <1>0, <1>2, <2>1, <2>3 DEF GapInv
  <2>. QED
    BY <2>2, <2>3
<1>. QED
  BY <1>1, <1>2 DEF GapInv

\* Every step keeps GapInv.
LEMMA GapStep == TypeInv /\ GapInv /\ [Next]_vars => GapInv'
<1>. SUFFICES ASSUME TypeInv, GapInv, [Next]_vars PROVE GapInv'
  OBVIOUS
<1>0. read \in Nat /\ CONNECT \in 0..read /\ NoGapAtTarget /\ dials \in Nat
  BY DEF TypeInv, TypeOK, CONNECT, GapInv
\* What a request does at the server, whoever makes it.
<1>a. ASSUME NEW q \in 0..read, ServerStep(q)
      PROVE  /\ NoGapAtTarget'
             /\ \A k \in Nat : Got(k) => Got(k)'
             /\ dials' = 0 => dials = 0
             /\ session' = 1 => session = 1 \/ read = 0
  <2>1. CASE UNCHANGED serverVars
    BY <1>0, <2>1 DEF serverVars, NoGapAtTarget, Got
  <2>2. CASE Executed(q)
    BY <2>2, ExecuteNoGap DEF Executed
  <2>. QED
    BY <1>a, <2>1, <2>2 DEF ServerStep
<1>1. CASE \/ FirstHttp \/ FirstConnect \/ FirstMalformed \/ AnswerHttp \/ ReadEof
           \/ DeliverAll \/ DeliverPart \/ DeliverFails \/ BrowserWrites \/ BrowserCloses
           \/ \E d \in Dial : TargetWrites(d) \/ TargetCloses(d)
           \/ UNCHANGED vars
  <2>1. /\ UNCHANGED <<read, dials, session, targetGot>>
        /\ pc' \in {"loop", "relay", "deliver"} =>
             pc' = pc \/ (pc = "deliver" /\ pc' = "loop")
    BY <1>1 DEF FirstHttp, FirstConnect, FirstMalformed, AnswerHttp, ReadEof, DeliverAll,
       DeliverPart, DeliverFails, BrowserWrites, BrowserCloses, TargetWrites, TargetCloses,
       vars, proxyVars, browserVars, serverVars
  <2>2. NoGapAtTarget' /\ \A k \in Nat : Got(k) => Got(k)'
    BY <1>0, <2>1 DEF NoGapAtTarget, Got
  <2>3. dials' = 0 => pc' \notin {"loop", "relay", "deliver"}
    BY <2>1 DEF GapInv
  <2>. QED
    BY <2>1, <2>2, <2>3, GapKept
<1>2. CASE ConnectAnswered
  <2>1. PICK answer \in Answer :
          /\ Execute(CONNECT, answer)
          /\ pc' = IF answer.body = <<>> THEN "loop" ELSE "closed"
    BY <1>2 DEF ConnectAnswered
  <2>2. /\ NoGapAtTarget' /\ \A k \in Nat : Got(k) => Got(k)'
        /\ dials' = 0 => dials = 0
        /\ session' = 1 => session = 1 \/ read = 0
    BY <1>0, <2>1, ExecuteNoGap
  <2>3. UNCHANGED read /\ read = 0
    BY <1>2 DEF ConnectAnswered, browserVars, TypeInv
  <2>4. dials' = 0 => pc' = "closed"
    BY <1>0, <2>1 DEF Execute, NoReply
  <2>. QED
    BY <2>2, <2>3, <2>4, GapKept
<1>3. CASE RelayAnswered
  <2>1. PICK answer : Execute(read, answer)
    BY <1>3 DEF RelayAnswered
  <2>2. pc = "relay" /\ pc' = "deliver" /\ UNCHANGED read
    <3>1. pc = "relay"
      BY <1>3 DEF RelayAnswered
    <3>. QED
      BY <1>3, <3>1 DEF RelayAnswered, browserVars
  <2>3. PICK q \in 0..read : q = read /\ q # CONNECT
    BY <1>0, <2>2 DEF TypeInv, CONNECT
  <2>4. /\ NoGapAtTarget' /\ \A k \in Nat : Got(k) => Got(k)'
        /\ dials' = 0 => dials = 0
        /\ session' = 1 => session = 1 \/ read = 0
        /\ session' = 1 => Got(q)'
    BY <2>1, <2>3, ExecuteNoGap
  <2>5. dials' # 0
    BY <2>2, <2>4 DEF GapInv
  <2>6. session' = 1 => Got(read)'
    BY <2>2, <2>3, <2>4 DEF Got
  <2>. QED
    BY <2>2, <2>4, <2>5, <2>6, GapKept
<1>4. CASE ConnectFails \/ RelayFails
  <2>1. PICK q \in 0..read : AttemptFails(q, "closed")
    BY <1>0, <1>4 DEF ConnectFails, RelayFails
  <2>2. "closed" \in Label
    BY DEF Label
  <2>3. ServerStep(q) /\ (pc' = pc \/ pc' = "closed") /\ UNCHANGED read
    BY <2>1, <2>2, AttemptEffect DEF browserVars
  <2>4. /\ NoGapAtTarget' /\ \A k \in Nat : Got(k) => Got(k)'
        /\ dials' = 0 => dials = 0
        /\ session' = 1 => session = 1 \/ read = 0
    BY <1>a, <2>3
  <2>5. dials' = 0 => pc' \notin {"loop", "relay", "deliver"}
    BY <2>3, <2>4 DEF GapInv
  <2>6. pc' \in {"loop", "deliver"} => pc \in {"loop", "deliver"}
    BY <2>3
  <2>. QED
    BY <2>3, <2>4, <2>5, <2>6, GapKept
<1>5. CASE ReadChunk
  <2>1. /\ pc = "loop" /\ pc' = "relay" /\ read' = read + 1
        /\ UNCHANGED <<dials, session, targetGot>>
    BY <1>5 DEF ReadChunk, serverVars
  <2>2. NoGapAtTarget' /\ \A k \in Nat : Got(k) => Got(k)'
    BY <1>0, <2>1 DEF NoGapAtTarget, Got
  <2>3. ASSUME session' = 1, NEW k \in 1..read'
        PROVE  Got(k)' \/ k = read'
    <3>1. k \in 1..read \/ k = read'
      BY <1>0, <2>1
    <3>2. k \in 1..read => Got(k)
      BY <2>1, <2>3 DEF GapInv
    <3>. QED
      BY <2>2, <3>1, <3>2
  <2>4. dials' # 0
    BY <2>1 DEF GapInv
  <2>. QED
    BY <2>1, <2>2, <2>3, <2>4 DEF GapInv
<1>6. ASSUME NEW q \in Request, LateRequest(q)
      PROVE  GapInv'
  <2>1. q \in stray /\ ServerStep(q) /\ UNCHANGED <<pc, read>>
    BY <1>6 DEF LateRequest, ServerStep, proxyVars, browserVars
  <2>2. q \in 0..read
    BY <1>0, <2>1 DEF TypeInv, Request
  <2>3. /\ NoGapAtTarget' /\ \A k \in Nat : Got(k) => Got(k)'
        /\ dials' = 0 => dials = 0
        /\ session' = 1 => session = 1 \/ read = 0
    BY <1>a, <2>1, <2>2
  <2>4. dials' = 0 => pc' \notin {"loop", "relay", "deliver"}
    BY <2>1, <2>3 DEF GapInv
  <2>. QED
    BY <2>1, <2>3, <2>4, GapKept
<1>. QED
  BY <1>1, <1>2, <1>3, <1>4, <1>5, <1>6 DEF Next, Proxy, Environment

\* Hence the two hold throughout.
LEMMA GapInvariant == Spec => [](TypeInv /\ GapInv)
<1>1. Init => GapInv
  <2>. SUFFICES ASSUME Init PROVE GapInv
    OBVIOUS
  <2>1. targetGot[1] = <<>> /\ read = 0 /\ session = 0 /\ pc = "first"
    BY BoundsAssumption DEF Init, Dial
  <2>. QED
    BY <2>1 DEF GapInv, NoGapAtTarget
<1>. QED
  BY <1>1, TypeInit, TypeStep, GapStep, PTL DEF Spec

\* Whatever is repeated or late, the connection on which a stream began never gets
\* a chunk before it got every earlier one.
THEOREM NoGap == Spec => []NoGapAtTarget
<1>1. GapInv => NoGapAtTarget
  BY DEF GapInv
<1>. QED
  BY <1>1, GapInvariant, PTL

(***************************************************************************)
(* The bytes of a stream to which nothing has happened.                    *)
(***************************************************************************)
\* The bytes taken next follow those taken before.
LEMMA StreamExtends ==
  ASSUME NEW t \in Nat, NEW m \in Nat
  PROVE  Stream(t) \o [k \in 1..m |-> <<1, t + k>>] = Stream(t + m)
<1>. DEFINE next == [k \in 1..m |-> <<1, t + k>>]
            P == Nat \X Nat
<1>1. Stream(t) \in Seq(P) /\ Len(Stream(t)) = t /\ \A k \in 1..t : Stream(t)[k] = <<1, k>>
  BY DEF Stream
<1>2. next \in Seq(P) /\ Len(next) = m /\ \A k \in 1..m : next[k] = <<1, t + k>>
  OBVIOUS
<1>3. /\ Stream(t + m) \in Seq(P) /\ Len(Stream(t + m)) = t + m
      /\ \A k \in 1..(t + m) : Stream(t + m)[k] = <<1, k>>
  BY DEF Stream
<1>. HIDE DEF next, P
<1>4. /\ Stream(t) \o next \in Seq(P) /\ Len(Stream(t) \o next) = t + m
      /\ \A k \in 1..(t + m) :
           (Stream(t) \o next)[k] = IF k <= t THEN Stream(t)[k] ELSE next[k - t]
  <2>1. Stream(t) \in Seq(P) /\ next \in Seq(P)
    BY <1>1, <1>2
  <2>2. /\ Stream(t) \o next \in Seq(P)
        /\ Len(Stream(t) \o next) = Len(Stream(t)) + Len(next)
        /\ \A k \in 1..(Len(Stream(t)) + Len(next)) :
             (Stream(t) \o next)[k] =
               IF k <= Len(Stream(t)) THEN Stream(t)[k] ELSE next[k - Len(Stream(t))]
    BY ONLY <2>1, ConcatProperties
  <2>3. Len(Stream(t)) = t /\ Len(next) = m
    BY <1>1, <1>2
  <2>. QED
    BY <2>2, <2>3
<1>5. ASSUME NEW k \in 1..(t + m)
      PROVE  (Stream(t) \o next)[k] = <<1, k>>
  <2>1. CASE k <= t
    <3>1. (Stream(t) \o next)[k] = Stream(t)[k] /\ k \in 1..t
      BY <1>4, <2>1
    <3>. QED
      BY <1>1, <3>1
  <2>2. CASE ~(k <= t)
    <3>1. k - t \in 1..m /\ k = t + (k - t)
      BY <2>2
    <3>2. (Stream(t) \o next)[k] = next[k - t]
      BY <1>4, <2>2
    <3>3. next[k - t] = <<1, t + (k - t)>>
      BY <1>2, <3>1
    <3>. QED
      BY <3>1, <3>2, <3>3
  <2>. QED
    BY <2>1, <2>2
<1>6. Stream(t) \o next = Stream(t + m)
  BY <1>3, <1>4, <1>5, SeqEqual
<1>. QED
  BY <1>6 DEF next

\* The chunk after the last one extends a segment.
LEMMA SegmentExtends ==
  ASSUME NEW s \in Seq(Nat), IsSegment(s)
  PROVE  IsSegment(Append(s, Len(s) + 1)) /\ Len(Append(s, Len(s) + 1)) = Len(s) + 1
<1>. DEFINE t == Append(s, Len(s) + 1)
<1>1. /\ t \in Seq(Nat) /\ Len(t) = Len(s) + 1 /\ t[Len(s) + 1] = Len(s) + 1
      /\ \A k \in 1..Len(s) : t[k] = s[k]
  OBVIOUS
<1>. HIDE DEF t
<1>2. \A k \in 1..Len(s) : s[k] = k
  BY DEF IsSegment
<1>3. \A k \in 1..Len(t) : t[k] = k
  BY <1>1, <1>2
<1>4. t = [k \in 1..Len(t) |-> t[k]]
  BY <1>1
<1>5. IsSegment(t)
  BY <1>3, <1>4 DEF IsSegment
<1>. QED
  BY <1>1, <1>5 DEF t

\* What an answered RELAY does when nothing happens to the stream: the target gets
\* the next chunk and the browser will get the bytes it has not got yet.
LEMMA RelayIntact ==
  ASSUME TypeInv, StreamInv, RelayAnswered, spoiled' = {}
  PROVE  StreamInv'
<1>1. PICK answer :
        /\ Execute(read, answer)
        /\ reply' = answer
        /\ spoiled' = IF Page \in Range(answer.body)
                      THEN spoiled \cup {"error page"} ELSE spoiled
  BY DEF RelayAnswered
<1>2. pc = "relay"
  BY DEF RelayAnswered
<1>3. /\ pc' = "deliver" /\ UNCHANGED <<browserGot, read, stray>>
  BY DEF RelayAnswered, browserVars
<1>4. spoiled = {} /\ Page \notin Range(answer.body)
  BY <1>1
<1>5. /\ stray = {} /\ dials <= 1 /\ session = 1 /\ reply.body = <<>>
      /\ Len(targetGot[1]) + 1 = read /\ IsSegment(targetGot[1])
      /\ browserGot \o reply.body = Stream(taken[1])
  BY <1>2, <1>4 DEF StreamInv
<1>6. /\ 1 \in Dial /\ read \in Nat /\ read >= 1 /\ dials \in Nat /\ session \in 0..dials
      /\ targetGot \in [Dial -> Seq(1..read)] /\ targetGot[1] \in Seq(Nat)
      /\ taken \in [Dial -> Nat] /\ down[1] \in Nat
      /\ browserGot \in Seq(Item)
  BY <1>2, BoundsAssumption, SeqMonotonic DEF TypeInv, TypeOK, Dial
<1>7. Page \in Range(<<Page>>)
  <2>1. <<Page>>[1] = Page /\ 1 \in DOMAIN <<Page>>
    OBVIOUS
  <2>. QED
    BY <2>1 DEF Range
<1>8. PICK n \in taken[1]..down[1], eof \in BOOLEAN :
        /\ targetGot' = [targetGot EXCEPT ![1] = Append(@, read)]
        /\ taken' = [taken EXCEPT ![1] = n]
        /\ answer = [body |-> [k \in 1..(n - taken[1]) |-> <<1, taken[1] + k>>],
                     closed |-> eof]
        /\ session' = IF eof THEN 0 ELSE 1
        /\ UNCHANGED dials
  <2>1. answer # [body |-> <<Page>>, closed |-> FALSE]
    BY <1>4, <1>7
  <2>2. read # CONNECT /\ session # 0
    BY <1>5, <1>6 DEF CONNECT
  <2>3. PICK n \in taken[session]..down[session], eof \in BOOLEAN :
          /\ targetGot' = [targetGot EXCEPT ![session] = Append(@, read)]
          /\ taken' = [taken EXCEPT ![session] = n]
          /\ answer = [body |-> [k \in 1..(n - taken[session]) |->
                                   <<session, taken[session] + k>>],
                       closed |-> eof]
          /\ session' = IF eof THEN 0 ELSE session
          /\ UNCHANGED dials
    BY <1>1, <2>1, <2>2 DEF Execute
  <2>. QED
    BY <1>5, <2>3
<1>9. /\ targetGot'[1] = Append(targetGot[1], read) /\ taken'[1] = n
      /\ n - taken[1] \in Nat /\ taken[1] \in Nat /\ n = taken[1] + (n - taken[1])
  BY <1>6, <1>8
<1>10. IsSegment(targetGot'[1]) /\ Len(targetGot'[1]) = read
  BY <1>5, <1>6, <1>9, SegmentExtends
<1>11. browserGot = Stream(taken[1])
  BY <1>5, <1>6
<1>12. browserGot' \o reply'.body = Stream(taken'[1])
  <2>1. reply'.body = [k \in 1..(n - taken[1]) |-> <<1, taken[1] + k>>]
    BY <1>1, <1>8
  <2>2. Stream(taken[1]) \o [k \in 1..(n - taken[1]) |-> <<1, taken[1] + k>>]
          = Stream(taken[1] + (n - taken[1]))
    BY <1>9, StreamExtends
  <2>. QED
    BY <1>3, <1>9, <1>11, <2>1, <2>2
<1>13. session' = 1 \/ reply'.closed
  BY <1>1, <1>8
<1>14. stray' = {} /\ dials' <= 1 /\ dials' # 0
  BY <1>3, <1>5, <1>6, <1>8
<1>15. (IsSegment(targetGot[1]) /\ browserGot \o reply.body = Stream(taken[1]))'
  BY <1>10, <1>12 DEF IsSegment, Stream
<1>. QED
  BY <1>3, <1>10, <1>13, <1>14, <1>15 DEF StreamInv

\* Every step keeps StreamInv.
LEMMA StreamStep == TypeInv /\ GapInv /\ StreamInv /\ [Next]_vars => StreamInv'
<1>. SUFFICES ASSUME TypeInv, GapInv, StreamInv, [Next]_vars, spoiled' = {}
              PROVE  StreamInv'
  BY DEF StreamInv
<1>1. CASE RelayAnswered
  BY <1>1, RelayIntact
<1>2. CASE ConnectFails \/ RelayFails \/ DeliverPart
  BY <1>2 DEF ConnectFails, RelayFails, AttemptFails, DeliverPart
<1>. SUFFICES ASSUME ~RelayAnswered, ~(ConnectFails \/ RelayFails \/ DeliverPart)
              PROVE  StreamInv'
  BY <1>1, <1>2
<1>3. CASE \/ FirstHttp \/ FirstConnect \/ FirstMalformed \/ AnswerHttp \/ ReadEof
           \/ DeliverFails \/ BrowserWrites \/ BrowserCloses
           \/ \E d \in Dial : TargetWrites(d) \/ TargetCloses(d)
           \/ UNCHANGED vars
  <2>1. /\ UNCHANGED <<reply, read, browserGot, dials, session, targetGot, taken,
                       stray, spoiled>>
        /\ \/ pc' = pc \/ pc' = "closed"
           \/ pc = "first" /\ pc' \in {"http", "connect"}
    BY <1>3 DEF FirstHttp, FirstConnect, FirstMalformed, AnswerHttp, ReadEof,
       DeliverFails, BrowserWrites, BrowserCloses, TargetWrites, TargetCloses,
       vars, proxyVars, browserVars, serverVars
  <2>. QED
    BY <2>1 DEF StreamInv, IsSegment, Stream
<1>4. CASE ConnectAnswered
  <2>1. PICK answer \in Answer :
          /\ Execute(CONNECT, answer)
          /\ pc' = IF answer.body = <<>> THEN "loop" ELSE "closed"
    BY <1>4 DEF ConnectAnswered
  <2>2. /\ pc = "connect" /\ UNCHANGED <<reply, read, browserGot, stray, spoiled>>
    BY <1>4 DEF ConnectAnswered, browserVars
  <2>3. /\ stray = {} /\ dials = 0 /\ reply.body = <<>> /\ targetGot[1] = <<>>
        /\ IsSegment(targetGot[1]) /\ browserGot \o reply.body = Stream(taken[1])
        /\ read = 0 /\ taken[1] = 0 /\ browserGot = <<>>
    BY <2>2 DEF StreamInv, TypeInv
  <2>4. /\ UNCHANGED <<targetGot, taken>>
        /\ \/ dials' = 1 /\ session' = 1
           \/ pc' = "closed" /\ dials' = 0
        /\ pc' \in {"loop", "closed"}
    BY <2>1, <2>3 DEF Execute, NoReply, serverVars
  <2>. QED
    BY <2>2, <2>3, <2>4 DEF StreamInv, IsSegment, Stream
<1>5. CASE ReadChunk
  <2>1. /\ pc = "loop" /\ pc' = "relay" /\ read' = read + 1
        /\ UNCHANGED <<reply, browserGot, dials, session, targetGot, taken, stray, spoiled>>
    BY <1>5 DEF ReadChunk, serverVars
  <2>2. Len(targetGot[1]) = read
    BY <2>1 DEF StreamInv
  <2>. QED
    BY <2>1, <2>2 DEF StreamInv, IsSegment, Stream
<1>6. CASE DeliverAll
  <2>1. /\ pc = "deliver" /\ browserGot' = browserGot \o reply.body /\ reply' = NoReply
        /\ pc' = IF reply.closed THEN "closed" ELSE "loop"
        /\ UNCHANGED <<read, dials, session, targetGot, taken, stray, spoiled>>
    BY <1>6 DEF DeliverAll, serverVars
  <2>2. browserGot' \in Seq(Item) /\ reply'.body = <<>>
    BY <2>1 DEF TypeInv, TypeOK, NoReply
  <2>3. browserGot' \o reply'.body = browserGot \o reply.body
    BY <2>1, <2>2
  <2>4. /\ browserGot \o reply.body = Stream(taken[1]) /\ dials <= 1 /\ stray = {}
        /\ session = 1 \/ reply.closed
        /\ Len(targetGot[1]) = read /\ IsSegment(targetGot[1])
        /\ dials # 0
    BY <2>1 DEF StreamInv, GapInv
  <2>5. (IsSegment(targetGot[1]) /\ browserGot \o reply.body = Stream(taken[1]))'
    BY <2>1, <2>3, <2>4 DEF IsSegment, Stream
  <2>. QED
    BY <2>1, <2>2, <2>4, <2>5 DEF StreamInv
<1>7. ASSUME NEW q \in Request, LateRequest(q)
      PROVE  StreamInv'
  <2>1. spoiled = {} /\ q \in stray
    BY <1>7 DEF LateRequest
  <2>. QED
    BY <2>1 DEF StreamInv
<1>. QED
  BY <1>3, <1>4, <1>5, <1>6, <1>7 DEF Next, Proxy, Environment

\* For any bounds, a stream to which nothing has happened loses, repeats and
\* reorders no byte in either direction.
THEOREM Intact == Spec => []StreamIntact
<1>1. Init => StreamInv
  <2>. SUFFICES ASSUME Init PROVE StreamInv
    OBVIOUS
  <2>1. /\ targetGot[1] = <<>> /\ taken[1] = 0 /\ dials = 0 /\ pc = "first"
        /\ stray = {} /\ browserGot = <<>> /\ reply.body = <<>>
    BY BoundsAssumption DEF Init, Dial, NoReply
  <2>2. IsSegment(targetGot[1])
    BY <2>1 DEF IsSegment
  <2>3. browserGot \o reply.body = Stream(taken[1])
    BY <2>1 DEF Stream
  <2>. QED
    BY <2>1, <2>2, <2>3 DEF StreamInv
<1>2. StreamInv => StreamIntact
  BY DEF StreamInv, StreamIntact, Stream
<1>. QED
  BY <1>1, <1>2, GapInvariant, StreamStep, PTL DEF Spec
=============================================================================
