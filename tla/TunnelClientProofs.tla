-------------------------- MODULE TunnelClientProofs --------------------------
(***************************************************************************)
(* Theorems about TunnelClient, for any number of threads and of retries.  *)
(* The lock makes the thread inside _do_request the only user of the       *)
(* connection; that gives lockstep as long as no recv was abandoned, and   *)
(* lockstep gives the right response.                                      *)
(***************************************************************************)
EXTENDS TunnelClient, FiniteSetTheorems, SequenceTheorems, TLAPS

\* The labels inside the two `with self._lock` blocks.
Inside == {"dial", "send", "recv", "redial"}

LockInv == \A t \in Thread : pc[t] \in Inside <=> lock = t

\* An exception handler that backs off has an attempt left.
AttemptInv == \A t \in Thread : pc[t] = "backoff" => attempt[t] < MaxRetries

\* A connection the server closed has no unread requests, and only an
\* abandoned recv leaves half a frame behind.
WireInv == /\ hungUp => up = <<>>
           /\ ~poisoned => ~downCut

Inv == TypeOK /\ LockInv /\ AttemptInv /\ WireInv /\ LockStep /\ PoisonIsTransient

LEMMA Singleton ==
  ASSUME NEW S, NEW a \in S
  PROVE  /\ <<a>> # <<>> /\ Head(<<a>>) = a /\ Tail(<<a>>) = <<>>
         /\ Append(<<>>, a) = <<a>> /\ <<a>> \in Seq(S) /\ <<>> \in Seq(S)
  OBVIOUS

LEMMA FlagsStep == FlagsOK /\ [Next]_vars => FlagsOK'
<1>. SUFFICES ASSUME FlagsOK, [Next]_vars PROVE FlagsOK'
  OBVIOUS
<1>1. ASSUME NEW t \in Thread,
             \/ Call(t) \/ Acquire(t) \/ DialFails(t) \/ SendOk(t)
             \/ RecvResponse(t) \/ RecvError(t) \/ RecvBroken(t)
             \/ RedialFails(t) \/ Backoff(t)
      PROVE  FlagsOK'
  BY <1>1 DEF FlagsOK, Call, Acquire, DialFails, SendOk, RecvResponse, RecvError,
     RecvBroken, RedialFails, Backoff, wireVars
<1>2. ASSUME NEW t \in Thread, DialOk(t) \/ RedialOk(t) \/ Reacquire(t)
      PROVE  FlagsOK'
  BY <1>2 DEF FlagsOK, DialOk, RedialOk, Reacquire, CloseSocket, Open, EmptyWire
<1>3. ASSUME NEW t \in Thread, SendFails(t) \/ RecvTimeout(t)
      PROVE  FlagsOK'
  BY <1>3 DEF FlagsOK, SendFails, RecvTimeout
<1>4. CASE Close
  BY <1>4 DEF FlagsOK, Close, CloseSocket, EmptyWire
<1>5. CASE Server
  BY <1>5 DEF FlagsOK, Server, ServerAnswers, ServerRefuses, ServerChokes,
     ServerHangsUp, ServerReads, StrayRequests, wireVars
<1>6. CASE UNCHANGED vars
  BY <1>6 DEF FlagsOK, vars, wireVars
<1>. QED
  BY <1>1, <1>2, <1>3, <1>4, <1>5, <1>6 DEF Next, Request, Receive, Recover

LEMMA InitInv == Init => Inv
<1>. SUFFICES ASSUME Init PROVE Inv
  OBVIOUS
<1>1. TypeOK
  <2>1. FlagsOK
    BY DEF Init, FlagsOK
  <2>2. 0 \in 0..MaxRetries
    BY RetriesAssumption
  <2>. QED
    BY <2>1, <2>2 DEF Init, TypeOK, Label
<1>2. LockInv /\ AttemptInv
  BY NamesAssumption DEF Init, LockInv, AttemptInv, Inside
<1>3. WireInv /\ LockStep /\ PoisonIsTransient
  BY DEF Init, WireInv, LockStep, PoisonIsTransient
<1>. QED
  BY <1>1, <1>2, <1>3 DEF Inv

LEMMA TypeStep == TypeOK /\ AttemptInv /\ [Next]_vars => TypeOK'
<1>. SUFFICES ASSUME TypeOK, AttemptInv, [Next]_vars
              PROVE  TypeOK'
  OBVIOUS
<1>. FlagsOK'
  BY FlagsStep DEF TypeOK
<1>. USE RetriesAssumption
<1>. <<>> \in Seq(Thread) /\ <<>> \in Seq(Thread \cup {ErrorFrame})
  BY EmptySeq
<1>1. ASSUME NEW t \in Thread, Call(t) \/ Acquire(t) \/ Backoff(t)
      PROVE  TypeOK'
  <2>1. \E to \in Label : pc' = [pc EXCEPT ![t] = to]
    BY <1>1 DEF Call, Acquire, Backoff, Goto, Label
  <2>2. attempt' \in [Thread -> 0..MaxRetries]
    <3>1. 1 \in 0..MaxRetries
      OBVIOUS
    <3>2. pc[t] = "backoff" => attempt[t] + 1 \in 0..MaxRetries
      BY DEF AttemptInv, TypeOK
    <3>. QED
      BY <1>1, <3>1, <3>2 DEF Call, Acquire, Backoff, TypeOK
  <2>3. lock' \in Thread \cup {NoThread}
    BY <1>1 DEF Call, Acquire, Backoff, TypeOK
  <2>4. UNCHANGED <<result, up, down, stray, execs>>
    BY <1>1 DEF Call, Acquire, Backoff, wireVars
  <2>. QED
    BY <2>1, <2>2, <2>3, <2>4 DEF TypeOK
<1>2. ASSUME NEW t \in Thread, DialOk(t) \/ DialFails(t)
      PROVE  TypeOK'
  <2>1. \E to \in Label : pc' = [pc EXCEPT ![t] = to]
    BY <1>2 DEF DialOk, DialFails, Fail, Goto, Label
  <2>2. up' \in Seq(Thread) /\ down' \in Seq(Thread \cup {ErrorFrame})
    BY <1>2 DEF DialOk, DialFails, Open, EmptyWire, wireVars, TypeOK
  <2>3. lock' \in Thread \cup {NoThread} /\ UNCHANGED <<attempt, result, stray, execs>>
    BY <1>2 DEF DialOk, DialFails, Fail, Unlock, TypeOK
  <2>. QED
    BY <2>1, <2>2, <2>3 DEF TypeOK
<1>3. ASSUME NEW t \in Thread, SendOk(t) \/ SendFails(t)
      PROVE  TypeOK'
  <2>1. Append(up, t) \in Seq(Thread)
    BY AppendProperties DEF TypeOK
  <2>2. up' = up \/ up' = Append(up, t)
    BY <1>3 DEF SendOk, SendFails
  <2>. QED
    BY <1>3, <2>1, <2>2 DEF SendOk, SendFails, Fail, Unlock, Goto, TypeOK, Label
<1>4. ASSUME NEW t \in Thread, Receive(t)
      PROVE  TypeOK'
  <2>1. down # <<>> => /\ Tail(down) \in Seq(Thread \cup {ErrorFrame})
                       /\ Head(down) \in Thread \cup {ErrorFrame}
    BY DEF TypeOK
  <2>2. down' \in Seq(Thread \cup {ErrorFrame})
    BY <1>4, <2>1 DEF Receive, RecvResponse, RecvError, RecvBroken, RecvTimeout,
       wireVars, TypeOK
  <2>3. result' \in [Thread -> Thread \cup {NoThread}]
    BY <1>4, <2>1 DEF Receive, RecvResponse, RecvError, RecvBroken, RecvTimeout,
       Fail, TypeOK
  <2>. QED
    BY <1>4, <2>2, <2>3 DEF Receive, RecvResponse, RecvError, RecvBroken,
       RecvTimeout, Fail, Unlock, Goto, wireVars, TypeOK, Label
<1>5. stray' = [r \in Thread |-> stray[r] + Cardinality(Occurs(r))]
        => stray' \in [Thread -> Nat]
  <2>1. \A r : Occurs(r) \subseteq 1..Len(up) /\ Len(up) \in Nat
    BY DEF Occurs, TypeOK
  <2>2. \A r : IsFiniteSet(Occurs(r))
    <3>1. IsFiniteSet(1..Len(up))
      BY FS_Interval, <2>1
    <3>. QED
      BY <2>1, <3>1, FS_Subset
  <2>3. \A r : Cardinality(Occurs(r)) \in Nat
    BY <2>2, FS_CardinalityType
  <2>. QED
    BY <2>3 DEF TypeOK
<1>6. ASSUME NEW t \in Thread, Reacquire(t)
      PROVE  TypeOK'
  BY <1>5, <1>6 DEF Reacquire, CloseSocket, EmptyWire, Goto, TypeOK, Label
<1>7. ASSUME NEW t \in Thread, RedialOk(t) \/ RedialFails(t)
      PROVE  TypeOK'
  <2>1. AfterAttempt(t) \in Label
    BY DEF AfterAttempt, Label
  <2>2. up' \in Seq(Thread) /\ down' \in Seq(Thread \cup {ErrorFrame})
    BY <1>7 DEF RedialOk, RedialFails, Open, EmptyWire, wireVars, TypeOK
  <2>. QED
    BY <1>7, <2>1, <2>2 DEF RedialOk, RedialFails, Unlock, Goto, TypeOK
<1>8. CASE Close
  BY <1>5, <1>8 DEF Close, CloseSocket, EmptyWire, TypeOK
<1>9. CASE ServerAnswers \/ ServerRefuses \/ ServerChokes \/ ServerHangsUp
  <2>1. /\ up # <<>> => Tail(up) \in Seq(Thread) /\ Head(up) \in Thread
        /\ ServerAnswers \/ ServerRefuses \/ ServerChokes => up # <<>>
    BY DEF TypeOK, ServerAnswers, ServerRefuses, ServerChokes, ServerReads
  <2>2. up' \in Seq(Thread)
    BY <1>9, <2>1 DEF ServerAnswers, ServerRefuses, ServerChokes, ServerHangsUp
  <2>3. down' \in Seq(Thread \cup {ErrorFrame})
    <3>1. /\ Append(down, ErrorFrame) \in Seq(Thread \cup {ErrorFrame})
          /\ up # <<>> => Append(down, Head(up)) \in Seq(Thread \cup {ErrorFrame})
      BY <2>1, AppendProperties DEF TypeOK
    <3>2. \/ down' = down \/ down' = Append(down, ErrorFrame)
          \/ up # <<>> /\ down' = Append(down, Head(up))
      BY <1>9, <2>1 DEF ServerAnswers, ServerRefuses, ServerChokes, ServerHangsUp
    <3>. QED
      BY <3>1, <3>2 DEF TypeOK
  <2>4. execs' \in [Thread -> Nat]
    <3>1. \/ execs' = execs
          \/ up # <<>> /\ execs' = [execs EXCEPT ![Head(up)] = @ + 1]
      BY <1>9, <2>1 DEF ServerAnswers, ServerRefuses, ServerChokes, ServerHangsUp
    <3>2. execs \in [Thread -> Nat]
      BY DEF TypeOK
    <3>3. CASE execs' = execs
      BY <3>2, <3>3
    <3>4. CASE up # <<>> /\ execs' = [execs EXCEPT ![Head(up)] = @ + 1]
      <4>1. execs[Head(up)] + 1 \in Nat
        BY <2>1, <3>2, <3>4
      <4>. QED
        BY <2>1, <3>2, <3>4, <4>1
    <3>. QED
      BY <3>1, <3>3, <3>4
  <2>5. UNCHANGED <<pc, attempt, result, lock, stray>>
    BY <1>9 DEF ServerAnswers, ServerRefuses, ServerChokes, ServerHangsUp,
       ServerReads
  <2>. QED
    BY <2>2, <2>3, <2>4, <2>5 DEF TypeOK
<1>10. CASE StrayRequests
  <2>1. PICK ended \in SUBSET {r \in Thread : stray[r] > 0} :
          /\ stray' = [r \in Thread |-> IF r \in ended THEN stray[r] - 1 ELSE stray[r]]
          /\ \/ UNCHANGED execs
             \/ \E r \in ended : execs' = [execs EXCEPT ![r] = @ + 1]
          /\ UNCHANGED <<pc, attempt, result, lock, wireVars>>
    BY <1>10 DEF StrayRequests
  <2>2. stray' \in [Thread -> Nat] /\ execs' \in [Thread -> Nat]
    BY <2>1 DEF TypeOK
  <2>. QED
    BY <2>1, <2>2 DEF TypeOK, wireVars
<1>11. CASE UNCHANGED vars
  BY <1>11 DEF vars, wireVars, TypeOK
<1>. QED
  BY <1>1, <1>2, <1>3, <1>4, <1>6, <1>7, <1>8, <1>9, <1>10, <1>11
     DEF Next, Request, Recover, Server

\* The lock: a thread is inside a with block exactly while it holds the lock.
LEMMA LockInvStep == Inv /\ [Next]_vars => LockInv' /\ AttemptInv'
<1>. SUFFICES ASSUME Inv, [Next]_vars
              PROVE  LockInv' /\ AttemptInv'
  OBVIOUS
<1>. USE DEF Inv
<1>1. /\ pc \in [Thread -> Label] /\ attempt \in [Thread -> 0..MaxRetries]
      /\ NoThread \notin Thread /\ MaxRetries \in Nat
  BY NamesAssumption, RetriesAssumption DEF TypeOK
<1>2. ASSUME NEW t \in Thread, Call(t) \/ Backoff(t)
      PROVE  LockInv' /\ AttemptInv'
  BY <1>1, <1>2 DEF Call, Backoff, Goto, LockInv, AttemptInv, Inside
<1>3. ASSUME NEW t \in Thread, Acquire(t) \/ Reacquire(t)
      PROVE  LockInv' /\ AttemptInv'
  <2>1. /\ lock = NoThread /\ lock' = t /\ attempt' = attempt
        /\ \E to \in Inside : pc' = [pc EXCEPT ![t] = to]
    BY <1>3 DEF Acquire, Reacquire, Goto, Inside
  <2>. QED
    BY <1>1, <2>1 DEF LockInv, AttemptInv, Inside
<1>4. ASSUME NEW t \in Thread, DialOk(t) \/ SendOk(t)
      PROVE  LockInv' /\ AttemptInv'
  BY <1>1, <1>4 DEF DialOk, SendOk, Goto, LockInv, AttemptInv, Inside
<1>5. ASSUME NEW t \in Thread,
             \/ DialFails(t) \/ SendFails(t) \/ Receive(t)
             \/ RedialOk(t) \/ RedialFails(t)
      PROVE  LockInv' /\ AttemptInv'
  <2>1. /\ pc[t] \in Inside /\ lock' = NoThread /\ attempt' = attempt
        /\ \/ pc' = [pc EXCEPT ![t] = AfterAttempt(t)]
           \/ \E to \in {"failed", "done"} : pc' = [pc EXCEPT ![t] = to]
    BY <1>5 DEF DialFails, SendFails, Receive, RecvResponse, RecvError, RecvBroken,
       RecvTimeout, RedialOk, RedialFails, Fail, Unlock, Goto, Inside
  <2>2. /\ AfterAttempt(t) \in {"backoff", "raised"}
        /\ AfterAttempt(t) = "backoff" => attempt[t] < MaxRetries
    BY DEF AfterAttempt
  <2>3. lock = t
    BY <2>1 DEF LockInv
  <2>. QED
    BY <1>1, <2>1, <2>2, <2>3 DEF LockInv, AttemptInv, Inside
<1>6. CASE Close \/ Server \/ UNCHANGED vars
  BY <1>6 DEF Close, Server, ServerAnswers, ServerRefuses, ServerChokes,
     ServerHangsUp, ServerReads, StrayRequests, vars, LockInv, AttemptInv
<1>. QED
  BY <1>2, <1>3, <1>4, <1>5, <1>6 DEF Next, Request, Recover

\* The one thread inside recv, if any, is the holder of the lock.
LEMMA OneReceiver ==
  ASSUME Inv, NEW t \in Thread, pc[t] \in Inside
  PROVE  \A u \in Thread : pc[u] \in Inside => u = t
BY DEF Inv, LockInv

\* An abandoned connection lasts until its thread comes to reconnect.
LEMMA PoisonStep == Inv /\ [Next]_vars => PoisonIsTransient'
<1>. SUFFICES ASSUME Inv, [Next]_vars, poisoned'
              PROVE  \E u \in Thread : pc'[u] = "failed"
  BY DEF PoisonIsTransient
<1>0. pc \in [Thread -> Label]
  BY DEF Inv, TypeOK
<1>1. ASSUME NEW t \in Thread, RecvTimeout(t)
      PROVE  \E u \in Thread : pc'[u] = "failed"
  BY <1>0, <1>1 DEF RecvTimeout, Fail, Goto
<1>2. CASE poisoned /\ \A u \in Thread : pc[u] = "failed" => pc'[u] = "failed"
  BY <1>2 DEF Inv, PoisonIsTransient
<1>3. ASSUME NEW t \in Thread,
             \/ Call(t) \/ Acquire(t) \/ DialFails(t) \/ SendOk(t) \/ SendFails(t)
             \/ RecvResponse(t) \/ RecvError(t) \/ RecvBroken(t)
             \/ RedialFails(t) \/ Backoff(t)
      PROVE  \E u \in Thread : pc'[u] = "failed"
  <2>1. poisoned' = poisoned /\ pc[t] # "failed" /\ \E to : pc' = [pc EXCEPT ![t] = to]
    BY <1>3 DEF Call, Acquire, DialFails, SendOk, SendFails, RecvResponse,
       RecvError, RecvBroken, RedialFails, Backoff, Fail, Goto, wireVars
  <2>. QED
    BY <1>0, <1>2, <2>1
<1>4. ASSUME NEW t \in Thread, DialOk(t) \/ RedialOk(t) \/ Reacquire(t)
      PROVE  FALSE
  BY <1>4 DEF DialOk, RedialOk, Reacquire, Open, CloseSocket
<1>5. CASE Close \/ Server \/ UNCHANGED vars
  <2>1. CASE Close
    BY <2>1 DEF Close, CloseSocket
  <2>2. CASE Server \/ UNCHANGED vars
    BY <1>2, <2>2 DEF Server, ServerAnswers, ServerRefuses, ServerChokes,
       ServerHangsUp, ServerReads, StrayRequests, vars, wireVars
  <2>. QED
    BY <1>5, <2>1, <2>2
<1>. QED
  BY <1>1, <1>3, <1>4, <1>5 DEF Next, Request, Receive, Recover

\* What a server that has hung up leaves, and when half a frame can be left.
LEMMA WireStep == Inv /\ [Next]_vars => WireInv'
<1>. SUFFICES ASSUME Inv, [Next]_vars
              PROVE  WireInv'
  OBVIOUS
<1>. USE DEF WireInv
<1>0. WireInv
  BY DEF Inv
<1>1. ASSUME NEW t \in Thread,
             \/ Call(t) \/ Acquire(t) \/ DialFails(t) \/ RecvResponse(t)
             \/ RecvError(t) \/ RecvBroken(t) \/ RedialFails(t) \/ Backoff(t)
             \/ SendFails(t)
      PROVE  WireInv'
  <2>1. UNCHANGED <<up, hungUp, poisoned, downCut>>
    BY <1>1 DEF Call, Acquire, DialFails, RecvResponse, RecvError, RecvBroken,
       RedialFails, Backoff, SendFails, wireVars
  <2>. QED
    BY <1>0, <2>1
<1>2. ASSUME NEW t \in Thread, DialOk(t) \/ RedialOk(t) \/ Reacquire(t)
      PROVE  WireInv'
  BY <1>2 DEF DialOk, RedialOk, Reacquire, CloseSocket, Open, EmptyWire
<1>3. ASSUME NEW t \in Thread, SendOk(t)
      PROVE  WireInv'
  BY <1>0, <1>3 DEF SendOk
<1>4. ASSUME NEW t \in Thread, RecvTimeout(t)
      PROVE  WireInv'
  BY <1>4 DEF RecvTimeout
<1>5. CASE Close
  BY <1>5 DEF Close, CloseSocket, EmptyWire
<1>6. CASE ServerAnswers \/ ServerRefuses
  <2>1. up # <<>> /\ UNCHANGED <<hungUp, poisoned, downCut>>
    BY <1>6 DEF ServerAnswers, ServerRefuses, ServerReads
  <2>2. ~hungUp
    BY <1>0, <2>1
  <2>3. ~hungUp'
    BY <2>1, <2>2
  <2>4. ~poisoned' => ~downCut'
    BY <1>0, <2>1
  <2>. QED
    BY <2>3, <2>4
<1>7. CASE ServerChokes \/ ServerHangsUp \/ StrayRequests
  BY <1>0, <1>7 DEF ServerChokes, ServerHangsUp, ServerReads, StrayRequests, wireVars
<1>8. CASE UNCHANGED vars
  BY <1>0, <1>8 DEF vars, wireVars
<1>. QED
  BY <1>1, <1>2, <1>3, <1>4, <1>5, <1>6, <1>7, <1>8
     DEF Next, Request, Receive, Recover, Server

\* Lockstep, action by action; the lock decides who can be inside recv.
LEMMA LockStepStep == Inv /\ [Next]_vars => LockStep'
<1>. SUFFICES ASSUME Inv, [Next]_vars, ~poisoned'
              PROVE  LockStep'
  BY DEF LockStep
<1>0. /\ pc \in [Thread -> Label]
      /\ up \in Seq(Thread) /\ down \in Seq(Thread \cup {ErrorFrame})
      /\ ErrorFrame \notin Thread
  BY NamesAssumption DEF Inv, TypeOK
<1>. DEFINE Clear == up = <<>> /\ down = <<>>
            Waiting(t) == \/ up = <<>> /\ down = <<>>
                          \/ up = <<t>> /\ down = <<>>
                          \/ up = <<>> /\ down \in {<<t>>, <<ErrorFrame>>}
<1>a. ASSUME UNCHANGED <<up, down, poisoned>>,
             \A u \in Thread : pc'[u] = "recv" <=> pc[u] = "recv"
      PROVE  LockStep'
  BY <1>a DEF Inv, LockStep
<1>b. ASSUME up' = <<>>, down' = <<>>
      PROVE  LockStep'
  BY <1>b DEF LockStep
<1>1. ASSUME NEW t \in Thread,
             \/ Call(t) \/ Acquire(t) \/ DialFails(t) \/ SendFails(t)
             \/ RedialFails(t) \/ Backoff(t)
      PROVE  LockStep'
  <2>1. /\ UNCHANGED <<up, down, poisoned>>
        /\ pc[t] # "recv"
        /\ \/ pc' = [pc EXCEPT ![t] = AfterAttempt(t)]
           \/ \E to \in Label \ {"recv"} : pc' = [pc EXCEPT ![t] = to]
    BY <1>1 DEF Call, Acquire, DialFails, SendFails, RedialFails, Backoff, Fail,
       Goto, wireVars, Label
  <2>2. AfterAttempt(t) # "recv"
    BY DEF AfterAttempt
  <2>. QED
    BY <1>0, <1>a, <2>1, <2>2
<1>2. ASSUME NEW t \in Thread, DialOk(t) \/ RedialOk(t) \/ Reacquire(t)
      PROVE  LockStep'
  BY <1>b, <1>2 DEF DialOk, RedialOk, Reacquire, CloseSocket, Open, EmptyWire
<1>3. ASSUME NEW t \in Thread, SendOk(t)
      PROVE  LockStep'
  <2>1. /\ pc[t] = "send" /\ pc' = [pc EXCEPT ![t] = "recv"]
        /\ ~poisoned /\ down' = down
        /\ up' = up \/ up' = Append(up, t)
    BY <1>3 DEF SendOk, Goto
  <2>2. \A u \in Thread : pc[u] # "recv"
    BY <2>1, OneReceiver DEF Inside
  <2>3. Clear
    BY <2>1, <2>2 DEF Inv, LockStep
  <2>4. down' = <<>> /\ (up' = <<>> \/ up' = <<t>>)
    BY <2>1, <2>3, Singleton
  <2>5. \A u \in Thread : pc'[u] = "recv" <=> u = t
    BY <1>0, <2>1, <2>2
  <2>. QED
    BY <2>4, <2>5 DEF LockStep
<1>4. ASSUME NEW t \in Thread, Receive(t)
      PROVE  LockStep'
  <2>1. /\ pc[t] = "recv" /\ ~poisoned /\ up' = up
        /\ \E to \in {"done", "failed"} : pc' = [pc EXCEPT ![t] = to]
    BY <1>4 DEF Receive, RecvResponse, RecvError, RecvBroken, RecvTimeout,
       Fail, Goto, wireVars
  <2>2. Waiting(t) /\ ~downCut /\ (hungUp => up = <<>>)
    BY <2>1 DEF Inv, LockStep, WireInv
  <2>3. CASE RecvResponse(t) \/ RecvError(t)
    <3>1. down # <<>> /\ down' = Tail(down)
      BY <2>3 DEF RecvResponse, RecvError
    <3>2. up = <<>> /\ down \in {<<t>>, <<ErrorFrame>>}
      BY <2>2, <3>1
    <3>3. down' = <<>>
      BY <3>1, <3>2, Singleton
    <3>. QED
      BY <1>b, <2>1, <3>2, <3>3
  <2>4. CASE RecvBroken(t)
    <3>1. hungUp /\ down' = <<>>
      BY <2>2, <2>4 DEF RecvBroken
    <3>. QED
      BY <1>b, <2>1, <2>2, <3>1
  <2>5. ~RecvTimeout(t)
    BY DEF RecvTimeout
  <2>. QED
    BY <1>4, <2>3, <2>4, <2>5 DEF Receive
<1>5. CASE Close
  BY <1>b, <1>5 DEF Close, CloseSocket, EmptyWire
<1>6. CASE ServerAnswers \/ ServerRefuses \/ ServerChokes
  <2>1. up # <<>> /\ ~poisoned /\ pc' = pc /\ poisoned' = poisoned
    BY <1>6 DEF ServerAnswers, ServerRefuses, ServerChokes, ServerReads
  <2>2. PICK t \in Thread : pc[t] = "recv"
    BY <2>1 DEF Inv, LockStep
  <2>3. up = <<t>> /\ down = <<>>
    BY <2>1, <2>2 DEF Inv, LockStep
  <2>4. \A u \in Thread : pc[u] = "recv" => u = t
    BY <2>2, OneReceiver DEF Inside
  <2>5. up' = <<>> /\ down' \in {<<>>, <<t>>, <<ErrorFrame>>}
    <3>1. Head(up) = t /\ Tail(up) = <<>> /\ Append(down, Head(up)) = <<t>>
          /\ Append(down, ErrorFrame) = <<ErrorFrame>>
      BY <2>3, Singleton
    <3>. QED
      BY <1>6, <2>3, <3>1 DEF ServerAnswers, ServerRefuses, ServerChokes
  <2>. QED
    BY <2>1, <2>2, <2>4, <2>5 DEF LockStep
<1>7. CASE ServerHangsUp
  <2>1. up' = <<>> /\ down' = down /\ pc' = pc /\ poisoned' = poisoned
    BY <1>7 DEF ServerHangsUp
  <2>. QED
    BY <2>1 DEF Inv, LockStep
<1>8. CASE UNCHANGED vars \/ StrayRequests
  BY <1>a, <1>8 DEF vars, StrayRequests, wireVars
<1>. QED
  BY <1>1, <1>2, <1>3, <1>4, <1>5, <1>6, <1>7, <1>8
     DEF Next, Request, Recover, Server

LEMMA InvStep == Inv /\ [Next]_vars => Inv'
BY TypeStep, LockInvStep, WireStep, LockStepStep, PoisonStep DEF Inv

LEMMA Invariant == Spec => []Inv
BY InitInv, InvStep, PTL DEF Spec

\* Every reachable state is well typed.
THEOREM TypeCorrect == Spec => []TypeOK
BY Invariant, PTL DEF Inv

\* Until a recv is abandoned the connection carries nothing but the request,
\* or the answer, of the one thread that waits.
THEOREM LockStepHolds == Spec => []LockStep
BY Invariant, PTL DEF Inv

\* A connection with an abandoned recv is always about to be replaced.
THEOREM PoisonEnds == Spec => []PoisonIsTransient
BY Invariant, PTL DEF Inv

LEMMA OnlyResponsesEndCalls ==
  ASSUME Next
  PROVE  \/ UNCHANGED pc
         \/ \E u \in Thread : RecvResponse(u)
         \/ \E u \in Thread : \E to : to # "done" /\ pc' = [pc EXCEPT ![u] = to]
<1>1. ASSUME NEW u \in Thread,
             \/ Call(u) \/ Acquire(u) \/ DialOk(u) \/ DialFails(u) \/ SendOk(u)
             \/ SendFails(u) \/ RecvError(u) \/ RecvBroken(u) \/ RecvTimeout(u)
             \/ Reacquire(u) \/ RedialOk(u) \/ RedialFails(u) \/ Backoff(u)
      PROVE  \E to : to # "done" /\ pc' = [pc EXCEPT ![u] = to]
  <2>1. AfterAttempt(u) # "done"
    BY DEF AfterAttempt
  <2>. QED
    BY <1>1, <2>1 DEF Call, Acquire, DialOk, DialFails, SendOk, SendFails,
       RecvError, RecvBroken, RecvTimeout, Reacquire, RedialOk, RedialFails,
       Backoff, Fail, Goto
<1>2. CASE Close \/ Server
  BY <1>2 DEF Close, Server, ServerAnswers, ServerRefuses, ServerChokes,
     ServerHangsUp, ServerReads, StrayRequests
<1>. QED
  BY <1>1, <1>2 DEF Next, Request, Receive, Recover

\* A thread that nobody's failed attempt overlaps gets its own response.
THEOREM MismatchOnlyInGap == Spec => MismatchNeedsGap
<1>. DEFINE Excused == \A t \in Thread :
              pc[t] = "recv" /\ pc'[t] = "done" /\ result'[t] # t
                => \E u \in Thread \ {t} : pc[u] = "failed"
<1>1. Inv /\ [Next]_vars => [Excused]_vars
  <2>. SUFFICES ASSUME Inv, Next, NEW t \in Thread,
                       pc[t] = "recv", pc'[t] = "done", result'[t] # t
                PROVE  \E u \in Thread \ {t} : pc[u] = "failed"
    OBVIOUS
  <2>1. RecvResponse(t)
    <3>0. pc \in [Thread -> Label]
      BY DEF Inv, TypeOK
    <3>1. CASE UNCHANGED pc
      BY <3>1
    <3>2. ASSUME NEW u \in Thread, NEW to, to # "done", pc' = [pc EXCEPT ![u] = to]
          PROVE  FALSE
      BY <3>0, <3>2
    <3>3. ASSUME NEW u \in Thread, RecvResponse(u)
          PROVE  u = t
      BY <3>0, <3>3 DEF RecvResponse, Goto
    <3>. QED
      BY <3>1, <3>2, <3>3, OnlyResponsesEndCalls
  <2>2. down # <<>> /\ Head(down) # ErrorFrame /\ Head(down) # t
    BY <2>1 DEF RecvResponse, Inv, TypeOK
  <2>3. poisoned
    <3>1. ASSUME ~poisoned
          PROVE  down = <<>> \/ down \in {<<t>>, <<ErrorFrame>>}
      BY <3>1 DEF Inv, LockStep
    <3>2. Head(<<t>>) = t /\ Head(<<ErrorFrame>>) = ErrorFrame
      BY Singleton
    <3>. QED
      BY <2>2, <3>1, <3>2
  <2>. QED
    BY <2>3 DEF Inv, PoisonIsTransient
<1>. QED
  BY <1>1, Invariant, PTL DEF Spec, MismatchNeedsGap

(***************************************************************************)
(* ExecutionsBounded: retries repeat a request no more often than it was   *)
(* attempted.  An attempt is spent when its request goes onto the          *)
(* connection, and what was spent is then in one place: on the connection, *)
(* left behind on a closed one, or carried out.  A thread closes the       *)
(* connection before it sends again, so its request is there at most once. *)
(***************************************************************************)
\* A request of r is on the connection.
On(r) == \E k \in 1..Len(up) : up[k] = r

\* Requests of r on the connection, and attempts of r that are still to be spent.
OnWire(r) == IF On(r) THEN 1 ELSE 0
Unspent(r) == IF pc[r] \in {"want", "dial", "send"} THEN 1 ELSE 0

\* A request on the connection is that of a thread that has sent it and not
\* sent again since, and is there once.
OnceInv ==
  /\ \A k \in 1..Len(up) : pc[up[k]] \in {"recv", "failed", "done"}
  /\ \A i, j \in 1..Len(up) : up[i] = up[j] => i = j

\* What r has spent and has still to spend is covered by its attempts.
Bounded(r) ==
  /\ execs[r] + stray[r] + OnWire(r) + Unspent(r) <= attempt[r]
  /\ pc[r] = "idle" => attempt[r] = 0

BoundInv == \A r \in Thread : Bounded(r)

\* The positions at which r stands on the connection are one or none.
LEMMA OccursOnce ==
  ASSUME OnceInv, NEW r
  PROVE  Cardinality(Occurs(r)) = OnWire(r)
<1>1. CASE On(r)
  <2>1. PICK k \in 1..Len(up) : up[k] = r
    BY <1>1 DEF On
  <2>2. Occurs(r) = {k}
    BY <2>1 DEF Occurs, OnceInv
  <2>3. Cardinality({k}) = 1
    BY FS_Singleton
  <2>. QED
    BY <1>1, <2>2, <2>3 DEF OnWire
<1>2. CASE ~On(r)
  <2>1. Occurs(r) = {}
    BY <1>2 DEF Occurs, On
  <2>. QED
    BY <1>2, <2>1, FS_EmptySet DEF OnWire
<1>. QED
  BY <1>1, <1>2

\* What a thread has spent and has still to spend does not outgrow its attempts.
LEMMA StillBounded ==
  ASSUME NEW r \in Thread, TypeOK, Bounded(r),
         execs'[r] \in Nat, stray'[r] \in Nat, attempt'[r] \in Nat,
         pc'[r] = "idle" => pc[r] = "idle" /\ attempt'[r] = attempt[r],
         execs'[r] + stray'[r] + OnWire(r)' + Unspent(r)' + attempt[r]
           <= execs[r] + stray[r] + OnWire(r) + Unspent(r) + attempt'[r]
  PROVE  Bounded(r)'
<1>1. /\ execs[r] \in Nat /\ stray[r] \in Nat /\ attempt[r] \in Nat
      /\ OnWire(r) \in Nat /\ OnWire(r)' \in Nat
      /\ Unspent(r) \in Nat /\ Unspent(r)' \in Nat
  BY RetriesAssumption DEF TypeOK, OnWire, Unspent
<1>2. /\ execs[r] + stray[r] + OnWire(r) + Unspent(r) <= attempt[r]
      /\ pc[r] = "idle" => attempt[r] = 0
  BY DEF Bounded
<1>3. execs'[r] + stray'[r] + OnWire(r)' + Unspent(r)' <= attempt'[r]
  BY <1>1, <1>2
<1>4. pc'[r] = "idle" => attempt'[r] = 0
  BY <1>2
<1>. QED
  BY <1>3, <1>4 DEF Bounded

\* The two counts are zero or one, before and after a step.
LEMMA ZeroOrOne ==
  ASSUME NEW r
  PROVE  /\ OnWire(r) \in 0..1 /\ OnWire(r)' \in 0..1
         /\ Unspent(r) \in 0..1 /\ Unspent(r)' \in 0..1
BY DEF OnWire, Unspent

\* Nothing is on a connection that has just been opened or closed.
LEMMA EmptyOnce ==
  ASSUME up' = <<>>
  PROVE  OnceInv' /\ \A r : OnWire(r)' = 0
BY DEF OnceInv, OnWire, On

(***************************************************************************)
(* A request is on the connection at most once.                            *)
(***************************************************************************)
LEMMA OnceStep == TypeOK /\ OnceInv /\ [Next]_vars => OnceInv'
<1>. SUFFICES ASSUME TypeOK, OnceInv, [Next]_vars
              PROVE  OnceInv'
  OBVIOUS
<1>0. /\ pc \in [Thread -> Label] /\ up \in Seq(Thread)
      /\ \A k \in 1..Len(up) : up[k] \in Thread
  BY DEF TypeOK
<1>a. ASSUME UNCHANGED up,
             \A u \in Thread : pc[u] \in {"recv", "failed", "done"}
                                 => pc'[u] \in {"recv", "failed", "done"}
      PROVE  OnceInv'
  BY <1>0, <1>a DEF OnceInv
<1>1. ASSUME NEW t \in Thread,
             \/ Call(t) \/ Acquire(t) \/ DialFails(t) \/ SendFails(t) \/ Receive(t)
             \/ RedialFails(t) \/ Backoff(t)
      PROVE  OnceInv'
  <2>1. /\ UNCHANGED up
        /\ \/ pc[t] \notin {"recv", "failed", "done"} /\ \E to : pc' = [pc EXCEPT ![t] = to]
           \/ \E to \in {"failed", "done"} : pc' = [pc EXCEPT ![t] = to]
    BY <1>1 DEF Call, Acquire, DialFails, SendFails, Receive, RecvResponse, RecvError,
       RecvBroken, RecvTimeout, RedialFails, Backoff, Fail, Goto, wireVars
  <2>. QED
    BY <1>0, <1>a, <2>1
<1>2. ASSUME NEW t \in Thread, DialOk(t) \/ RedialOk(t) \/ Reacquire(t)
      PROVE  OnceInv'
  <2>1. up' = <<>>
    BY <1>2 DEF DialOk, RedialOk, Reacquire, CloseSocket, Open, EmptyWire
  <2>. QED
    BY <2>1, EmptyOnce
<1>3. ASSUME NEW t \in Thread, SendOk(t)
      PROVE  OnceInv'
  <2>1. /\ pc[t] = "send" /\ pc' = [pc EXCEPT ![t] = "recv"]
        /\ up' = up \/ up' = Append(up, t)
    BY <1>3 DEF SendOk, Goto
  <2>2. CASE up' = up
    BY <1>0, <1>a, <2>1, <2>2
  <2>3. CASE up' = Append(up, t)
    <3>1. /\ Len(up) \in Nat /\ Len(up') = Len(up) + 1 /\ up'[Len(up) + 1] = t
          /\ \A k \in 1..Len(up) : up'[k] = up[k]
      BY <1>0, <2>3
    <3>2. \A k \in 1..Len(up) : up[k] # t
      BY <2>1 DEF OnceInv
    <3>3. \A u \in Thread : u # t => pc'[u] = pc[u]
      BY <1>0, <2>1
    <3>4. pc'[t] = "recv"
      BY <1>0, <2>1
    <3>5. \A k \in 1..Len(up') :
            \/ k \in 1..Len(up) /\ up'[k] = up[k]
            \/ k = Len(up) + 1 /\ up'[k] = t
      BY <3>1
    <3>6. \A k \in 1..Len(up) : pc'[up[k]] \in {"recv", "failed", "done"}
      BY <1>0, <3>2, <3>3 DEF OnceInv
    <3>7. \A k \in 1..Len(up') : pc'[up'[k]] \in {"recv", "failed", "done"}
      BY <3>4, <3>5, <3>6
    <3>8. \A i, j \in 1..Len(up') : up'[i] = up'[j] => i = j
      BY <3>2, <3>5 DEF OnceInv
    <3>. QED
      BY <3>7, <3>8 DEF OnceInv
  <2>. QED
    BY <2>1, <2>2, <2>3
<1>4. CASE ServerAnswers \/ ServerRefuses
  <2>1. up # <<>> /\ up' = Tail(up) /\ pc' = pc
    BY <1>4 DEF ServerAnswers, ServerRefuses, ServerReads
  <2>2. /\ Len(up) \in Nat /\ Len(up') = Len(up) - 1
        /\ \A k \in 1..Len(up') : k + 1 \in 1..Len(up) /\ up'[k] = up[k + 1]
    BY <1>0, <2>1
  <2>3. ASSUME NEW i \in 1..Len(up'), NEW j \in 1..Len(up'), up'[i] = up'[j]
        PROVE  i = j
    <3>1. i + 1 = j + 1
      BY <2>2, <2>3 DEF OnceInv
    <3>. QED
      BY <2>2, <3>1
  <2>. QED
    BY <2>1, <2>2, <2>3 DEF OnceInv
<1>5. CASE Close \/ ServerChokes \/ ServerHangsUp
  <2>1. up' = <<>>
    BY <1>5 DEF Close, CloseSocket, EmptyWire, ServerChokes, ServerHangsUp
  <2>. QED
    BY <2>1, EmptyOnce
<1>6. CASE UNCHANGED vars \/ StrayRequests
  BY <1>6, <1>a DEF vars, StrayRequests, wireVars
<1>. QED
  BY <1>1, <1>2, <1>3, <1>4, <1>5, <1>6 DEF Next, Request, Recover, Server

(***************************************************************************)
(* Every attempt is spent at most once.                                    *)
(***************************************************************************)
LEMMA BoundStep == TypeOK /\ OnceInv /\ BoundInv /\ [Next]_vars => BoundInv'
<1>. SUFFICES ASSUME TypeOK, OnceInv, BoundInv, [Next]_vars
              PROVE  BoundInv'
  OBVIOUS
<1>0. /\ pc \in [Thread -> Label] /\ attempt \in [Thread -> 0..MaxRetries]
      /\ execs \in [Thread -> Nat] /\ stray \in [Thread -> Nat]
      /\ up \in Seq(Thread) /\ MaxRetries \in Nat
  BY RetriesAssumption DEF TypeOK
<1>1. \A r \in Thread : /\ execs[r] \in Nat /\ stray[r] \in Nat /\ attempt[r] \in Nat
                        /\ Bounded(r)
  BY <1>0 DEF BoundInv
\* A step that spends nothing, or drops requests.
<1>a. ASSUME UNCHANGED <<execs, stray, attempt>>,
             \A r \in Thread : OnWire(r)' <= OnWire(r),
             \A r \in Thread : Unspent(r)' <= Unspent(r) /\ (pc'[r] = "idle" => pc[r] = "idle")
      PROVE  BoundInv'
  <2>1. ASSUME NEW r \in Thread
        PROVE  Bounded(r)'
    <3>1. /\ execs'[r] = execs[r] /\ stray'[r] = stray[r] /\ attempt'[r] = attempt[r]
          /\ OnWire(r)' <= OnWire(r) /\ Unspent(r)' <= Unspent(r)
          /\ OnWire(r) \in Nat /\ OnWire(r)' \in Nat
          /\ Unspent(r) \in Nat /\ Unspent(r)' \in Nat
          /\ execs[r] \in Nat /\ stray[r] \in Nat /\ attempt[r] \in Nat
      <4>1. /\ OnWire(r) \in Nat /\ OnWire(r)' \in Nat
            /\ Unspent(r) \in Nat /\ Unspent(r)' \in Nat
        BY ZeroOrOne
      <4>2. OnWire(r)' <= OnWire(r) /\ Unspent(r)' <= Unspent(r)
        BY <1>a
      <4>3. /\ execs'[r] = execs[r] /\ stray'[r] = stray[r] /\ attempt'[r] = attempt[r]
            /\ execs[r] \in Nat /\ stray[r] \in Nat /\ attempt[r] \in Nat
        BY <1>1, <1>a
      <4>. QED
        BY <4>1, <4>2, <4>3
    <3>. QED
      BY <1>1, <1>a, <3>1, StillBounded
  <2>. QED
    BY <2>1 DEF BoundInv
<1>b. ASSUME up' = up
      PROVE  \A r : OnWire(r)' = OnWire(r)
  BY <1>b DEF OnWire, On
<1>c. ASSUME up' = <<>>
      PROVE  \A r : OnWire(r)' <= OnWire(r)
  <2>1. ASSUME NEW r
        PROVE  OnWire(r)' <= OnWire(r)
    <3>1. OnWire(r)' = 0 /\ OnWire(r) \in 0..1
      BY <1>c, EmptyOnce, ZeroOrOne
    <3>. QED
      BY <3>1
  <2>. QED
    BY <2>1
<1>2. ASSUME NEW t \in Thread, Call(t) \/ Backoff(t)
      PROVE  BoundInv'
  <2>1. /\ pc[t] \in {"idle", "backoff"} /\ pc' = [pc EXCEPT ![t] = "want"]
        /\ UNCHANGED <<up, execs, stray>>
        /\ \/ pc[t] = "idle" /\ attempt' = [attempt EXCEPT ![t] = 1]
           \/ attempt' = [attempt EXCEPT ![t] = @ + 1]
    BY <1>2 DEF Call, Backoff, Goto, wireVars
  <2>2. attempt'[t] = attempt[t] + 1
    <3>1. CASE pc[t] = "idle" /\ attempt' = [attempt EXCEPT ![t] = 1]
      <4>1. attempt[t] = 0
        BY <1>1, <3>1 DEF Bounded
      <4>. QED
        BY <1>0, <3>1, <4>1
    <3>2. CASE attempt' = [attempt EXCEPT ![t] = @ + 1]
      BY <1>0, <3>2
    <3>. QED
      BY <2>1, <3>1, <3>2
  <2>3. \A r \in Thread \ {t} : attempt'[r] = attempt[r] /\ pc'[r] = pc[r]
    BY <1>0, <2>1
  <2>4. pc'[t] = "want" /\ Unspent(t) = 0
    BY <1>0, <2>1 DEF Unspent
  <2>5. \A r \in Thread \ {t} : Unspent(r)' = Unspent(r)
    BY <2>3 DEF Unspent
  <2>6. \A r : OnWire(r)' = OnWire(r)
    BY <1>b, <2>1
  <2>. QED
    <3>1. ASSUME NEW r \in Thread
          PROVE  Bounded(r)'
      <4>1. /\ execs'[r] = execs[r] /\ stray'[r] = stray[r] /\ OnWire(r)' = OnWire(r)
            /\ OnWire(r) \in Nat /\ Unspent(r) \in Nat /\ Unspent(r)' \in 0..1
            /\ execs[r] \in Nat /\ stray[r] \in Nat /\ attempt[r] \in Nat
        <5>1. OnWire(r) \in Nat /\ Unspent(r) \in Nat /\ Unspent(r)' \in 0..1
          BY ZeroOrOne
        <5>2. OnWire(r)' = OnWire(r)
          BY <2>6
        <5>3. /\ execs'[r] = execs[r] /\ stray'[r] = stray[r]
              /\ execs[r] \in Nat /\ stray[r] \in Nat /\ attempt[r] \in Nat
          BY <1>1, <2>1
        <5>. QED
          BY <5>1, <5>2, <5>3
      <4>2. CASE r = t
        BY <1>1, <2>2, <2>4, <4>1, <4>2, StillBounded
      <4>3. CASE r # t
        BY <1>1, <2>3, <2>5, <4>1, <4>3, StillBounded
      <4>. QED
        BY <4>2, <4>3
    <3>. QED
      BY <3>1 DEF BoundInv
<1>3. ASSUME NEW t \in Thread,
             \/ Acquire(t) \/ DialOk(t) \/ DialFails(t) \/ SendFails(t) \/ Receive(t)
             \/ RedialOk(t) \/ RedialFails(t)
      PROVE  BoundInv'
  <2>1. /\ UNCHANGED <<execs, stray, attempt>> /\ (up' = up \/ up' = <<>>)
        /\ \E to : /\ pc' = [pc EXCEPT ![t] = to] /\ to # "idle"
                   /\ to \in {"want", "dial", "send"} => pc[t] \in {"want", "dial", "send"}
    BY <1>3 DEF Acquire, DialOk, DialFails, SendFails, Receive, RecvResponse, RecvError,
       RecvBroken, RecvTimeout, RedialOk, RedialFails, AfterAttempt, Fail, Goto,
       Open, EmptyWire, wireVars
  <2>2. \A r \in Thread : Unspent(r)' <= Unspent(r) /\ (pc'[r] = "idle" => pc[r] = "idle")
    BY <1>0, <2>1 DEF Unspent
  <2>3. \A r \in Thread : OnWire(r)' <= OnWire(r)
    <3>1. CASE up' = up
      <4>1. ASSUME NEW r \in Thread
            PROVE  OnWire(r)' <= OnWire(r)
        <5>1. OnWire(r)' = OnWire(r) /\ OnWire(r) \in 0..1
          BY <1>b, <3>1, ZeroOrOne
        <5>. QED
          BY <5>1
      <4>. QED
        BY <4>1
    <3>2. CASE up' = <<>>
      BY <1>c, <3>2
    <3>. QED
      BY <2>1, <3>1, <3>2
  <2>. QED
    BY <1>a, <2>1, <2>2, <2>3
<1>4. ASSUME NEW t \in Thread, SendOk(t)
      PROVE  BoundInv'
  <2>1. /\ pc[t] = "send" /\ pc' = [pc EXCEPT ![t] = "recv"]
        /\ up' = up \/ up' = Append(up, t)
        /\ UNCHANGED <<execs, stray, attempt>>
    BY <1>4 DEF SendOk, Goto
  <2>2. ASSUME NEW r \in Thread, r # t
        PROVE  OnWire(r)' = OnWire(r)
    <3>1. CASE up' = up
      BY <1>b, <3>1
    <3>2. CASE up' = Append(up, t)
      <4>1. /\ Len(up) \in Nat /\ Len(up') = Len(up) + 1 /\ up'[Len(up) + 1] = t
            /\ \A k \in 1..Len(up) : up'[k] = up[k]
        BY <1>0, <3>2
      <4>2. On(r)' <=> On(r)
        <5>1. On(r) => On(r)'
          BY <4>1 DEF On
        <5>2. ASSUME NEW k \in 1..Len(up'), up'[k] = r
              PROVE  On(r)
          <6>1. k \in 1..Len(up)
            BY <2>2, <4>1, <5>2
          <6>. QED
            BY <4>1, <5>2, <6>1 DEF On
        <5>. QED
          BY <5>1, <5>2 DEF On
      <4>. QED
        BY <4>2 DEF OnWire
    <3>. QED
      BY <2>1, <3>1, <3>2
  <2>3. OnWire(t) = 0
    BY <1>0, <2>1 DEF OnWire, On, OnceInv
  <2>4. Unspent(t) = 1 /\ Unspent(t)' = 0 /\ pc'[t] # "idle"
    BY <1>0, <2>1 DEF Unspent
  <2>5. \A r \in Thread \ {t} : Unspent(r)' = Unspent(r) /\ pc'[r] = pc[r]
    BY <1>0, <2>1 DEF Unspent
  <2>6. ASSUME NEW r \in Thread
        PROVE  Bounded(r)'
    <3>1. /\ execs'[r] = execs[r] /\ stray'[r] = stray[r] /\ attempt'[r] = attempt[r]
          /\ OnWire(r) \in Nat /\ OnWire(r)' \in 0..1 /\ Unspent(r) \in Nat
          /\ execs[r] \in Nat /\ stray[r] \in Nat /\ attempt[r] \in Nat
      <4>1. OnWire(r) \in Nat /\ OnWire(r)' \in 0..1 /\ Unspent(r) \in Nat
        BY ZeroOrOne
      <4>2. /\ execs'[r] = execs[r] /\ stray'[r] = stray[r] /\ attempt'[r] = attempt[r]
            /\ execs[r] \in Nat /\ stray[r] \in Nat /\ attempt[r] \in Nat
        BY <1>1, <2>1
      <4>. QED
        BY <4>1, <4>2
    <3>2. CASE r = t
      BY <1>1, <2>3, <2>4, <3>1, <3>2, StillBounded
    <3>3. CASE r # t
      BY <1>1, <2>2, <2>5, <3>1, <3>3, StillBounded
    <3>. QED
      BY <3>2, <3>3
  <2>. QED
    BY <2>6 DEF BoundInv
\* The connection is closed: what is on it is left behind.
<1>5. ASSUME CloseSocket, UNCHANGED <<execs, attempt>>,
             \A r \in Thread : Unspent(r)' <= Unspent(r) /\ (pc'[r] = "idle" => pc[r] = "idle")
      PROVE  BoundInv'
  <2>1. \A r \in Thread : stray'[r] = stray[r] + OnWire(r) /\ OnWire(r)' = 0
    BY <1>5, OccursOnce, EmptyOnce DEF CloseSocket, EmptyWire
  <2>2. ASSUME NEW r \in Thread
        PROVE  Bounded(r)'
    <3>1. /\ execs'[r] = execs[r] /\ stray'[r] = stray[r] + OnWire(r)
          /\ attempt'[r] = attempt[r] /\ OnWire(r)' = 0 /\ Unspent(r)' <= Unspent(r)
          /\ OnWire(r) \in 0..1 /\ Unspent(r) \in Nat /\ Unspent(r)' \in Nat
          /\ execs[r] \in Nat /\ stray[r] \in Nat /\ attempt[r] \in Nat
      <4>1. /\ OnWire(r) \in 0..1 /\ Unspent(r) \in Nat /\ Unspent(r)' \in Nat
        BY ZeroOrOne
      <4>2. OnWire(r)' = 0 /\ Unspent(r)' <= Unspent(r)
        BY <1>5, <2>1
      <4>3. /\ execs'[r] = execs[r] /\ stray'[r] = stray[r] + OnWire(r)
            /\ attempt'[r] = attempt[r]
            /\ execs[r] \in Nat /\ stray[r] \in Nat /\ attempt[r] \in Nat
        BY <1>1, <1>5, <2>1
      <4>. QED
        BY <4>1, <4>2, <4>3
    <3>. QED
      BY <1>1, <1>5, <3>1, StillBounded
  <2>. QED
    BY <2>2 DEF BoundInv
<1>6. ASSUME NEW t \in Thread, Reacquire(t)
      PROVE  BoundInv'
  <2>1. CloseSocket /\ UNCHANGED <<execs, attempt>> /\ pc' = [pc EXCEPT ![t] = "redial"]
    BY <1>6 DEF Reacquire, Goto
  <2>2. \A r \in Thread : Unspent(r)' <= Unspent(r) /\ (pc'[r] = "idle" => pc[r] = "idle")
    BY <1>0, <2>1 DEF Unspent
  <2>. QED
    BY <1>5, <2>1, <2>2
<1>7. CASE Close
  <2>1. CloseSocket /\ UNCHANGED <<execs, attempt, pc>>
    BY <1>7 DEF Close
  <2>. QED
    BY <1>0, <1>5, <2>1 DEF Unspent
<1>8. CASE ServerAnswers \/ ServerRefuses \/ ServerChokes
  <2>1. /\ up # <<>> /\ UNCHANGED <<pc, attempt, stray>>
        /\ up' = Tail(up) \/ up' = <<>>
        /\ execs' = execs \/ execs' = [execs EXCEPT ![Head(up)] = @ + 1]
    BY <1>8 DEF ServerAnswers, ServerRefuses, ServerChokes, ServerReads
  <2>2. /\ Head(up) \in Thread /\ Head(up) = up[1] /\ Len(up) \in Nat /\ Len(up) >= 1
        /\ Len(Tail(up)) = Len(up) - 1
        /\ \A k \in 1..Len(up) - 1 : Tail(up)[k] = up[k + 1]
    BY <1>0, <2>1
  <2>3. OnWire(Head(up)) = 1
    BY <2>2 DEF OnWire, On
  <2>4. ASSUME NEW r \in Thread, On(r)'
        PROVE  On(r) /\ r # Head(up)
    <3>1. PICK k \in 1..Len(up') : up'[k] = r
      BY <2>4 DEF On
    <3>2. up' = Tail(up) /\ k \in 1..Len(up) - 1 /\ up[k + 1] = r
      BY <2>1, <2>2, <3>1
    <3>3. k + 1 \in 1..Len(up) /\ 1 \in 1..Len(up) /\ k + 1 # 1
      BY <2>2, <3>2
    <3>4. up[k + 1] # up[1]
      BY <3>3 DEF OnceInv
    <3>. QED
      BY <2>2, <3>2, <3>3, <3>4 DEF On
  <2>5. \A r \in Thread : OnWire(r)' <= OnWire(r) /\ (r = Head(up) => OnWire(r)' = 0)
    BY <2>4 DEF OnWire
  <2>6. \A r \in Thread : Unspent(r)' = Unspent(r) /\ pc'[r] = pc[r]
    BY <2>1 DEF Unspent
  <2>7. \A r \in Thread : /\ execs'[r] \in Nat
                          /\ execs'[r] <= execs[r] + (IF r = Head(up) THEN 1 ELSE 0)
    BY <1>0, <2>1, <2>2
  <2>8. ASSUME NEW r \in Thread
        PROVE  Bounded(r)'
    <3>1. /\ stray'[r] = stray[r] /\ attempt'[r] = attempt[r] /\ pc'[r] = pc[r]
          /\ Unspent(r)' = Unspent(r) /\ execs'[r] \in Nat
          /\ OnWire(r) \in Nat /\ OnWire(r)' \in Nat /\ Unspent(r) \in Nat
          /\ execs[r] \in Nat /\ stray[r] \in Nat /\ attempt[r] \in Nat
      <4>1. OnWire(r) \in Nat /\ OnWire(r)' \in Nat /\ Unspent(r) \in Nat
        BY ZeroOrOne
      <4>2. Unspent(r)' = Unspent(r) /\ pc'[r] = pc[r] /\ execs'[r] \in Nat
        BY <2>6, <2>7
      <4>3. /\ stray'[r] = stray[r] /\ attempt'[r] = attempt[r]
            /\ execs[r] \in Nat /\ stray[r] \in Nat /\ attempt[r] \in Nat
        BY <1>1, <2>1
      <4>. QED
        BY <4>1, <4>2, <4>3
    <3>2. CASE r = Head(up)
      <4>1. execs'[r] <= execs[r] + 1 /\ OnWire(r) = 1 /\ OnWire(r)' = 0
        BY <2>3, <2>5, <2>7, <3>2
      <4>. QED
        BY <1>1, <3>1, <4>1, StillBounded
    <3>3. CASE r # Head(up)
      <4>1. execs'[r] <= execs[r] + 0 /\ OnWire(r)' <= OnWire(r)
        BY <2>5, <2>7, <3>3
      <4>. QED
        BY <1>1, <3>1, <4>1, StillBounded
    <3>. QED
      BY <3>2, <3>3
  <2>. QED
    BY <2>8 DEF BoundInv
<1>9. CASE ServerHangsUp
  BY <1>0, <1>9, <1>a, <1>c DEF ServerHangsUp, Unspent
<1>10. CASE StrayRequests
  <2>1. PICK ended \in SUBSET {r \in Thread : stray[r] > 0} :
          /\ stray' = [r \in Thread |-> IF r \in ended THEN stray[r] - 1 ELSE stray[r]]
          /\ \/ UNCHANGED execs
             \/ \E r \in ended : execs' = [execs EXCEPT ![r] = @ + 1]
          /\ UNCHANGED <<pc, attempt, result, lock, wireVars>>
    BY <1>10 DEF StrayRequests
  <2>2. \A r \in Thread : OnWire(r)' = OnWire(r) /\ Unspent(r)' = Unspent(r)
    BY <1>b, <2>1 DEF Unspent, wireVars
  <2>3. ASSUME NEW r \in Thread
        PROVE  Bounded(r)'
    <3>1. /\ attempt'[r] = attempt[r] /\ pc'[r] = pc[r]
          /\ OnWire(r)' = OnWire(r) /\ Unspent(r)' = Unspent(r)
          /\ OnWire(r) \in Nat /\ Unspent(r) \in Nat
          /\ execs[r] \in Nat /\ stray[r] \in Nat /\ attempt[r] \in Nat
      <4>1. OnWire(r) \in Nat /\ Unspent(r) \in Nat
        BY ZeroOrOne
      <4>2. OnWire(r)' = OnWire(r) /\ Unspent(r)' = Unspent(r)
        BY <2>2
      <4>3. /\ attempt'[r] = attempt[r] /\ pc'[r] = pc[r]
            /\ execs[r] \in Nat /\ stray[r] \in Nat /\ attempt[r] \in Nat
        BY <1>1, <2>1
      <4>. QED
        BY <4>1, <4>2, <4>3
    <3>2. CASE r \in ended
      <4>1. stray'[r] = stray[r] - 1 /\ stray[r] > 0
        BY <2>1, <3>2
      <4>2. execs'[r] = execs[r] \/ execs'[r] = execs[r] + 1
        BY <1>0, <2>1
      <4>. QED
        BY <1>1, <3>1, <4>1, <4>2, StillBounded
    <3>3. CASE r \notin ended
      <4>1. stray'[r] = stray[r] /\ execs'[r] = execs[r]
        BY <1>0, <2>1, <3>3
      <4>. QED
        BY <1>1, <3>1, <4>1, StillBounded
    <3>. QED
      BY <3>2, <3>3
  <2>. QED
    BY <2>3 DEF BoundInv
<1>11. CASE UNCHANGED vars
  <2>1. UNCHANGED <<execs, stray, attempt, pc, up>>
    BY <1>11 DEF vars, wireVars
  <2>2. ASSUME NEW r \in Thread
        PROVE  OnWire(r)' <= OnWire(r) /\ Unspent(r)' <= Unspent(r)
    <3>1. OnWire(r)' = OnWire(r) /\ Unspent(r)' = Unspent(r)
      BY <1>b, <2>1 DEF Unspent
    <3>2. OnWire(r) \in 0..1 /\ Unspent(r) \in 0..1
      BY ZeroOrOne
    <3>. QED
      BY <3>1, <3>2
  <2>. QED
    BY <1>a, <2>1, <2>2
<1>. QED
  BY <1>2, <1>3, <1>4, <1>6, <1>7, <1>8, <1>9, <1>10, <1>11
     DEF Next, Request, Recover, Server

\* Nothing has been attempted at the start.
LEMMA BoundInit == Init => OnceInv /\ BoundInv
BY DEF Init, OnceInv, BoundInv, Bounded, OnWire, On, Unspent

\* The inductive invariant is the claim, with what is still to be spent on top.
LEMMA BoundSuffices == TypeOK /\ OnceInv /\ BoundInv => ExecutionsBounded
<1>. SUFFICES ASSUME TypeOK, OnceInv, BoundInv, NEW r \in Thread
              PROVE  execs[r] + stray[r] + Cardinality(Occurs(r)) <= attempt[r]
  BY DEF ExecutionsBounded
<1>1. /\ execs[r] \in Nat /\ stray[r] \in Nat /\ attempt[r] \in Nat
      /\ OnWire(r) \in 0..1 /\ Unspent(r) \in 0..1
  BY RetriesAssumption DEF TypeOK, OnWire, Unspent
<1>2. execs[r] + stray[r] + OnWire(r) + Unspent(r) <= attempt[r]
  BY DEF BoundInv, Bounded
<1>. QED
  BY <1>1, <1>2, OccursOnce

\* For any number of threads and of retries, no request is carried out more often
\* than it was attempted, counting what is still on its way to a server.
THEOREM RetriesBounded == Spec => []ExecutionsBounded
BY BoundInit, BoundSuffices, OnceStep, BoundStep, TypeCorrect, PTL DEF Spec
=============================================================================
