--------------------------- MODULE ForwarderProofs ---------------------------
(***************************************************************************)
(* Theorems about Forwarder, for any number of streams, targets and        *)
(* chunks.  The table always holds the newest session of a target or none; *)
(* everything else follows from that and from what a thread knows of the   *)
(* socket it has in hand.                                                  *)
(***************************************************************************)
EXTENDS Forwarder, FiniteSetTheorems, TLAPS

UsesSocket == {"send", "recv", "pop_eof", "pop_error", "close"}

\* What the thread at work on a stream's request knows.
ThreadInv ==
  \A r \in Stream :
    /\ stamp[r] > 0 => target[r] \in Target
    /\ pc[r] \in {"dial", "register"} => target[r] \in Target /\ stamp[r] = 0
    /\ pc[r] = "dial" => peer[r] = "unopened"
    /\ peer[r] # "unopened" => pc[r] = "register" \/ stamp[r] > 0
    /\ pc[r] = "lookup" => stamp[r] > 0
    /\ target[r] = None => peer[r] = "unopened" /\ stamp[r] = 0
    /\ pc[r] \in UsesSocket =>
         /\ hand[r] \in Stream
         /\ target[hand[r]] = target[r]
         /\ 0 < stamp[r] /\ stamp[r] <= stamp[hand[r]]

\* The table holds the newest session of a target, if any.
TableInv ==
  /\ \A r \in Stream : stamp[r] <= Cardinality(Registered)
  /\ \A g \in Target : sessions[g] # None =>
       /\ target[sessions[g]] = g
       /\ stamp[sessions[g]] > 0
       /\ \A r \in Stream : target[r] = g => stamp[r] <= stamp[sessions[g]]

\* A socket about to be closed is out of the table.
ClosedInv ==
  /\ \A s \in closed : stamp[s] > 0
  /\ \A r \in Stream : pc[r] = "close" => \A g \in Target : sessions[g] # hand[r]
  /\ NoClosedSession

Inv == TypeOK /\ ThreadInv /\ TableInv /\ ClosedInv /\ OvertakenOnly

LEMMA InitInv == Init => Inv /\ ChunksAccounted
<1>. SUFFICES ASSUME Init PROVE Inv /\ ChunksAccounted
  OBVIOUS
<1>1. TypeOK
  BY ChunksAssumption DEF Init, TypeOK, Label, Peer, Chunk
<1>2. ThreadInv /\ ClosedInv /\ OvertakenOnly
  BY NoneAssumption DEF Init, ThreadInv, ClosedInv, NoClosedSession, OvertakenOnly, UsesSocket
<1>3. TableInv
  <2>1. Registered = {}
    BY DEF Init, Registered
  <2>. QED
    BY <2>1, FS_EmptySet DEF Init, TableInv
<1>4. ChunksAccounted
  BY ChunksAssumption DEF Init, ChunksAccounted
<1>. QED
  BY <1>1, <1>2, <1>3, <1>4 DEF Inv

\* Every step but Register leaves the number of registrations alone.
LEMMA RegisteredCount ==
  ASSUME TypeOK
  PROVE  /\ Cardinality(Registered) \in Nat
         /\ \A r \in Stream : stamp[r] = 0 /\ Stamp(r) =>
              Cardinality(Registered') = Cardinality(Registered) + 1
         /\ stamp' = stamp => Registered' = Registered
<1>1. IsFiniteSet(Registered) /\ Cardinality(Registered) \in Nat
  BY StreamAssumption, FS_Subset, FS_CardinalityType DEF Registered
<1>2. ASSUME NEW r \in Stream, stamp[r] = 0, Stamp(r)
      PROVE  Cardinality(Registered') = Cardinality(Registered) + 1
  <2>1. Registered' = Registered \cup {r} /\ r \notin Registered
    <3>1. /\ stamp'[r] > 0
          /\ \A q \in Stream \ {r} : stamp'[q] = stamp[q]
      BY <1>1, <1>2 DEF Stamp, TypeOK
    <3>. QED
      BY <1>2, <3>1 DEF Registered
  <2>. QED
    BY <1>1, <2>1, FS_AddElement
<1>. QED
  BY <1>1, <1>2 DEF Registered

LEMMA TypeStep == Inv /\ [Next]_vars => TypeOK'
<1>. SUFFICES ASSUME Inv, [Next]_vars PROVE TypeOK'
  OBVIOUS
<1>. USE ChunksAssumption DEF Inv, TypeOK, Label, Peer, Step
<1>1. ASSUME NEW r \in Stream, Connect(r) \/ BeginFetch(r) \/ EndFetch(r)
      PROVE  TypeOK'
  <2>1. CASE \E g \in Target : BeginConnect(r, g)
    BY <2>1 DEF BeginConnect, socketVars, historyVars
  <2>2. CASE DialOk(r) \/ DialFails(r) \/ BeginFetch(r) \/ EndFetch(r)
    BY <2>2 DEF DialOk, DialFails, BeginFetch, EndFetch, socketVars, historyVars
  <2>3. CASE Register(r)
    BY <2>3, RegisteredCount DEF Register, Stamp, socketVars, ThreadInv
  <2>. QED
    BY <1>1, <2>1, <2>2, <2>3 DEF Connect
<1>2. ASSUME NEW r \in Stream, Relay(r)
      PROVE  TypeOK'
  <2>1. CASE BeginRelay(r) \/ Lookup(r) \/ LookupFails(r) \/ RecvEof(r)
    BY <2>1 DEF BeginRelay, Lookup, LookupFails, RecvEof, socketVars, historyVars, ThreadInv
  <2>2. CASE SendOk(r) \/ SendFails(r)
    BY <2>2 DEF SendOk, SendFails, socketVars, ThreadInv, UsesSocket
  <2>3. CASE RecvMore(r) \/ RecvLast(r)
    <3>1. /\ hand[r] \in Stream
          /\ taken[hand[r]] + 1 \in 0..MaxChunks
          /\ <<hand[r], taken[hand[r]] + 1>> \in Chunk
      BY <2>3 DEF RecvMore, RecvLast, ThreadInv, UsesSocket, Chunk
    <3>. QED
      BY <2>3, <3>1 DEF RecvMore, RecvLast, Reply, historyVars
  <2>4. CASE RecvGivesUp(r) \/ PopEof(r) \/ PopError(r) \/ Close(r)
    BY <2>4 DEF RecvGivesUp, PopEof, PopError, Close, Reply, PopSession, socketVars,
       historyVars, ThreadInv, UsesSocket
  <2>. QED
    BY <1>2, <2>1, <2>2, <2>3, <2>4 DEF Relay
<1>3. ASSUME NEW r \in Stream, TargetSends(r) \/ TargetEnds(r)
      PROVE  TypeOK'
  BY <1>3 DEF TargetSends, TargetEnds, historyVars
<1>4. CASE UNCHANGED vars
  BY <1>4 DEF vars, socketVars, historyVars
<1>. QED
  BY <1>1, <1>2, <1>3, <1>4 DEF Next

LEMMA ThreadStep == Inv /\ [Next]_vars => ThreadInv'
<1>. SUFFICES ASSUME Inv, [Next]_vars PROVE ThreadInv'
  OBVIOUS
<1>. USE NoneAssumption DEF Inv, TypeOK, ThreadInv, UsesSocket, Step
<1>1. ASSUME NEW r \in Stream, Connect(r) \/ BeginFetch(r) \/ EndFetch(r)
      PROVE  ThreadInv'
  <2>1. CASE \E g \in Target : BeginConnect(r, g)
    BY <2>1 DEF BeginConnect, socketVars, historyVars
  <2>2. CASE DialOk(r) \/ DialFails(r) \/ BeginFetch(r) \/ EndFetch(r)
    BY <2>2 DEF DialOk, DialFails, BeginFetch, EndFetch, socketVars, historyVars
  <2>3. CASE Register(r)
    <3>1. stamp' = [stamp EXCEPT ![r] = Cardinality(Registered) + 1]
          /\ Cardinality(Registered) \in Nat
          /\ \A q \in Stream : stamp[q] <= Cardinality(Registered)
      BY <2>3, RegisteredCount DEF Register, Stamp, TableInv
    <3>. QED
      BY <2>3, <3>1 DEF Register, socketVars
  <2>. QED
    BY <1>1, <2>1, <2>2, <2>3 DEF Connect
<1>2. ASSUME NEW r \in Stream, Relay(r)
      PROVE  ThreadInv'
  <2>1. CASE BeginRelay(r) \/ LookupFails(r) \/ RecvEof(r)
    BY <2>1 DEF BeginRelay, LookupFails, RecvEof, socketVars, historyVars
  <2>2. CASE Lookup(r)
    BY <2>2 DEF Lookup, socketVars, historyVars, TableInv
  <2>3. CASE SendOk(r) \/ SendFails(r)
    BY <2>3 DEF SendOk, SendFails, socketVars
  <2>4. CASE RecvMore(r) \/ RecvLast(r)
    BY <2>4 DEF RecvMore, RecvLast, Reply, historyVars
  <2>5. CASE RecvGivesUp(r) \/ PopEof(r) \/ PopError(r) \/ Close(r)
    BY <2>5 DEF RecvGivesUp, PopEof, PopError, Close, Reply, PopSession, socketVars,
       historyVars
  <2>. QED
    BY <1>2, <2>1, <2>2, <2>3, <2>4, <2>5 DEF Relay
<1>3. ASSUME NEW r \in Stream, TargetSends(r) \/ TargetEnds(r)
      PROVE  ThreadInv'
  BY <1>3 DEF TargetSends, TargetEnds, historyVars
<1>4. CASE UNCHANGED vars
  BY <1>4 DEF vars, socketVars, historyVars
<1>. QED
  BY <1>1, <1>2, <1>3, <1>4 DEF Next

\* The steps that leave the table, the targets and the stamps alone.
LEMMA QuietSteps ==
  ASSUME NEW r \in Stream,
         \/ DialOk(r) \/ DialFails(r) \/ BeginFetch(r) \/ EndFetch(r)
         \/ BeginRelay(r) \/ Lookup(r) \/ LookupFails(r) \/ SendOk(r) \/ SendFails(r)
         \/ RecvMore(r) \/ RecvLast(r) \/ RecvEof(r) \/ RecvGivesUp(r)
         \/ Close(r) \/ TargetSends(r) \/ TargetEnds(r)
  PROVE  sessions' = sessions /\ target' = target /\ stamp' = stamp
  BY DEF DialOk, DialFails, BeginFetch, EndFetch, BeginRelay, Lookup, LookupFails,
     SendOk, SendFails, RecvMore, RecvLast, RecvEof, RecvGivesUp, Close, TargetSends,
     TargetEnds, historyVars

LEMMA TableStep == Inv /\ [Next]_vars => TableInv'
<1>. SUFFICES ASSUME Inv, [Next]_vars PROVE TableInv'
  OBVIOUS
<1>. USE NoneAssumption, RegisteredCount DEF Inv, TypeOK, TableInv
<1>1. ASSUME sessions' = sessions, target' = target, stamp' = stamp
      PROVE  TableInv'
  BY <1>1
<1>2. ASSUME NEW r \in Stream, NEW g \in Target, BeginConnect(r, g)
      PROVE  TableInv'
  BY <1>2 DEF BeginConnect, historyVars, ThreadInv
<1>3. ASSUME NEW r \in Stream, Register(r)
      PROVE  TableInv'
  <2>1. /\ stamp' = [stamp EXCEPT ![r] = Cardinality(Registered) + 1]
        /\ Cardinality(Registered') = Cardinality(Registered) + 1
        /\ Cardinality(Registered) \in Nat
        /\ sessions' = [sessions EXCEPT ![target[r]] = r]
        /\ target' = target /\ target[r] \in Target /\ stamp[r] = 0
    BY <1>3 DEF Register, Step, Stamp, ThreadInv
  <2>2. \A q \in Stream : stamp'[q] <= Cardinality(Registered')
    BY <2>1
  <2>3. ASSUME NEW g \in Target, sessions'[g] # None
        PROVE  /\ target'[sessions'[g]] = g
               /\ stamp'[sessions'[g]] > 0
               /\ \A q \in Stream : target'[q] = g => stamp'[q] <= stamp'[sessions'[g]]
    <3>1. CASE g = target[r]
      BY <2>1, <2>3, <3>1
    <3>2. CASE g # target[r]
      BY <2>1, <2>3, <3>2
    <3>. QED
      BY <3>1, <3>2
  <2>. QED
    BY <2>2, <2>3
<1>4. ASSUME NEW r \in Stream, PopEof(r) \/ PopError(r)
      PROVE  TableInv'
  BY <1>4 DEF PopEof, PopError, PopSession, historyVars
<1>5. CASE UNCHANGED vars
  BY <1>1, <1>5 DEF vars, historyVars
<1>. QED
  BY <1>1, <1>2, <1>3, <1>4, <1>5, QuietSteps DEF Next, Connect, Relay

LEMMA ClosedStep == Inv /\ [Next]_vars => ClosedInv'
<1>. SUFFICES ASSUME Inv, [Next]_vars PROVE ClosedInv'
  OBVIOUS
<1>. USE NoneAssumption
     DEF Inv, TypeOK, ThreadInv, ClosedInv, NoClosedSession, Step, UsesSocket
<1>1. ASSUME NEW r \in Stream, Connect(r) \/ BeginFetch(r) \/ EndFetch(r)
      PROVE  ClosedInv'
  <2>1. CASE \E g \in Target : BeginConnect(r, g)
    BY <2>1 DEF BeginConnect, historyVars
  <2>2. CASE DialOk(r) \/ DialFails(r) \/ BeginFetch(r) \/ EndFetch(r)
    BY <2>2 DEF DialOk, DialFails, BeginFetch, EndFetch, historyVars
  <2>3. CASE Register(r)
    <3>1. /\ stamp' = [stamp EXCEPT ![r] = Cardinality(Registered) + 1]
          /\ Cardinality(Registered) \in Nat
      BY <2>3, RegisteredCount DEF Register, Stamp
    <3>. QED
      BY <2>3, <3>1 DEF Register
  <2>. QED
    BY <1>1, <2>1, <2>2, <2>3 DEF Connect
<1>2. ASSUME NEW r \in Stream, Relay(r)
      PROVE  ClosedInv'
  <2>1. CASE BeginRelay(r) \/ Lookup(r) \/ LookupFails(r) \/ RecvEof(r) \/ RecvMore(r)
    BY <2>1 DEF BeginRelay, Lookup, LookupFails, RecvEof, RecvMore, historyVars
  <2>2. CASE SendOk(r) \/ SendFails(r)
    BY <2>2 DEF SendOk, SendFails
  <2>3. CASE RecvLast(r) \/ RecvGivesUp(r)
    BY <2>3 DEF RecvLast, RecvGivesUp, Reply, historyVars
  <2>4. CASE PopEof(r)
    BY <2>4 DEF PopEof, PopSession, Reply, historyVars
  <2>5. CASE PopError(r)
    BY <2>5 DEF PopError, PopSession, historyVars, TableInv
  <2>6. CASE Close(r)
    BY <2>6 DEF Close, Reply, historyVars
  <2>. QED
    BY <1>2, <2>1, <2>2, <2>3, <2>4, <2>5, <2>6 DEF Relay
<1>3. ASSUME NEW r \in Stream, TargetSends(r) \/ TargetEnds(r)
      PROVE  ClosedInv'
  BY <1>3 DEF TargetSends, TargetEnds, historyVars
<1>4. CASE UNCHANGED vars
  BY <1>4 DEF vars, historyVars
<1>. QED
  BY <1>1, <1>2, <1>3, <1>4 DEF Next

LEMMA OvertakenStep == Inv /\ [Next]_vars => OvertakenOnly'
<1>. SUFFICES ASSUME Inv, [Next]_vars PROVE OvertakenOnly'
  OBVIOUS
<1>. USE DEF Inv, TypeOK, ThreadInv, OvertakenOnly, Step, UsesSocket
<1>1. ASSUME writers' = writers, target' = target, stamp' = stamp
      PROVE  OvertakenOnly'
  BY <1>1
<1>2. ASSUME NEW r \in Stream, NEW g \in Target, BeginConnect(r, g)
      PROVE  OvertakenOnly'
  BY <1>2 DEF BeginConnect, historyVars
<1>3. ASSUME NEW r \in Stream, Register(r)
      PROVE  OvertakenOnly'
  BY <1>3, RegisteredCount DEF Register, Stamp, TableInv
<1>4. ASSUME NEW r \in Stream, SendOk(r) \/ SendFails(r)
      PROVE  OvertakenOnly'
  BY <1>4 DEF SendOk, SendFails
<1>5. ASSUME NEW r \in Stream, PopEof(r) \/ PopError(r)
      PROVE  OvertakenOnly'
  BY <1>1, <1>5 DEF PopEof, PopError, historyVars
<1>6. ASSUME NEW r \in Stream,
             \/ DialOk(r) \/ DialFails(r) \/ BeginFetch(r) \/ EndFetch(r)
             \/ BeginRelay(r) \/ Lookup(r) \/ LookupFails(r)
             \/ RecvMore(r) \/ RecvLast(r) \/ RecvEof(r) \/ RecvGivesUp(r)
             \/ Close(r) \/ TargetSends(r) \/ TargetEnds(r)
      PROVE  OvertakenOnly'
  BY <1>1, <1>6 DEF DialOk, DialFails, BeginFetch, EndFetch, BeginRelay, Lookup,
     LookupFails, RecvMore, RecvLast, RecvEof, RecvGivesUp, Close, TargetSends,
     TargetEnds, historyVars
<1>7. CASE UNCHANGED vars
  BY <1>1, <1>7 DEF vars, historyVars
<1>. QED
  BY <1>2, <1>3, <1>4, <1>5, <1>6, <1>7 DEF Next, Connect, Relay

\* Only a thread in the recv loop has chunks in hand.
HandsEmpty == \A r \in Stream : pc[r] \notin {"recv", "pop_eof"} => got[r] = {}

LEMMA HandsStep == Inv /\ HandsEmpty /\ [Next]_vars => HandsEmpty'
<1>. SUFFICES ASSUME Inv, HandsEmpty, [Next]_vars PROVE HandsEmpty'
  OBVIOUS
<1>. USE DEF Inv, TypeOK, HandsEmpty, Step
<1>1. ASSUME NEW r \in Stream, Connect(r) \/ BeginFetch(r) \/ EndFetch(r)
      PROVE  HandsEmpty'
  BY <1>1 DEF Connect, BeginConnect, DialOk, DialFails, Register, BeginFetch, EndFetch
<1>2. ASSUME NEW r \in Stream, Relay(r)
      PROVE  HandsEmpty'
  <2>1. CASE \/ BeginRelay(r) \/ Lookup(r) \/ LookupFails(r) \/ SendOk(r) \/ SendFails(r)
             \/ RecvEof(r) \/ PopError(r)
    BY <2>1 DEF BeginRelay, Lookup, LookupFails, SendOk, SendFails, RecvEof, PopError
  <2>2. CASE RecvMore(r)
    BY <2>2 DEF RecvMore
  <2>3. CASE RecvLast(r) \/ RecvGivesUp(r) \/ PopEof(r) \/ Close(r)
    BY <2>3 DEF RecvLast, RecvGivesUp, PopEof, Close, Reply
  <2>. QED
    BY <1>2, <2>1, <2>2, <2>3 DEF Relay
<1>3. ASSUME NEW r \in Stream, TargetSends(r) \/ TargetEnds(r)
      PROVE  HandsEmpty'
  BY <1>3 DEF TargetSends, TargetEnds
<1>4. CASE UNCHANGED vars
  BY <1>4 DEF vars
<1>. QED
  BY <1>1, <1>2, <1>3, <1>4 DEF Next

\* All the chunks that have been taken.
Held == {c \in Chunk : c \in replied \/ \E r \in Stream : c \in got[r]}

\* Moving what one thread has in hand, with or without a new chunk c, keeps
\* hands and replies apart and holds what was held.
LEMMA Move ==
  ASSUME TypeOK, NEW r \in Stream, NEW C \in SUBSET Chunk,
         C \cap Held = {},
         \A p \in Stream : got[p] \cap replied = {},
         \A p \in Stream : \A q \in Stream \ {p} : got[q] \cap got[p] = {},
         \/ got' = [got EXCEPT ![r] = @ \cup C] /\ replied' = replied
         \/ got' = [got EXCEPT ![r] = {}] /\ replied' = replied \cup (got[r] \cup C)
  PROVE  /\ Held' = Held \cup C
         /\ \A p \in Stream : got'[p] \cap replied' = {}
         /\ \A p \in Stream : \A q \in Stream \ {p} : got'[q] \cap got'[p] = {}
<1>1. \A c \in C : c \notin replied /\ \A q \in Stream : c \notin got[q]
  BY DEF Held
<1>2. CASE got' = [got EXCEPT ![r] = @ \cup C] /\ replied' = replied
  <2>1. got'[r] = got[r] \cup C /\ \A q \in Stream \ {r} : got'[q] = got[q]
    BY <1>2 DEF TypeOK
  <2>2. Held' = Held \cup C
    BY <1>2, <2>1 DEF Held
  <2>3. \A p \in Stream : got'[p] \cap replied' = {}
    BY <1>1, <1>2, <2>1
  <2>4. \A p \in Stream : \A q \in Stream \ {p} : got'[q] \cap got'[p] = {}
    BY <1>1, <2>1
  <2>. QED
    BY <2>2, <2>3, <2>4
<1>3. CASE got' = [got EXCEPT ![r] = {}] /\ replied' = replied \cup (got[r] \cup C)
  <2>1. got'[r] = {} /\ \A q \in Stream \ {r} : got'[q] = got[q]
    BY <1>3 DEF TypeOK
  <2>2. Held' = Held \cup C
    <3>1. got[r] \subseteq Chunk
      BY DEF TypeOK
    <3>. QED
      BY <1>3, <2>1, <3>1 DEF Held
  <2>3. \A p \in Stream : got'[p] \cap replied' = {}
    BY <1>1, <1>3, <2>1
  <2>4. \A p \in Stream : \A q \in Stream \ {p} : got'[q] \cap got'[p] = {}
    BY <2>1
  <2>. QED
    BY <2>2, <2>3, <2>4
<1>. QED
  BY <1>2, <1>3

LEMMA AccountedHeld ==
         ChunksAccounted <=>
           /\ \A s \in Stream : \A n \in 1..MaxChunks : n <= taken[s] <=> <<s, n>> \in Held
           /\ \A r \in Stream : got[r] \cap replied = {}
           /\ \A r \in Stream : \A q \in Stream \ {r} : got[q] \cap got[r] = {}
<1>1. \A s \in Stream : \A n \in 1..MaxChunks :
        <<s, n>> \in Held <=> <<s, n>> \in replied \/ \E r \in Stream : <<s, n>> \in got[r]
  BY DEF Held, Chunk
<1>. QED
  BY <1>1 DEF ChunksAccounted

\* A recv puts a chunk in hand that is nowhere else.
LEMMA Take ==
  ASSUME TypeOK, ChunksAccounted, NEW r \in Stream, NEW s \in Stream,
         taken[s] + 1 \in 1..MaxChunks,
         taken' = [taken EXCEPT ![s] = @ + 1],
         \/ /\ got' = [got EXCEPT ![r] = @ \cup {<<s, taken[s] + 1>>}]
            /\ replied' = replied
         \/ /\ got' = [got EXCEPT ![r] = {}]
            /\ replied' = replied \cup (got[r] \cup {<<s, taken[s] + 1>>})
  PROVE  ChunksAccounted'
<1>. DEFINE C == {<<s, taken[s] + 1>>}
<1>1. C \in SUBSET Chunk /\ C \cap Held = {}
  BY AccountedHeld DEF Chunk, TypeOK
<1>2. /\ Held' = Held \cup C
      /\ \A p \in Stream : got'[p] \cap replied' = {}
      /\ \A p \in Stream : \A q \in Stream \ {p} : got'[q] \cap got'[p] = {}
  <2>. HIDE DEF C
  <2>1. \/ got' = [got EXCEPT ![r] = @ \cup C] /\ replied' = replied
        \/ got' = [got EXCEPT ![r] = {}] /\ replied' = replied \cup (got[r] \cup C)
    BY DEF C
  <2>. QED
    BY <1>1, <2>1, Move, AccountedHeld
<1>3. ASSUME NEW u \in Stream, NEW n \in 1..MaxChunks
      PROVE  n <= taken'[u] <=> <<u, n>> \in Held'
  <2>1. n <= taken[u] <=> <<u, n>> \in Held
    BY AccountedHeld
  <2>2. CASE u = s
    <3>1. n <= taken'[u] <=> n <= taken[u] \/ n = taken[s] + 1
      BY <2>2, ChunksAssumption DEF TypeOK
    <3>2. <<u, n>> \in C <=> n = taken[s] + 1
      BY <2>2
    <3>. QED
      BY <1>2, <2>1, <3>1, <3>2
  <2>3. CASE u # s
    <3>1. taken'[u] = taken[u]
      BY <2>3 DEF TypeOK
    <3>2. <<u, n>> \notin C
      BY <2>3
    <3>. QED
      BY <1>2, <2>1, <3>1, <3>2
  <2>. QED
    BY <2>2, <2>3
<1>. QED
  <2>1. \A u \in Stream : \A n \in 1..MaxChunks :
          <<u, n>> \in Held' <=> <<u, n>> \in replied' \/ \E q \in Stream : <<u, n>> \in got'[q]
    BY DEF Held, Chunk
  <2>. QED
    BY <1>2, <1>3, <2>1 DEF ChunksAccounted

\* A reply hands on all that is in hand.
LEMMA HandOn ==
  ASSUME TypeOK, ChunksAccounted, NEW r \in Stream,
         taken' = taken,
         got' = [got EXCEPT ![r] = {}],
         replied' = replied \cup got[r]
  PROVE  ChunksAccounted'
<1>1. /\ Held' = Held
      /\ \A p \in Stream : got'[p] \cap replied' = {}
      /\ \A p \in Stream : \A q \in Stream \ {p} : got'[q] \cap got'[p] = {}
  <2>1. replied' = replied \cup (got[r] \cup {}) /\ {} \in SUBSET Chunk /\ {} \cap Held = {}
    OBVIOUS
  <2>2. /\ \A p \in Stream : got[p] \cap replied = {}
        /\ \A p \in Stream : \A q \in Stream \ {p} : got[q] \cap got[p] = {}
    BY DEF ChunksAccounted
  <2>3. /\ Held' = Held \cup {}
        /\ \A p \in Stream : got'[p] \cap replied' = {}
        /\ \A p \in Stream : \A q \in Stream \ {p} : got'[q] \cap got'[p] = {}
    BY <2>1, <2>2, Move
  <2>. QED
    BY <2>3
<1>2. \A u \in Stream : \A n \in 1..MaxChunks : n <= taken[u] <=> <<u, n>> \in Held
  BY AccountedHeld
<1>3. \A u \in Stream : \A n \in 1..MaxChunks :
        <<u, n>> \in Held' <=> <<u, n>> \in replied' \/ \E q \in Stream : <<u, n>> \in got'[q]
  BY DEF Held, Chunk
<1>. QED
  BY <1>1, <1>2, <1>3 DEF ChunksAccounted

LEMMA ChunksStep == Inv /\ HandsEmpty /\ ChunksAccounted /\ [Next]_vars => ChunksAccounted'
<1>. SUFFICES ASSUME Inv, HandsEmpty, ChunksAccounted, [Next]_vars PROVE ChunksAccounted'
  OBVIOUS
<1>. USE DEF Inv, Step
<1>1. ASSUME UNCHANGED <<taken, got, replied>>
      PROVE  ChunksAccounted'
  BY <1>1 DEF ChunksAccounted
<1>2. ASSUME NEW r \in Stream, RecvMore(r) \/ RecvLast(r)
      PROVE  ChunksAccounted'
  <2>1. hand[r] \in Stream /\ taken[hand[r]] + 1 \in 1..MaxChunks
    BY <1>2, ChunksAssumption DEF RecvMore, RecvLast, TypeOK, ThreadInv, UsesSocket
  <2>. QED
    BY <1>2, <2>1, Take DEF RecvMore, RecvLast, Reply
<1>3. ASSUME NEW r \in Stream, RecvGivesUp(r) \/ PopEof(r)
      PROVE  ChunksAccounted'
  BY <1>3, HandOn DEF RecvGivesUp, PopEof, Reply, socketVars
<1>4. ASSUME NEW r \in Stream, Close(r)
      PROVE  ChunksAccounted'
  <2>1. got[r] = {}
    BY <1>4 DEF Close, HandsEmpty
  <2>. QED
    BY <1>4, <2>1, HandOn DEF Close, Reply, socketVars
<1>5. ASSUME NEW r \in Stream,
             \/ Connect(r) \/ BeginFetch(r) \/ EndFetch(r)
             \/ BeginRelay(r) \/ Lookup(r) \/ LookupFails(r) \/ SendOk(r) \/ SendFails(r)
             \/ RecvEof(r) \/ PopError(r) \/ TargetSends(r) \/ TargetEnds(r)
      PROVE  ChunksAccounted'
  <2>1. UNCHANGED <<taken, got, replied>>
    BY <1>5 DEF Connect, BeginConnect, DialOk, DialFails, Register, BeginFetch,
       EndFetch, BeginRelay, Lookup, LookupFails, SendOk, SendFails, RecvEof,
       PopError, TargetSends, TargetEnds, socketVars
  <2>. QED
    BY <1>1, <2>1
<1>6. CASE UNCHANGED vars
  BY <1>1, <1>6 DEF vars, socketVars
<1>. QED
  BY <1>2, <1>3, <1>4, <1>5, <1>6 DEF Next, Relay

LEMMA Invariance == Spec => []Inv
<1>1. Inv /\ [Next]_vars => Inv'
  BY TypeStep, ThreadStep, TableStep, ClosedStep, OvertakenStep DEF Inv
<1>. QED
  BY <1>1, InitInv, PTL DEF Spec

\* The table of CONNECT sessions, the sockets and the handlers keep their types.
THEOREM TypeCorrect == Spec => []TypeOK
<1>1. Inv => TypeOK
  BY DEF Inv
<1>. QED
  BY <1>1, Invariance, PTL

\* The pop before each close keeps closed sockets out of the table.
THEOREM NoClosedSessionHolds == Spec => []NoClosedSession
<1>1. Inv => NoClosedSession
  BY DEF Inv, ClosedInv
<1>. QED
  BY <1>1, Invariance, PTL

\* A stream never writes to a session older than its own.
THEOREM OvertakenOnlyHolds == Spec => []OvertakenOnly
<1>1. Inv => OvertakenOnly
  BY DEF Inv
<1>. QED
  BY <1>1, Invariance, PTL

\* No two streams have asked for a tunnel to one target.
Apart == \A r, s \in Stream : target[r] = target[s] /\ target[r] \in Target => r = s

\* Streams to different targets keep to their own sockets: only a second CONNECT
\* to the same host and port can lead a stream's bytes astray.
THEOREM OwnTunnelIfApart == Spec => [](Apart => RelayOnOwnTunnel)
<1>1. Inv /\ Apart => RelayOnOwnTunnel
  <2>. SUFFICES ASSUME Inv, Apart, NEW s \in Stream, NEW r \in writers[s]
                PROVE  r = s
    BY DEF RelayOnOwnTunnel
  <2>1. r \in Stream
    BY DEF Inv, TypeOK
  <2>2. target[r] = target[s] /\ stamp[r] > 0
    BY <2>1 DEF Inv, TypeOK, OvertakenOnly
  <2>3. target[r] \in Target
    BY <2>1, <2>2 DEF Inv, ThreadInv
  <2>. QED
    BY <2>1, <2>2, <2>3 DEF Apart
<1>. QED
  BY <1>1, Invariance, PTL

\* Relays that share a socket neither drop nor repeat what recv gave them.
THEOREM ChunksAccountedHolds == Spec => []ChunksAccounted
<1>1. Init => HandsEmpty
  BY DEF Init, HandsEmpty
<1>. QED
  BY <1>1, InitInv, HandsStep, ChunksStep, Invariance, PTL DEF Spec
=============================================================================
