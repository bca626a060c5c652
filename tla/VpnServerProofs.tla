--------------------------- MODULE VpnServerProofs ---------------------------
(***************************************************************************)
(* Theorems about VpnServer, for every set of addresses and threads, every *)
(* cap, rate and burst.                                                    *)
(***************************************************************************)
EXTENDS VpnServer, FiniteSetTheorems, SequenceTheorems, TLAPS

-----------------------------------------------------------------------------
(***************************************************************************)
(* Type correctness.                                                       *)
(***************************************************************************)
NotAhead == \A i \in IP : refilled[i] <= clock

TypeInv == TypeOK /\ ServesAddress /\ NotAhead

\* BucketCapacity is a number, so are the credits of a bucket, between 0 and
\* the capacity: what consume works with never leaves the bucket's range.
LEMMA RefilledType ==
  ASSUME TypeInv, NEW i \in IP
  PROVE  /\ BucketCapacity \in Nat
         /\ Refilled(i) \in 0..BucketCapacity
         /\ Refilled(i) <= tokens[i] + (clock - refilled[i]) * Rate
         /\ \/ Refilled(i) = BucketCapacity
            \/ Refilled(i) = tokens[i] + (clock - refilled[i]) * Rate
<1>1. BucketCapacity \in Nat
  BY RateAssumption DEF BucketCapacity
<1>2. /\ tokens[i] \in 0..BucketCapacity
      /\ clock \in Nat /\ refilled[i] \in Nat
      /\ refilled[i] <= clock
  BY TimeAssumption DEF TypeInv, TypeOK, LimiterTypeOK, NotAhead
<1>3. (clock - refilled[i]) * Rate \in Nat
  <2>1. clock - refilled[i] \in Nat
    BY <1>2
  <2>2. QED
    BY <2>1, RateAssumption
<1>. DEFINE gain == (clock - refilled[i]) * Rate
<1>4. gain \in Nat
  BY <1>3
<1>5. Refilled(i) = IF tokens[i] + gain < BucketCapacity
                      THEN tokens[i] + gain ELSE BucketCapacity
  BY DEF Refilled
<1>. HIDE DEF gain
<1>6. /\ Refilled(i) \in 0..BucketCapacity
      /\ Refilled(i) <= tokens[i] + gain
      /\ Refilled(i) = BucketCapacity \/ Refilled(i) = tokens[i] + gain
  BY <1>1, <1>2, <1>4, <1>5
<1>. QED
  BY <1>1, <1>6 DEF gain

\* Setting the refill time of a bucket to the present keeps NotAhead.
LEMMA RefillNow ==
  ASSUME TypeInv, NEW k, clock' = clock, refilled' = [refilled EXCEPT ![k] = clock]
  PROVE  NotAhead'
<1>1. clock \in Int /\ refilled \in [IP -> Int]
  BY TimeAssumption DEF TypeInv, TypeOK, LimiterTypeOK
<1>. SUFFICES ASSUME NEW i \in IP PROVE refilled'[i] <= clock'
  BY DEF NotAhead
<1>2. refilled'[i] = IF i = k THEN clock ELSE refilled[i]
  BY <1>1
<1>. QED
  BY <1>1, <1>2 DEF TypeInv, NotAhead

LEMMA TypeInit == Init => TypeInv
<1>1. BucketCapacity \in Nat
  BY RateAssumption DEF BucketCapacity
<1>2. ASSUME Init PROVE LimiterTypeOK /\ NotAhead
  BY <1>1, <1>2, TimeAssumption DEF Init, LimiterInit, LimiterTypeOK, NotAhead
<1>3. ASSUME Init PROVE networks \subseteq Network
  BY <1>3, FileAssumption DEF Init, Loaded
<1>4. ASSUME Init PROVE ServesAddress
  BY <1>4 DEF Init, ServesAddress
<1>. QED
  BY <1>2, <1>3, <1>4 DEF Init, TypeInv, TypeOK, Label

LEMMA TypeStep == TypeInv /\ [Next]_vars => TypeInv'
<1>. SUFFICES ASSUME TypeInv, [Next]_vars
              PROVE  TypeInv'
  OBVIOUS
<1>. USE DEF TypeInv
<1>. USE TimeAssumption
<1>1. CASE Tick
  BY <1>1 DEF Tick, TypeOK, LimiterTypeOK, ServesAddress, NotAhead,
     limiterVars, bucketVars, accessVars, connVars
<1>2. ASSUME NEW f \in WhitelistFile, EditWhitelist(f)
      PROVE  TypeInv'
  BY <1>2 DEF EditWhitelist, TypeOK, LimiterTypeOK, ServesAddress, NotAhead,
     limiterVars, bucketVars, connVars
<1>3. ASSUME NEW t \in Thread, PeerSends(t)
      PROVE  TypeInv'
  <2>1. PICK f \in Frame : PeerSend(t, f)
    BY <1>3 DEF PeerSends
  <2>2. inbox' \in [Thread -> Seq(Frame)]
    BY <2>1 DEF PeerSend, TypeOK
  <2>. QED
    BY <2>1, <2>2 DEF PeerSend, TypeOK, LimiterTypeOK, ServesAddress, NotAhead,
       limiterVars, bucketVars, accessVars
<1>4. ASSUME NEW t \in Thread, PeerClose(t)
      PROVE  TypeInv'
  BY <1>4 DEF PeerClose, TypeOK, LimiterTypeOK, ServesAddress, NotAhead,
     limiterVars, bucketVars, accessVars
<1>5. ASSUME NEW t \in Thread, NEW i \in IP, Accept(t, i)
      PROVE  TypeInv'
  BY <1>5 DEF Accept, Step, TypeOK, LimiterTypeOK, ServesAddress, NotAhead,
     limiterVars, bucketVars, accessVars, Label
<1>6. ASSUME NEW t \in Thread,
             \/ CheckAccess(t) \/ Deny(t) \/ HandshakeOk(t) \/ HandshakeFails(t)
             \/ CheckIdle(t) \/ RecvDisconnect(t) \/ RecvTimeout(t)
             \/ Forward(t) \/ SendOk(t) \/ SendFails(t)
      PROVE  TypeInv'
  <2>1. /\ pc[t] # "free"
        /\ \E to \in Label \ {"free", "consume"} : pc' = [pc EXCEPT ![t] = to]
    BY <1>6 DEF CheckAccess, Deny, HandshakeOk, HandshakeFails, CheckIdle,
       RecvDisconnect, RecvTimeout, Forward, SendOk, SendFails, Step, Label
  <2>2. UNCHANGED <<clock, limiterVars, bucketVars, accessVars, connVars>>
    BY <1>6 DEF CheckAccess, Deny, HandshakeOk, HandshakeFails, CheckIdle,
       RecvDisconnect, RecvTimeout, Forward, SendOk, SendFails
  <2>. QED
    BY <2>1, <2>2 DEF TypeOK, LimiterTypeOK, ServesAddress, NotAhead,
       limiterVars, bucketVars, accessVars, connVars
<1>7. ASSUME NEW t \in Thread, Admit(t)
      PROVE  TypeInv'
  <2>1. ip[t] \in IP
    BY <1>7 DEF Admit, Step, ServesAddress
  <2>. QED
    BY <1>7, <2>1 DEF Admit, AddConnection, Step, TypeOK, LimiterTypeOK,
       ServesAddress, NotAhead, bucketVars, accessVars, connVars, Label
<1>8. ASSUME NEW t \in Thread, RecvRequest(t) \/ RecvOther(t) \/ RecvCorrupt(t)
      PROVE  TypeInv'
  <2>1. Tail(inbox[t]) \in Seq(Frame)
    BY <1>8 DEF RecvRequest, RecvOther, RecvCorrupt, Served, TypeOK
  <2>2. inbox' \in [Thread -> Seq(Frame)]
    BY <1>8, <2>1 DEF RecvRequest, RecvOther, RecvCorrupt, TypeOK
  <2>3. lastActivity' \in [IP -> {Never} \cup 0..MaxClock]
    BY <1>8 DEF RecvRequest, RecvOther, RecvCorrupt, Touch, TypeOK,
       LimiterTypeOK, limiterVars
  <2>4. /\ pc[t] # "free"
        /\ \E to \in Label \ {"free", "consume"} : pc' = [pc EXCEPT ![t] = to]
    BY <1>8 DEF RecvRequest, RecvOther, RecvCorrupt, Step, Label
  <2>5. UNCHANGED <<clock, connections, total, bucketVars, accessVars, ip, gone>>
    BY <1>8 DEF RecvRequest, RecvOther, RecvCorrupt, limiterVars
  <2>. QED
    BY <2>2, <2>3, <2>4, <2>5 DEF TypeOK, LimiterTypeOK, ServesAddress,
       NotAhead, bucketVars, accessVars
<1>9. ASSUME NEW t \in Thread, CheckRate(t)
      PROVE  TypeInv'
  <2>1. BucketCapacity \in Nat
    BY RateAssumption DEF BucketCapacity
  <2>2. ip[t] \in IP
    BY <1>9 DEF CheckRate, Step, ServesAddress
  <2>3. CASE ip[t] \in buckets
    BY <1>9, <2>2, <2>3 DEF CheckRate, LookupBucket, Step, TypeOK, LimiterTypeOK,
       ServesAddress, NotAhead, limiterVars, bucketVars, accessVars, connVars, Label
  <2>4. CASE ip[t] \notin buckets
    <3>1. /\ buckets' = buckets \cup {ip[t]}
          /\ tokens' = [tokens EXCEPT ![ip[t]] = BucketCapacity]
          /\ refilled' = [refilled EXCEPT ![ip[t]] = clock]
          /\ UNCHANGED <<clock, limiterVars, accessVars, connVars, grants>>
      BY <1>9, <2>4 DEF CheckRate, LookupBucket, CreateBucket
    <3>2. NotAhead'
      BY <3>1, RefillNow
    <3>3. LimiterTypeOK'
      BY <2>1, <2>2, <3>1 DEF TypeOK, LimiterTypeOK, limiterVars
    <3>. QED
      BY <1>9, <2>2, <3>1, <3>2, <3>3 DEF CheckRate, Step, TypeOK, ServesAddress,
         accessVars, connVars, Label
  <2>. QED
    BY <2>3, <2>4
<1>10. ASSUME NEW t \in Thread, TakeToken(t)
       PROVE  TypeInv'
  <2>1. PICK allowed \in BOOLEAN :
          /\ Step(t, "consume", IF allowed THEN "forward" ELSE "limited")
          /\ Consume(ip[t], allowed)
          /\ UNCHANGED <<clock, limiterVars, accessVars, connVars>>
    BY <1>10 DEF TakeToken
  <2>2. ip[t] \in IP
    BY <2>1 DEF Step, ServesAddress
  <2>3. /\ BucketCapacity \in Nat
        /\ Refilled(ip[t]) \in 0..BucketCapacity
    BY <2>2, RefilledType
  <2>4. tokens' \in [IP -> 0..BucketCapacity]
    <3>1. allowed => Refilled(ip[t]) >= Cost
      BY <2>1 DEF Consume
    <3>2. (IF allowed THEN Refilled(ip[t]) - Cost ELSE Refilled(ip[t]))
            \in 0..BucketCapacity
      BY <2>3, <3>1, RateAssumption
    <3>. QED
      BY <2>1, <3>2 DEF Consume, TypeOK, LimiterTypeOK
  <2>5. /\ refilled' \in [IP -> 0..MaxClock]
        /\ grants' \in [IP -> Seq(0..MaxClock)]
        /\ buckets' = buckets
        /\ NotAhead'
    <3>1. grants' = [grants EXCEPT ![ip[t]] = IF allowed THEN Append(@, clock)
                                                         ELSE @]
      BY <2>1 DEF Consume
    <3>2. Append(grants[ip[t]], clock) \in Seq(0..MaxClock)
      BY <2>2, AppendProperties DEF TypeOK, LimiterTypeOK
    <3>3. grants' \in [IP -> Seq(0..MaxClock)]
      BY <3>1, <3>2 DEF TypeOK, LimiterTypeOK
    <3>4. refilled' = [refilled EXCEPT ![ip[t]] = clock] /\ clock' = clock
      BY <2>1 DEF Consume
    <3>5. refilled' \in [IP -> 0..MaxClock]
      BY <3>4 DEF TypeOK, LimiterTypeOK
    <3>6. NotAhead'
      BY <3>4, RefillNow
    <3>. QED
      BY <2>1, <3>3, <3>5, <3>6 DEF Consume
  <2>. QED
    BY <2>1, <2>4, <2>5 DEF Step, TypeOK, LimiterTypeOK, ServesAddress,
       limiterVars, accessVars, connVars, Label
<1>11. ASSUME NEW t \in Thread, Release(t)
       PROVE  TypeInv'
  <2>1. /\ connections' \in [IP -> Nat]
        /\ total' \in Nat
    BY <1>11 DEF Release, RemoveConnection, Step, ServesAddress, TypeOK, LimiterTypeOK
  <2>. QED
    BY <1>11, <2>1 DEF Release, RemoveConnection, Step, TypeOK, LimiterTypeOK,
       ServesAddress, NotAhead, bucketVars, accessVars, connVars, Label
<1>12. ASSUME NEW t \in Thread, Close(t)
       PROVE  TypeInv'
  BY <1>12 DEF Close, Step, TypeOK, LimiterTypeOK, ServesAddress, NotAhead,
     limiterVars, bucketVars, accessVars, Label
<1>13. CASE UNCHANGED vars
  BY <1>13 DEF vars, TypeOK, LimiterTypeOK, ServesAddress, NotAhead,
     limiterVars, bucketVars, accessVars, connVars
<1>. QED
  BY <1>1, <1>2, <1>3, <1>4, <1>5, <1>6, <1>7, <1>8, <1>9, <1>10, <1>11, <1>12,
     <1>13 DEF Next, Handle, Receive

\* Every reachable state is well typed: counters and balances stay in range.
THEOREM TypeCorrect == Spec => []TypeOK
<1>1. Spec => []TypeInv
  BY TypeInit, TypeStep, PTL DEF Spec
<1>. QED
  BY <1>1, PTL DEF TypeInv

-----------------------------------------------------------------------------
(***************************************************************************)
(* Slots: accounting, caps, and the refinement of SlotPool.  Every step    *)
(* but Admit and Release leaves the holders alone.                         *)
(***************************************************************************)
SlotsKept == \A u \in Thread : /\ Holding(u)' <=> Holding(u)
                               /\ Holding(u) => ip'[u] = ip[u]

\* The steps that are quiet for the slots, and what the two others do.
SlotStep ==
  \/ SlotsKept /\ UNCHANGED <<connections, total>>
  \/ \E t \in Thread : Admit(t) \/ Release(t)

LEMMA SlotSteps == TypeInv /\ [Next]_vars => SlotStep
<1>. SUFFICES ASSUME TypeInv, [Next]_vars
              PROVE  SlotStep
  OBVIOUS
<1>1. CASE Tick \/ UNCHANGED vars \/ \E f \in WhitelistFile : EditWhitelist(f)
  BY <1>1 DEF Tick, EditWhitelist, vars, limiterVars, connVars,
     SlotStep, SlotsKept, Holding, Serving
<1>2. ASSUME NEW t \in Thread, PeerSends(t) \/ PeerClose(t)
      PROVE  SlotStep
  BY <1>2 DEF PeerSends, PeerSend, PeerClose, limiterVars,
     SlotStep, SlotsKept, Holding, Serving
<1>3. ASSUME NEW t \in Thread, NEW i \in IP, Accept(t, i)
      PROVE  SlotStep
  BY <1>3 DEF Accept, Step, limiterVars, TypeInv, TypeOK,
     SlotStep, SlotsKept, Holding, Serving
<1>4. ASSUME NEW t \in Thread, Close(t)
      PROVE  SlotStep
  BY <1>4 DEF Close, Step, limiterVars, TypeInv, TypeOK,
     SlotStep, SlotsKept, Holding, Serving
<1>5. ASSUME NEW t \in Thread, CheckAccess(t) \/ Deny(t)
      PROVE  SlotStep
  <2>1. /\ pc[t] \in {"check", "admit"}
        /\ \E to \in {"admit", "close"} : pc' = [pc EXCEPT ![t] = to]
        /\ UNCHANGED <<connections, total, ip>>
    BY <1>5 DEF CheckAccess, Deny, Step, limiterVars, connVars
  <2>. QED
    BY <2>1 DEF TypeInv, TypeOK, SlotStep, SlotsKept, Holding, Serving
<1>6. ASSUME NEW t \in Thread,
             \/ HandshakeOk(t) \/ HandshakeFails(t) \/ CheckIdle(t)
             \/ Receive(t) \/ CheckRate(t) \/ TakeToken(t)
             \/ Forward(t) \/ SendOk(t) \/ SendFails(t)
      PROVE  SlotStep
  <2>. DEFINE Held == {"handshake", "loop", "recv", "rate", "consume",
                       "limited", "forward", "reply", "release"}
  <2>1. /\ pc[t] \in Held
        /\ \E to \in Held : pc' = [pc EXCEPT ![t] = to]
    BY <1>6 DEF HandshakeOk, HandshakeFails, CheckIdle, Receive, RecvRequest,
       RecvOther, RecvCorrupt, RecvDisconnect, RecvTimeout, CheckRate,
       TakeToken, Forward, SendOk, SendFails, Step
  <2>2. UNCHANGED <<connections, total, ip>>
    BY <1>6 DEF HandshakeOk, HandshakeFails, CheckIdle, Receive, RecvRequest,
       RecvOther, RecvCorrupt, RecvDisconnect, RecvTimeout, CheckRate,
       TakeToken, Forward, SendOk, SendFails, limiterVars, connVars
  <2>3. \A u \in Thread : Holding(u)' <=> Holding(u)
    BY <2>1 DEF TypeInv, TypeOK, Holding, Serving
  <2>. QED
    BY <2>2, <2>3 DEF SlotStep, SlotsKept
<1>7. ASSUME NEW t \in Thread, Admit(t) \/ Release(t)
      PROVE  SlotStep
  BY <1>7 DEF SlotStep
<1>. QED
  BY <1>1, <1>2, <1>3, <1>4, <1>5, <1>6, <1>7 DEF Next, Handle

LEMMA HoldersFinite == IsFiniteSet(Holders) /\ \A i : IsFiniteSet(HoldersOf(i))
BY ThreadAssumption, FS_Subset DEF Holders, HoldersOf

LEMMA HoldersKept ==
  ASSUME SlotsKept
  PROVE  Holders' = Holders /\ \A i : HoldersOf(i)' = HoldersOf(i)
BY DEF SlotsKept, Holders, HoldersOf

LEMMA AdmitHolders ==
  ASSUME TypeInv, NEW t \in Thread, Admit(t)
  PROVE  /\ t \notin Holders
         /\ Holders' = Holders \cup {t}
         /\ ip' = ip /\ ip[t] \in IP
         /\ \A i : HoldersOf(i)' = IF i = ip[t] THEN HoldersOf(i) \cup {t}
                                               ELSE HoldersOf(i)
<1>1. /\ pc[t] = "admit" /\ pc' = [pc EXCEPT ![t] = "handshake"] /\ ip' = ip
      /\ pc \in [Thread -> Label]
  BY DEF Admit, Step, connVars, TypeInv, TypeOK
<1>2. t \notin Holders /\ Holders' = Holders \cup {t}
  BY <1>1 DEF Holders, Holding, Serving
<1>3. ip[t] \in IP
  BY <1>1 DEF TypeInv, ServesAddress
<1>. QED
  BY <1>1, <1>2, <1>3 DEF HoldersOf

LEMMA ReleaseHolders ==
  ASSUME TypeInv, NEW t \in Thread, Release(t)
  PROVE  /\ t \in Holders
         /\ Holders' = Holders \ {t}
         /\ ip' = ip /\ ip[t] \in IP
         /\ \A i : HoldersOf(i)' = IF i = ip[t] THEN HoldersOf(i) \ {t}
                                               ELSE HoldersOf(i)
<1>1. /\ pc[t] = "release" /\ pc' = [pc EXCEPT ![t] = "close"] /\ ip' = ip
      /\ pc \in [Thread -> Label]
  BY DEF Release, Step, connVars, TypeInv, TypeOK
<1>2. t \in Holders /\ Holders' = Holders \ {t}
  BY <1>1 DEF Holders, Holding, Serving
<1>3. ip[t] \in IP
  BY <1>1 DEF TypeInv, ServesAddress
<1>. QED
  BY <1>1, <1>2, <1>3 DEF HoldersOf

SlotInv == TypeInv /\ SlotAccounting /\ CapsRespected

LEMMA SlotInit == Init => SlotInv
<1>. SUFFICES ASSUME Init PROVE SlotAccounting /\ CapsRespected
  BY TypeInit DEF SlotInv
<1>1. Holders = {} /\ \A i : HoldersOf(i) = {}
  BY DEF Init, Holders, HoldersOf, Holding, Serving
<1>2. Cardinality(Holders) = 0 /\ \A i : Cardinality(HoldersOf(i)) = 0
  BY <1>1, FS_EmptySet
<1>3. SlotAccounting
  BY <1>2 DEF Init, LimiterInit, SlotAccounting
<1>4. CapsRespected
  BY <1>2, CapsAssumption DEF CapsRespected
<1>. QED
  BY <1>3, <1>4

LEMMA SlotInvStep == SlotInv /\ [Next]_vars => SlotInv'
<1>. SUFFICES ASSUME SlotInv, [Next]_vars
              PROVE  SlotAccounting' /\ CapsRespected'
  BY TypeStep DEF SlotInv
<1>1. TypeInv /\ SlotStep
  BY SlotSteps DEF SlotInv
<1>2. CASE SlotsKept /\ UNCHANGED <<connections, total>>
  BY <1>2, HoldersKept DEF SlotInv, SlotAccounting, CapsRespected
<1>3. ASSUME NEW t \in Thread, Admit(t)
      PROVE  SlotAccounting' /\ CapsRespected'
  <2>. PICK i \in IP : i = ip[t]
    BY <1>1, <1>3, AdmitHolders
  <2>1. /\ t \notin Holders /\ t \notin HoldersOf(i)
        /\ Holders' = Holders \cup {t}
        /\ HoldersOf(i)' = HoldersOf(i) \cup {t}
        /\ \A k \in IP \ {i} : HoldersOf(k)' = HoldersOf(k)
    BY <1>1, <1>3, AdmitHolders DEF HoldersOf
  <2>2. /\ Cardinality(Holders') = Cardinality(Holders) + 1
        /\ Cardinality(HoldersOf(i)') = Cardinality(HoldersOf(i)) + 1
    BY <2>1, HoldersFinite, FS_AddElement
  <2>3. /\ total < MaxTotal /\ connections[i] < MaxPerIp
        /\ total' = total + 1
        /\ connections' = [connections EXCEPT ![i] = @ + 1]
    BY <1>3 DEF Admit, BelowCaps, AddConnection
  <2>4. /\ total \in Nat /\ connections \in [IP -> Nat]
        /\ total = Cardinality(Holders)
        /\ \A k \in IP : connections[k] = Cardinality(HoldersOf(k))
        /\ \A k \in IP : Cardinality(HoldersOf(k)) <= MaxPerIp
    BY DEF SlotInv, TypeInv, TypeOK, LimiterTypeOK, SlotAccounting, CapsRespected
  <2>5. SlotAccounting'
    <3>1. total' = Cardinality(Holders')
      BY <2>2, <2>3, <2>4
    <3>2. ASSUME NEW k \in IP
          PROVE  connections'[k] = Cardinality(HoldersOf(k)')
      BY <2>1, <2>2, <2>3, <2>4
    <3>. QED
      BY <3>1, <3>2 DEF SlotAccounting
  <2>6. CapsRespected'
    <3>1. Cardinality(Holders') <= MaxTotal
      BY <2>2, <2>3, <2>4, CapsAssumption
    <3>2. ASSUME NEW k \in IP
          PROVE  Cardinality(HoldersOf(k)') <= MaxPerIp
      <4>1. CASE k = i
        BY <2>2, <2>3, <2>4, <4>1, CapsAssumption
      <4>2. CASE k # i
        BY <2>1, <2>4, <4>2
      <4>. QED
        BY <4>1, <4>2
    <3>. QED
      BY <3>1, <3>2 DEF CapsRespected
  <2>. QED
    BY <2>5, <2>6
<1>4. ASSUME NEW t \in Thread, Release(t)
      PROVE  SlotAccounting' /\ CapsRespected'
  <2>. PICK i \in IP : i = ip[t]
    BY <1>1, <1>4, ReleaseHolders
  <2>1. /\ t \in Holders /\ t \in HoldersOf(i)
        /\ Holders' = Holders \ {t}
        /\ HoldersOf(i)' = HoldersOf(i) \ {t}
        /\ \A k \in IP \ {i} : HoldersOf(k)' = HoldersOf(k)
    BY <1>1, <1>4, ReleaseHolders DEF HoldersOf
  <2>2. /\ Cardinality(Holders') = Cardinality(Holders) - 1
        /\ Cardinality(HoldersOf(i)') = Cardinality(HoldersOf(i)) - 1
    BY <2>1, HoldersFinite, FS_RemoveElement
  <2>3. /\ Cardinality(Holders') \in Nat
        /\ Cardinality(HoldersOf(i)') \in Nat
    BY <2>1, HoldersFinite, FS_CardinalityType, FS_RemoveElement
  <2>4. /\ total' = IF connections[i] > 0 /\ total > 0 THEN total - 1 ELSE total
        /\ connections' = [connections EXCEPT ![i] = IF @ > 0 THEN @ - 1 ELSE @]
    BY <1>4 DEF Release, RemoveConnection
  <2>5. /\ total \in Nat /\ connections \in [IP -> Nat]
        /\ total = Cardinality(Holders) /\ total <= MaxTotal
        /\ \A k \in IP : connections[k] = Cardinality(HoldersOf(k))
        /\ \A k \in IP : Cardinality(HoldersOf(k)) <= MaxPerIp
    BY DEF SlotInv, TypeInv, TypeOK, LimiterTypeOK, SlotAccounting, CapsRespected
  <2>6. total > 0 /\ connections[i] > 0
    BY <2>1, <2>2, <2>3, <2>5
  <2>7. SlotAccounting'
    <3>1. total' = Cardinality(Holders')
      BY <2>2, <2>4, <2>5, <2>6
    <3>2. ASSUME NEW k \in IP
          PROVE  connections'[k] = Cardinality(HoldersOf(k)')
      BY <2>1, <2>2, <2>4, <2>5, <2>6
    <3>. QED
      BY <3>1, <3>2 DEF SlotAccounting
  <2>8. CapsRespected'
    <3>1. Cardinality(Holders') <= MaxTotal
      BY <2>2, <2>5, CapsAssumption
    <3>2. ASSUME NEW k \in IP
          PROVE  Cardinality(HoldersOf(k)') <= MaxPerIp
      <4>1. CASE k = i
        BY <2>2, <2>5, <4>1, CapsAssumption
      <4>2. CASE k # i
        BY <2>1, <2>5, <4>2
      <4>. QED
        BY <4>1, <4>2
    <3>. QED
      BY <3>1, <3>2 DEF CapsRespected
  <2>. QED
    BY <2>7, <2>8
<1>. QED
  BY <1>1, <1>2, <1>3, <1>4 DEF SlotStep

LEMMA SlotInvariant == Spec => []SlotInv
BY SlotInit, SlotInvStep, PTL DEF Spec

\* No path through the handler leaks a slot or gives one back twice.
THEOREM SlotsAccounted == Spec => []SlotAccounting
BY SlotInvariant, PTL DEF SlotInv

\* Interleaved admissions never pass the caps of the configuration.
THEOREM CapsHold == Spec => []CapsRespected
BY SlotInvariant, PTL DEF SlotInv

\* The server implements the abstract pool: the holders of the pool are the
\* connections inside the inner try, and every step is a Pool step or stutters.
THEOREM ServerImplementsPool == Spec => PoolSpec
<1>1. Init => Pool!Init
  BY DEF Init, Pool!Init, owner, Holding, Serving
<1>2. SlotInv /\ [Next]_vars => [Pool!Next]_owner
  <2>. SUFFICES ASSUME SlotInv, [Next]_vars
                PROVE  [Pool!Next]_owner
    OBVIOUS
  <2>1. TypeInv /\ SlotStep
    BY SlotSteps DEF SlotInv
  <2>2. \A u \in Thread : Holding(u) => ip[u] \in IP
    BY <2>1 DEF TypeInv, ServesAddress, Holding, Serving
  <2>3. Pool!Held = Holders /\ \A i \in IP : Pool!HeldBy(i) = HoldersOf(i)
    BY <2>2, NoIpAssumption DEF Pool!Held, Pool!HeldBy, owner, Holders, HoldersOf
  <2>4. CASE SlotsKept /\ UNCHANGED <<connections, total>>
    BY <2>4 DEF SlotsKept, owner
  <2>5. ASSUME NEW t \in Thread, Admit(t)
        PROVE  Pool!Acquire(t, ip[t]) /\ ip[t] \in IP
    <3>1. /\ t \notin Holders
          /\ Holders' = Holders \cup {t}
          /\ ip' = ip /\ ip[t] \in IP
      BY <2>1, <2>5, AdmitHolders
    <3>2. owner[t] = NoIp /\ owner' = [owner EXCEPT ![t] = ip[t]]
      BY <3>1 DEF owner, Holders
    <3>3. /\ Cardinality(Pool!Held) < MaxTotal
          /\ Cardinality(Pool!HeldBy(ip[t])) < MaxPerIp
      BY <2>3, <2>5, <3>1 DEF Admit, BelowCaps, SlotInv, SlotAccounting
    <3>4. \A S : Pool!Cardinality(S) = Cardinality(S)
      BY DEF Pool!Cardinality, Cardinality
    <3>. QED
      BY <3>1, <3>2, <3>3, <3>4 DEF Pool!Acquire
  <2>6. ASSUME NEW t \in Thread, Release(t)
        PROVE  Pool!Release(t)
    <3>1. /\ t \in Holders
          /\ Holders' = Holders \ {t}
          /\ ip' = ip /\ ip[t] \in IP
      BY <2>1, <2>6, ReleaseHolders
    <3>2. owner[t] # NoIp /\ owner' = [owner EXCEPT ![t] = NoIp]
      BY <3>1, NoIpAssumption DEF owner, Holders
    <3>. QED
      BY <3>2 DEF Pool!Release
  <2>. QED
    BY <2>1, <2>4, <2>5, <2>6 DEF SlotStep, Pool!Next
<1>. QED
  BY <1>1, <1>2, SlotInvariant, PTL DEF Spec, PoolSpec, Pool!Spec
=============================================================================
