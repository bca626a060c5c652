------------------------- MODULE VpnServerRateProofs -------------------------
(***************************************************************************)
(* Theorems about the token bucket that the handler threads of an address  *)
(* share.  The argument: the balance of a bucket at its last refill is the *)
(* least slack of all windows of grants that end there, or the capacity.   *)
(* Time credits every window and the balance alike, a grant charges both.  *)
(***************************************************************************)
EXTENDS VpnServerProofs

RateInv == TypeInv /\ BucketInv /\ RateWindow

\* The numbers that one bucket is made of.
LEMMA BucketNumbers ==
  ASSUME TypeInv, NEW i \in IP
  PROVE  /\ clock \in Int /\ refilled[i] \in Int /\ refilled[i] <= clock
         /\ Len(grants[i]) \in Nat
         /\ \A j \in 1..Len(grants[i]) : grants[i][j] \in Int
<1>1. clock \in 0..MaxClock /\ refilled[i] \in 0..MaxClock
  BY DEF TypeInv, TypeOK, LimiterTypeOK
<1>2. grants[i] \in Seq(0..MaxClock)
  BY DEF TypeInv, TypeOK, LimiterTypeOK
<1>3. refilled[i] <= clock
  BY DEF TypeInv, NotAhead
<1>. QED
  BY <1>1, <1>2, <1>3, TimeAssumption

\* The steps that leave the buckets alone, and the two that do not.
BucketStep ==
  \/ UNCHANGED bucketVars /\ clock <= clock'
  \/ \E t \in Thread : CheckRate(t) \/ TakeToken(t)

LEMMA BucketSteps == TypeInv /\ [Next]_vars => BucketStep
<1>. SUFFICES ASSUME TypeInv, [Next]_vars
              PROVE  BucketStep
  OBVIOUS
<1>. clock \in Int
  BY TimeAssumption DEF TypeInv, TypeOK, LimiterTypeOK
<1>1. CASE Tick \/ UNCHANGED vars \/ \E f \in WhitelistFile : EditWhitelist(f)
  BY <1>1 DEF Tick, EditWhitelist, vars, BucketStep
<1>2. ASSUME NEW t \in Thread,
             \/ PeerSends(t) \/ PeerClose(t) \/ Forward(t)
             \/ CheckAccess(t) \/ Admit(t) \/ Deny(t)
             \/ HandshakeOk(t) \/ HandshakeFails(t) \/ CheckIdle(t) \/ Receive(t)
             \/ SendOk(t) \/ SendFails(t) \/ Release(t) \/ Close(t)
             \/ \E i \in IP : Accept(t, i)
      PROVE  UNCHANGED <<bucketVars, clock>>
  BY <1>2 DEF PeerSends, PeerSend, PeerClose, Forward, CheckAccess, Admit, Deny,
     HandshakeOk, HandshakeFails, CheckIdle, Receive, RecvRequest, RecvOther,
     RecvCorrupt, RecvDisconnect, RecvTimeout, SendOk, SendFails, Release,
     Close, Accept
<1>3. ASSUME NEW t \in Thread, CheckRate(t) \/ TakeToken(t)
      PROVE  BucketStep
  BY <1>3 DEF BucketStep
<1>. QED
  BY <1>1, <1>2, <1>3 DEF Next, Handle, BucketStep

\* Between two moments every window gains what a bucket gains.
LEMMA SlackGrows ==
  ASSUME TypeInv, NEW i \in IP, NEW j \in 1..Len(grants[i]),
         NEW past \in Int, NEW now \in Int
  PROVE  /\ Slack(i, j, past) \in Int
         /\ Slack(i, j, now) = Slack(i, j, past) + (now - past) * Rate
<1>1. grants[i][j] \in Int /\ Len(grants[i]) \in Nat /\ j \in Int
  BY TimeAssumption DEF TypeInv, TypeOK, LimiterTypeOK
<1>2. BucketCapacity \in Int /\ Rate \in Int /\ Cost \in Int
  BY RateAssumption DEF BucketCapacity
<1>. DEFINE g == grants[i][j]
            charge == (Len(grants[i]) - j + 1) * Cost
<1>3. g \in Int /\ charge \in Int
  BY <1>1, <1>2
<1>4. Slack(i, j, past) = BucketCapacity + Rate * (past - g) - charge
  BY DEF Slack
<1>5. Slack(i, j, now) = BucketCapacity + Rate * (now - g) - charge
  BY DEF Slack
<1>. HIDE DEF g, charge
<1>6. /\ Rate * (now - g) = Rate * (past - g) + (now - past) * Rate
      /\ Rate * (past - g) \in Int
      /\ (now - past) * Rate \in Int
  BY <1>2, <1>3
<1>. QED
  BY <1>2, <1>3, <1>4, <1>5, <1>6

\* What a refill leaves in the bucket: the invariant, moved to the present.
LEMMA RefilledSlack ==
  ASSUME TypeInv, BucketInv, NEW i \in IP, i \in buckets
  PROVE  /\ \A j \in 1..Len(grants[i]) : Refilled(i) <= Slack(i, j, clock)
         /\ \/ Refilled(i) = BucketCapacity
            \/ \E j \in 1..Len(grants[i]) : Refilled(i) = Slack(i, j, clock)
<1>1. /\ clock \in Int /\ refilled[i] \in Int /\ tokens[i] \in Int
      /\ clock - refilled[i] \in Nat
      /\ BucketCapacity \in Nat /\ tokens[i] <= BucketCapacity
  BY TimeAssumption, RefilledType DEF TypeInv, TypeOK, LimiterTypeOK, NotAhead
<1>. DEFINE gain == (clock - refilled[i]) * Rate
<1>2. gain \in Nat
  BY <1>1, RateAssumption
<1>3. /\ Refilled(i) \in Int
      /\ Refilled(i) <= tokens[i] + gain
      /\ Refilled(i) = BucketCapacity \/ Refilled(i) = tokens[i] + gain
      /\ Refilled(i) <= BucketCapacity
  BY RefilledType
<1>4. ASSUME NEW j \in 1..Len(grants[i])
      PROVE  /\ Slack(i, j, refilled[i]) \in Int
             /\ Slack(i, j, clock) = Slack(i, j, refilled[i]) + gain
  BY <1>1, SlackGrows
<1>5. Refilled(i) = tokens[i] + gain /\ tokens[i] = BucketCapacity
        => Refilled(i) = BucketCapacity
  BY <1>1, <1>2, <1>3
<1>. HIDE DEF gain
<1>6. ASSUME NEW j \in 1..Len(grants[i])
      PROVE  Refilled(i) <= Slack(i, j, clock)
  <2>1. tokens[i] <= Slack(i, j, refilled[i])
    BY DEF BucketInv
  <2>. QED
    BY <1>1, <1>2, <1>3, <1>4, <2>1
<1>7. CASE Refilled(i) = tokens[i] + gain
  <2>1. CASE tokens[i] = BucketCapacity
    BY <1>5, <1>6, <1>7, <2>1
  <2>2. CASE \E j \in 1..Len(grants[i]) : tokens[i] = Slack(i, j, refilled[i])
    BY <1>4, <1>6, <1>7, <2>2
  <2>. QED
    BY <2>1, <2>2 DEF BucketInv
<1>. QED
  BY <1>3, <1>6, <1>7

LEMMA RateInit == Init => RateInv
<1>. SUFFICES ASSUME Init PROVE BucketInv /\ RateWindow
  BY TypeInit DEF RateInv
<1>1. \A i \in IP : grants[i] = <<>> /\ i \notin buckets
  BY DEF Init, LimiterInit
<1>2. \A i \in IP : Len(grants[i]) = 0
  BY <1>1, TypeInit, EmptySeq DEF TypeInv, TypeOK, LimiterTypeOK
<1>3. \A i \in IP : 1..Len(grants[i]) = {}
  <2>1. 1..0 = {}
    OBVIOUS
  <2>. QED
    BY <1>2, <2>1
<1>. QED
  BY <1>1, <1>3, TypeInit DEF BucketInv, RateWindow, TypeInv, NotAhead

\* A step that leaves the buckets alone keeps what is known of them.
LEMMA SameBuckets ==
  ASSUME RateInv, TypeInv', UNCHANGED bucketVars
  PROVE  BucketInv' /\ RateWindow'
<1>1. RateWindow'
  BY DEF RateInv, RateWindow, bucketVars, BucketCapacity
<1>2. ServesAddress' /\ NotAhead'
  BY DEF TypeInv
<1>. QED
  BY <1>1, <1>2 DEF RateInv, BucketInv, Slack, bucketVars, NotAhead, BucketCapacity

LEMMA CheckRateKeeps ==
  ASSUME RateInv, TypeInv', NEW t \in Thread, CheckRate(t)
  PROVE  BucketInv' /\ RateWindow'
<1>1. /\ ip[t] \in IP /\ clock' = clock /\ grants' = grants
      /\ LookupBucket(ip[t])
  BY DEF CheckRate, LookupBucket, CreateBucket, bucketVars, Step,
     RateInv, TypeInv, ServesAddress
<1>2. RateWindow'
  BY <1>1 DEF RateInv, RateWindow
<1>3. CASE ip[t] \in buckets
  BY <1>1, <1>3, SameBuckets DEF LookupBucket
<1>4. CASE ip[t] \notin buckets
  <2>1. PICK i \in IP : i = ip[t]
    BY <1>1
  <2>2. /\ grants[i] = <<>> /\ 1..Len(grants[i]) = {}
    <3>1. grants[i] = <<>>
      BY <1>4, <2>1 DEF RateInv, BucketInv
    <3>. QED
      BY <3>1
  <2>3. /\ tokens' = [tokens EXCEPT ![i] = BucketCapacity]
        /\ refilled' = [refilled EXCEPT ![i] = clock]
        /\ buckets' = buckets \cup {i}
    BY <1>1, <1>4, <2>1 DEF LookupBucket, CreateBucket
  <2>4. /\ tokens'[i] = BucketCapacity
        /\ \A k \in IP \ {i} : /\ tokens'[k] = tokens[k]
                                /\ refilled'[k] = refilled[k]
                                /\ k \in buckets' <=> k \in buckets
    BY <2>3 DEF RateInv, TypeInv, TypeOK, LimiterTypeOK
  <2>5. ServesAddress' /\ NotAhead'
    BY DEF TypeInv
  <2>. QED
    BY <1>1, <1>2, <2>2, <2>3, <2>4, <2>5
       DEF RateInv, BucketInv, NotAhead, Slack
<1>. QED
  BY <1>2, <1>3, <1>4

LEMMA TakeTokenKeeps ==
  ASSUME RateInv, TypeInv', NEW t \in Thread, TakeToken(t)
  PROVE  BucketInv' /\ RateWindow'
<1>1. PICK allowed \in BOOLEAN, i \in IP :
        /\ i = ip[t] /\ i \in buckets /\ Consume(i, allowed) /\ clock' = clock
  BY DEF TakeToken, Step, RateInv, TypeInv, ServesAddress
<1>. DEFINE now == clock
            n == Len(grants[i])
<1>2. /\ now \in Int /\ n \in Nat /\ BucketCapacity \in Nat
      /\ Cost \in Nat /\ Rate \in Nat
      /\ Refilled(i) \in 0..BucketCapacity
      /\ \A j \in 1..n : /\ grants[i][j] \in Int
                          /\ grants[i][j] <= now
    <2>1. /\ refilled[i] \in Int /\ refilled[i] <= clock /\ clock \in Int
          /\ n \in Nat /\ \A j \in 1..n : grants[i][j] \in Int
      BY <1>1, BucketNumbers DEF RateInv
    <2>2. \A j \in 1..n : grants[i][j] <= refilled[i]
      BY DEF RateInv, BucketInv
    <2>. QED
      BY <2>1, <2>2, RefilledType, RateAssumption DEF RateInv
<1>3. /\ \A j \in 1..n : Refilled(i) <= Slack(i, j, now)
      /\ \/ Refilled(i) = BucketCapacity
         \/ \E j \in 1..n : Refilled(i) = Slack(i, j, now)
  BY <1>1, RefilledSlack DEF RateInv
<1>4. \A j \in 1..n : Slack(i, j, now) \in Int
  BY <1>2, SlackGrows DEF RateInv
<1>5. /\ buckets' = buckets /\ refilled'[i] = now
      /\ tokens'[i] = IF allowed THEN Refilled(i) - Cost ELSE Refilled(i)
      /\ grants'[i] = IF allowed THEN Append(grants[i], now) ELSE grants[i]
      /\ \A k \in IP \ {i} : /\ tokens'[k] = tokens[k]
                              /\ refilled'[k] = refilled[k]
                              /\ grants'[k] = grants[k]
  BY <1>1 DEF Consume, RateInv, TypeInv, TypeOK, LimiterTypeOK
<1>6. ServesAddress' /\ NotAhead' /\ tokens'[i] >= 0
  BY <1>1 DEF TypeInv, TypeOK, LimiterTypeOK
<1>. DEFINE NewSlack(j) == BucketCapacity + Rate * (now - grants'[i][j])
                             - (Len(grants'[i]) - j + 1) * Cost
            Good == /\ \A j \in 1..Len(grants'[i]) :
                         /\ grants'[i][j] <= now
                         /\ tokens'[i] <= NewSlack(j)
                    /\ \/ tokens'[i] = BucketCapacity
                       \/ \E j \in 1..Len(grants'[i]) : tokens'[i] = NewSlack(j)
                    /\ \A j, k \in 1..Len(grants'[i]) :
                         j <= k => (k - j + 1) * Cost
                           <= BucketCapacity + Rate * (grants'[i][k] - grants'[i][j])
<1>7. ASSUME allowed PROVE Good
  <2>1. /\ grants'[i] = Append(grants[i], now) /\ Len(grants'[i]) = n + 1
        /\ grants'[i][n + 1] = now
        /\ \A j \in 1..n : grants'[i][j] = grants[i][j]
    <3>1. grants[i] \in Seq(0..MaxClock) /\ now \in 0..MaxClock
      BY DEF RateInv, TypeInv, TypeOK, LimiterTypeOK
    <3>. QED
      BY <1>5, <1>7, <3>1, AppendProperties
  <2>2. ASSUME NEW j \in 1..n
        PROVE  NewSlack(j) = Slack(i, j, now) - Cost
    <3>. DEFINE credit == Rate * (now - grants[i][j])
    <3>1. credit \in Int /\ j \in Int
      BY <1>2
    <3>2. NewSlack(j) = BucketCapacity + credit - (n + 1 - j + 1) * Cost
      BY <2>1
    <3>3. Slack(i, j, now) = BucketCapacity + credit - (n - j + 1) * Cost
      BY DEF Slack
    <3>. HIDE DEF credit, n, NewSlack
    <3>4. (n + 1 - j + 1) * Cost = (n - j + 1) * Cost + Cost
          /\ (n - j + 1) * Cost \in Int
      BY <1>2, <3>1
    <3>. QED
      BY <1>2, <3>1, <3>2, <3>3, <3>4
  <2>3. NewSlack(n + 1) = BucketCapacity - Cost
    <3>1. now - now = 0 /\ (n + 1) - (n + 1) + 1 = 1
      BY <1>2
    <3>2. NewSlack(n + 1) = BucketCapacity + Rate * (now - now)
                              - ((n + 1) - (n + 1) + 1) * Cost
      BY <2>1
    <3>3. NewSlack(n + 1) = BucketCapacity + Rate * 0 - 1 * Cost
      BY <3>1, <3>2
    <3>. HIDE DEF NewSlack
    <3>. QED
      BY <1>2, <3>3
  <2>4. tokens'[i] = Refilled(i) - Cost /\ tokens'[i] >= 0
    BY <1>5, <1>6, <1>7
  <2>5. ASSUME NEW j \in 1..(n + 1)
        PROVE  grants'[i][j] <= now /\ tokens'[i] <= NewSlack(j)
    <3>. HIDE DEF now, NewSlack
    <3>1. CASE j = n + 1
      BY <1>2, <2>1, <2>3, <2>4, <3>1
    <3>2. CASE j \in 1..n
      BY <1>2, <1>3, <1>4, <2>1, <2>2, <2>4, <3>2
    <3>. QED
      BY <1>2, <3>1, <3>2
  <2>6. \/ tokens'[i] = BucketCapacity
        \/ \E j \in 1..(n + 1) : tokens'[i] = NewSlack(j)
    <3>. HIDE DEF now, NewSlack
    <3>1. CASE Refilled(i) = BucketCapacity
      BY <1>2, <2>3, <2>4, <3>1
    <3>2. CASE \E j \in 1..n : Refilled(i) = Slack(i, j, now)
      BY <1>2, <2>2, <2>4, <3>2
    <3>. QED
      BY <1>3, <3>1, <3>2
  <2>7. ASSUME NEW j \in 1..(n + 1), NEW k \in 1..(n + 1), j <= k
        PROVE  (k - j + 1) * Cost
                 <= BucketCapacity + Rate * (grants'[i][k] - grants'[i][j])
    <3>1. CASE k \in 1..n
      BY <1>2, <2>1, <2>7, <3>1 DEF RateInv, RateWindow
    <3>2. CASE k = n + 1
      <4>. DEFINE credit == Rate * (now - grants'[i][j])
                  charge == ((n + 1) - j + 1) * Cost
      <4>1. grants'[i][j] \in Int
        BY <1>2, <2>1
      <4>2. credit \in Int /\ charge \in Int
        BY <1>2, <4>1
      <4>3. NewSlack(j) = BucketCapacity + credit - charge
        BY <2>1
      <4>4. NewSlack(j) >= 0
        <5>. HIDE DEF NewSlack, credit, charge
        <5>. QED
          BY <1>2, <2>4, <2>5, <4>2, <4>3
      <4>. HIDE DEF NewSlack, credit, charge
      <4>5. charge <= BucketCapacity + credit
        BY <1>2, <4>2, <4>3, <4>4
      <4>. QED
        BY <2>1, <3>2, <4>5 DEF credit, charge
    <3>. QED
      BY <1>2, <3>1, <3>2
  <2>. QED
    BY <2>1, <2>5, <2>6, <2>7
<1>8. ASSUME ~allowed PROVE Good
  <2>1. grants'[i] = grants[i] /\ tokens'[i] = Refilled(i)
    BY <1>5, <1>8
  <2>2. \A j \in 1..n : NewSlack(j) = Slack(i, j, now)
    BY <2>1 DEF Slack
  <2>3. \A j, k \in 1..n :
          j <= k => (k - j + 1) * Cost
                      <= BucketCapacity + Rate * (grants'[i][k] - grants'[i][j])
    BY <2>1 DEF RateInv, RateWindow
  <2>. HIDE DEF NewSlack
  <2>. QED
    BY <1>2, <1>3, <2>1, <2>2, <2>3
<1>9. Good
  BY <1>7, <1>8
<1>10. RateWindow'
  BY <1>5, <1>9 DEF RateInv, RateWindow, BucketCapacity
<1>11. BucketInv'
  <2>1. ASSUME NEW k \in IP \ {i}
        PROVE  /\ k \notin buckets' => grants'[k] = <<>>
               /\ \A j \in 1..Len(grants'[k]) :
                    /\ grants'[k][j] <= refilled'[k]
                    /\ tokens'[k] <= Slack(k, j, refilled[k])'
               /\ k \in buckets' =>
                    \/ tokens'[k] = BucketCapacity
                    \/ \E j \in 1..Len(grants'[k]) :
                         tokens'[k] = Slack(k, j, refilled[k])'
    BY <1>5 DEF RateInv, BucketInv, Slack, BucketCapacity
  <2>2. i \in buckets'
    BY <1>1, <1>5
  <2>3. \A j \in 1..Len(grants'[i]) : NewSlack(j) = Slack(i, j, refilled[i])'
    BY <1>5 DEF Slack
  <2>. HIDE DEF NewSlack
  <2>. QED
    BY <1>5, <1>6, <1>9, <2>1, <2>2, <2>3 DEF BucketInv, NotAhead
<1>. QED
  BY <1>10, <1>11

LEMMA RateInvStep == RateInv /\ [Next]_vars => RateInv'
<1>. SUFFICES ASSUME RateInv, [Next]_vars
              PROVE  BucketInv' /\ RateWindow'
  BY TypeStep DEF RateInv
<1>1. BucketStep /\ TypeInv'
  BY BucketSteps, TypeStep DEF RateInv
<1>2. CASE UNCHANGED bucketVars /\ clock <= clock'
  BY <1>1, <1>2, SameBuckets
<1>. QED
  BY <1>1, <1>2, CheckRateKeeps, TakeTokenKeeps DEF BucketStep

LEMMA RateInvariant == Spec => []RateInv
BY RateInit, RateInvStep, PTL DEF Spec

\* Whatever connections an address spreads its requests over, no window of
\* granted requests exceeds a full bucket and what the time in it paid for.
THEOREM RateWindowHolds == Spec => []RateWindow
BY RateInvariant, PTL DEF RateInv

\* The balance of every bucket is exactly what its fullest window leaves.
THEOREM BucketExact == Spec => []BucketInv
BY RateInvariant, PTL DEF RateInv

LEMMA OnlyTakeTokenLimits ==
  ASSUME Next
  PROVE  \/ UNCHANGED pc
         \/ \E u \in Thread : TakeToken(u)
         \/ \E u \in Thread, to \in Label \ {"limited"} : pc' = [pc EXCEPT ![u] = to]
<1>1. CASE Tick \/ \E f \in WhitelistFile : EditWhitelist(f)
  BY <1>1 DEF Tick, EditWhitelist
<1>2. ASSUME NEW u \in Thread, PeerSends(u) \/ PeerClose(u)
      PROVE  UNCHANGED pc
  BY <1>2 DEF PeerSends, PeerSend, PeerClose
<1>3. ASSUME NEW u \in Thread,
             \/ Forward(u) \/ CheckAccess(u) \/ Admit(u) \/ Deny(u)
             \/ HandshakeOk(u) \/ HandshakeFails(u) \/ CheckIdle(u) \/ Receive(u)
             \/ CheckRate(u) \/ SendOk(u) \/ SendFails(u) \/ Release(u) \/ Close(u)
             \/ \E i \in IP : Accept(u, i)
      PROVE  \E to \in Label \ {"limited"} : pc' = [pc EXCEPT ![u] = to]
  BY <1>3 DEF Forward, CheckAccess, Admit, Deny, HandshakeOk, HandshakeFails,
     CheckIdle, Receive, RecvRequest, RecvOther, RecvCorrupt, RecvDisconnect,
     RecvTimeout, CheckRate, SendOk, SendFails, Release, Close, Accept, Step, Label
<1>. QED
  BY <1>1, <1>2, <1>3 DEF Next, Handle

\* A request is refused only when some window is full: the two locks of
\* check_rate never cost a client a token it was owed.
THEOREM RefusalsJustified == Spec => RefusedOnlyWhenSpent
<1>. DEFINE Justified == \A t \in Thread : Refused(t) =>
              \/ BucketCapacity < Cost
              \/ LET g == grants[ip[t]]
                 IN  \E j \in 1..Len(g) : (Len(g) - j + 2) * Cost
                        > BucketCapacity + Rate * (clock - g[j])
<1>1. RateInv /\ [Next]_vars => [Justified]_vars
  <2>. SUFFICES ASSUME RateInv, Next, NEW t \in Thread, Refused(t)
                PROVE  \/ BucketCapacity < Cost
                       \/ \E j \in 1..Len(grants[ip[t]]) :
                            (Len(grants[ip[t]]) - j + 2) * Cost
                              > BucketCapacity + Rate * (clock - grants[ip[t]][j])
    OBVIOUS
  <2>1. TakeToken(t)
    <3>1. /\ pc \in [Thread -> Label]
          /\ pc[t] = "consume" /\ pc'[t] = "limited"
      BY DEF RateInv, TypeInv, TypeOK, Refused
    <3>2. CASE UNCHANGED pc
      BY <3>1, <3>2
    <3>3. CASE \E u \in Thread, to \in Label \ {"limited"} :
                 pc' = [pc EXCEPT ![u] = to]
      BY <3>1, <3>3
    <3>4. CASE \E u \in Thread : TakeToken(u)
      BY <3>1, <3>4 DEF TakeToken, Step
    <3>. QED
      BY <3>2, <3>3, <3>4, OnlyTakeTokenLimits
  <2>. QED
    <3>. DEFINE g == grants[ip[t]]
                n == Len(g)
    <3>1. /\ ip[t] \in IP /\ ip[t] \in buckets
          /\ Refilled(ip[t]) < Cost
      <4>1. PICK allowed \in BOOLEAN :
              /\ Step(t, "consume", IF allowed THEN "forward" ELSE "limited")
              /\ Consume(ip[t], allowed)
        BY <2>1 DEF TakeToken
      <4>2. ~allowed
        BY <4>1 DEF Refused, Step, RateInv, TypeInv, TypeOK
      <4>3. ip[t] \in IP /\ ip[t] \in buckets
        BY <4>1 DEF Step, RateInv, TypeInv, ServesAddress
      <4>4. ~(Refilled(ip[t]) >= Cost)
        BY <4>1, <4>2 DEF Consume
      <4>5. Refilled(ip[t]) \in Int /\ Cost \in Int
        BY <4>3, RefilledType, RateAssumption DEF RateInv
      <4>. QED
        BY <4>3, <4>4, <4>5
    <3>2. CASE Refilled(ip[t]) = BucketCapacity
      BY <3>1, <3>2
    <3>3. ASSUME NEW j \in 1..n, Refilled(ip[t]) = Slack(ip[t], j, clock)
          PROVE  (n - j + 2) * Cost > BucketCapacity + Rate * (clock - g[j])
      <4>. DEFINE credit == Rate * (clock - g[j])
      <4>1. /\ clock \in Int /\ g[j] \in Int /\ n \in Nat /\ j \in Int
            /\ Cost \in Nat /\ Rate \in Nat /\ BucketCapacity \in Nat
        BY <3>1, RateAssumption, RefilledType, BucketNumbers DEF RateInv
      <4>2. credit \in Int
        BY <4>1
      <4>3. BucketCapacity + credit - (n - j + 1) * Cost < Cost
        BY <3>1, <3>3 DEF Slack
      <4>. HIDE DEF credit, n
      <4>4. (n - j + 2) * Cost = (n - j + 1) * Cost + Cost
            /\ (n - j + 1) * Cost \in Int
        BY <4>1
      <4>5. (n - j + 2) * Cost > BucketCapacity + credit
        BY <4>1, <4>2, <4>3, <4>4
      <4>. QED
        BY <4>5 DEF credit
    <3>. QED
      BY <3>1, <3>2, <3>3, RefilledSlack DEF RateInv
<1>. QED
  BY <1>1, RateInvariant, PTL DEF Spec, RefusedOnlyWhenSpent
=============================================================================
