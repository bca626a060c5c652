----------------------------- MODULE RateLimiter -----------------------------
(***************************************************************************)
(* The policy state that the handler threads of the VPN server share:      *)
(* server/rate_limit.py.  One RateLimiter object holds, per client         *)
(* address, a count of registered connections, the time of the last        *)
(* activity and a token bucket.                                            *)
(*                                                                         *)
(* Each operator below is one critical section of the class, so it is one  *)
(* atomic step of the thread that calls it.  RateLimiter.check_rate holds  *)
(* two locks one after the other and is therefore two operators,           *)
(* LookupBucket and Consume.  Module VpnServer says who calls them when.   *)
(***************************************************************************)
EXTENDS Integers, Sequences

CONSTANTS
  IP,           \* client addresses
  MaxPerIp,     \* max_connections_per_ip
  MaxTotal,     \* max_total_connections
  IdleTimeout,  \* idle_timeout, in clock ticks
  Rate,         \* token units a bucket gains per clock tick
  Burst,        \* requests a full bucket pays for
  Cost,         \* token units one request costs (units make Rate an integer)
  MaxClock      \* bound: the clock stops here

ASSUME CapsAssumption == MaxPerIp \in Nat /\ MaxTotal \in Nat
ASSUME RateAssumption == Rate \in Nat /\ Burst \in Nat /\ Cost \in Nat \ {0}
ASSUME TimeAssumption == IdleTimeout \in Nat /\ MaxClock \in Nat

VARIABLES
  clock,         \* time.monotonic()
  connections,   \* _connections; 0 stands for an address not in the dict
  total,         \* _total_connections
  lastActivity,  \* _last_activity; Never stands for an address not in it
  buckets,       \* the keys of _buckets
  tokens,        \* _tokens of the bucket of an address, in units
  refilled,      \* _last of the bucket of an address
  grants         \* history: the times at which consume said yes, per address

limiterVars == <<connections, total, lastActivity>>
bucketVars == <<buckets, tokens, refilled, grants>>

Never == -1
BucketCapacity == Burst * Cost

LimiterTypeOK ==
  /\ clock \in 0..MaxClock
  /\ connections \in [IP -> Nat]
  /\ total \in Nat
  /\ lastActivity \in [IP -> {Never} \cup 0..MaxClock]
  /\ buckets \in SUBSET IP
  /\ tokens \in [IP -> 0..BucketCapacity]
  /\ refilled \in [IP -> 0..MaxClock]
  /\ grants \in [IP -> Seq(0..MaxClock)]

LimiterInit ==
  /\ clock = 0
  /\ connections = [i \in IP |-> 0]
  /\ total = 0
  /\ lastActivity = [i \in IP |-> Never]
  /\ buckets = {}
  /\ tokens = [i \in IP |-> 0]
  /\ refilled = [i \in IP |-> 0]
  /\ grants = [i \in IP |-> <<>>]

(***************************************************************************)
(* Connection management.                                                  *)
(***************************************************************************)
BelowCapsOffByOne(i) == total =< MaxTotal /\ connections[i] < MaxPerIp

\* try_add_connection would register another connection from i.
BelowCaps(i) == total < MaxTotal /\ connections[i] < MaxPerIp

\* try_add_connection, the branch that registers and returns True.
AddConnection(i) ==
  /\ connections' = [connections EXCEPT ![i] = @ + 1]
  /\ total' = total + 1
  /\ lastActivity' = [lastActivity EXCEPT ![i] = clock]

\* remove_connection; max(0, total - 1) and the test of the count are kept.
RemoveConnection(i) ==
  /\ connections' = [connections EXCEPT ![i] = IF @ > 0 THEN @ - 1 ELSE @]
  /\ total' = IF connections[i] > 0 /\ total > 0 THEN total - 1 ELSE total
  /\ UNCHANGED lastActivity

(***************************************************************************)
(* Idle tracking: one timestamp per address, not per connection.           *)
(***************************************************************************)
Touch(i) == lastActivity' = [lastActivity EXCEPT ![i] = clock]

IsIdle(i) == \/ lastActivity[i] = Never
             \/ clock - lastActivity[i] > IdleTimeout

(***************************************************************************)
(* check_rate: find or create the bucket under the limiter's lock, then    *)
(* refill it and take a token under the bucket's own lock.                 *)
(***************************************************************************)
CreateBucket(i) ==
  /\ buckets' = buckets \cup {i}
  /\ tokens' = [tokens EXCEPT ![i] = BucketCapacity]
  /\ refilled' = [refilled EXCEPT ![i] = clock]
  /\ UNCHANGED grants

LookupBucketAlwaysNew(i) == CreateBucket(i)

LookupBucket(i) == IF i \in buckets THEN UNCHANGED bucketVars
                                    ELSE CreateBucket(i)

RefilledUncapped(i) == tokens[i] + (clock - refilled[i]) * Rate

\* What the bucket of i holds once the time since its last use is credited.
Refilled(i) ==
  LET credited == tokens[i] + (clock - refilled[i]) * Rate
  IN  IF credited < BucketCapacity THEN credited ELSE BucketCapacity

ConsumeForgetsTime(i, allowed) ==
  /\ allowed = (Refilled(i) >= Cost)
  /\ tokens' = [tokens EXCEPT ![i] = IF allowed THEN Refilled(i) - Cost
                                                ELSE Refilled(i)]
  /\ grants' = [grants EXCEPT ![i] = IF allowed THEN Append(@, clock) ELSE @]
  /\ UNCHANGED <<buckets, refilled>>

ConsumeLosesRefill(i, allowed) ==
  /\ allowed = (Refilled(i) >= Cost)
  /\ tokens' = [tokens EXCEPT ![i] = IF allowed THEN Refilled(i) - Cost ELSE @]
  /\ refilled' = [refilled EXCEPT ![i] = clock]
  /\ grants' = [grants EXCEPT ![i] = IF allowed THEN Append(@, clock) ELSE @]
  /\ UNCHANGED buckets

Consume(i, allowed) ==
  /\ allowed = (Refilled(i) >= Cost)
  /\ tokens' = [tokens EXCEPT ![i] = IF allowed THEN Refilled(i) - Cost
                                                ELSE Refilled(i)]
  /\ refilled' = [refilled EXCEPT ![i] = clock]
  /\ grants' = [grants EXCEPT ![i] = IF allowed THEN Append(@, clock) ELSE @]
  /\ UNCHANGED buckets
=============================================================================
