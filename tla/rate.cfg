\* Two connections of one address share its bucket and its activity time while
\* time passes.  No symmetry, which is unsound for liveness.
SPECIFICATION FairSpec
CONSTANTS
  ip1 = ip1
  ip2 = ip2
  ip3 = ip3
  IP = {ip1}
  NoIp = NoIp
  Thread = {t1, t2}
  Absent = Absent
  Garbage = Garbage
  WhitelistFile <- OpenToAll
  MaxPerIp = 2
  MaxTotal = 2
  IdleTimeout = 1
  Rate = 1
  Burst = 2
  Cost = 2
  MaxClock = 3
  MaxInbox = 1
INVARIANTS
  TypeOK
  RateWindow
  BucketInv
PROPERTIES
  RefusedOnlyWhenSpent
  SlotsComeBack
