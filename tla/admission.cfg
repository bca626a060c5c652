\* Admission and the return of slots: three handler threads, three admitted
\* addresses and one that is not.
SPECIFICATION Spec
CONSTANTS
  ip1 = ip1
  ip2 = ip2
  ip3 = ip3
  IP = {ip1, ip2, ip3, ip4}
  NoIp = NoIp
  Thread = {t1, t2, t3}
  Absent = Absent
  Garbage = Garbage
  WhitelistFile <- ThreeAdmitted
  MaxPerIp = 1
  MaxTotal = 2
  IdleTimeout = 0
  Rate = 1
  Burst = 1
  Cost = 1
  MaxClock = 0
  MaxInbox = 1
SYMMETRY AdmissionSymmetry
INVARIANTS
  SlotAccounting
  CapsRespected
PROPERTY PoolSpec
