\* Clocks up to two drifts apart, every combination of right and wrong keys.
SPECIFICATION FairSpec
CONSTANTS
  Skew <- Skews
  MaxDrift = 2
  Timeout = 1
  MaxTime = 4
\* Both handshakes may be over.
CHECK_DEADLOCK FALSE
INVARIANTS
  TypeOK
  SkewBound
PROPERTIES
  OpeningSpec
  HandshakeEnds
