\* One stream: two chunks each way, two attempts per request.
\* The thread may end and leave the browser and the target nothing to do.
SPECIFICATION FairSpec
CONSTANTS
  MaxRetries = 2
  MaxUp = 2
  MaxDown = 2
  MaxDials = 2
CHECK_DEADLOCK FALSE
INVARIANTS
  TypeOK
  
  NoGapAtTarget
PROPERTY ThreadEnds
