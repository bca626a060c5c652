\* The claim that the tunnel carries bytes.
\* The thread may end and leave the browser and the target nothing to do.
SPECIFICATION Spec
CONSTANTS
  MaxRetries = 2
  MaxUp = 2
  MaxDown = 2
  MaxDials = 2
CHECK_DEADLOCK FALSE
INVARIANT OnlyTargetBytes
