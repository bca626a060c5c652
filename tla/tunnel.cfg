\* Three browser threads on one tunnel, two attempts each.
\* No symmetry, which is unsound for liveness; finished calls leave nothing to do.
SPECIFICATION FairSpec
CONSTANTS
  NoThread = NoThread
  ErrorFrame = ErrorFrame
  Thread = {t1, t2, t3}
  MaxRetries = 2
CHECK_DEADLOCK FALSE
INVARIANTS
  TypeOK
  LockStep
  PoisonIsTransient
  ExecutionsBounded
PROPERTIES
  MismatchNeedsGap
  CallsEnd
