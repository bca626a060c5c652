\* The claim that threads can share the tunnel.
SPECIFICATION Spec
CONSTANTS
  NoThread = NoThread
  ErrorFrame = ErrorFrame
  Thread = {t1, t2}
  MaxRetries = 2
CHECK_DEADLOCK FALSE
INVARIANT ResponseMatch
