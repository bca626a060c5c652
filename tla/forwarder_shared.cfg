\* The claim that a relay belongs to its own CONNECT.
SPECIFICATION Spec
CONSTANTS
  Stream = {r1, r2}
  Target = {g1}
  None = None
  MaxChunks = 1
CHECK_DEADLOCK FALSE
INVARIANT RelayOnOwnTunnel
