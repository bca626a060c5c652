\* Two streams, on one target or on two; each target sends up to two chunks.
\* Every stream may have ended with nothing to relay to.
SPECIFICATION Spec
CONSTANTS
  Stream = {r1, r2}
  Target = {g1, g2}
  None = None
  MaxChunks = 2
SYMMETRY StreamSymmetry
CHECK_DEADLOCK FALSE
INVARIANTS
  TypeOK
  NoClosedSession
  ChunksAccounted
  OvertakenOnly
