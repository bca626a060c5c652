\* Three frames of up to three bytes of body behind two of header; a payload
\* of three would be too large.  All frames may have been sent.
SPECIFICATION FairSpec
CONSTANTS
  HeaderSize = 2
  Overhead = 1
  MaxFrameSize = 3
  MaxPayload = 3
  MaxFrames = 3
CHECK_DEADLOCK FALSE
INVARIANTS
  TypeOK
  BytesConserved
  DeliveredInOrder
  RejectsOnlyTorn
 
