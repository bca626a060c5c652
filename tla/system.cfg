\* One client with two browser threads against a server that allows it one
\* connection: what a handler keeps open denies the next one.  Two tokens let a
\* request be carried out twice; the attempts of the two threads can ask for
\* more, so both answers come.
\* Finished calls leave nothing to do.
SPECIFICATION FairSpec
CONSTANTS
  Browser = {b1, b2}
  Handler = {h1, h2}
  ClientIp = ClientIp
  NoSocket = NoSocket
  Shut = Shut
  NoThread = NoThread
  ErrorFrame = ErrorFrame
  MaxRetries = 2
  NoIp = NoIp
  WhitelistFile = {Absent}
  Garbage = Garbage
  Absent = Absent
  MaxPerIp = 1
  MaxTotal = 1
  IdleTimeout = 0
  Rate = 0
  Burst = 2
  Cost = 1
  MaxClock = 0
  MaxInbox = 2
CHECK_DEADLOCK FALSE
INVARIANTS
  TypeOK
  NoMoreThanAttempted
PROPERTIES
  TunnelSpec
  DeniedOnlyByLeftovers
  
