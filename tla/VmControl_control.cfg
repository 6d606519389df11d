SPECIFICATION FairSpec
CONSTANTS
  CallOrder <- MCCallOrder
  Requests <- MCRequests
  KeyCodes <- MCKeyCodes
  Inventories <- MCInventories
  Frames <- MCFrames
  Old = {"o1"}
  CountLimit = 2
  BytesLimit = 2
  DirectiveLimit = 2
  MaxSessions = 2
  MaxJunk = 1
INVARIANT OwnAnswer
INVARIANT KeysOnce
INVARIANT CapturesFit
INVARIANT CleanStopIsSeen
PROPERTY CallsReturn
CHECK_DEADLOCK FALSE
