CONSTANTS
  Features <- MCFeatures
  ServerMsgs <- MCServerMsgs
  NoState = NoState
  ConnectRetries = 1
  MaxSeq = 4
  MaxFrames = 2
SPECIFICATION Spec
INVARIANTS
  NoAbort
