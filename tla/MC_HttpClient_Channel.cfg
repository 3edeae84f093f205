CONSTANTS
  Features <- MCFeatures
  ServerMsgs <- MCServerMsgs
  NoState = NoState
  ConnectRetries = 1
  MaxSeq = 3
SPECIFICATION Spec
PROPERTIES ImplementsChannel
