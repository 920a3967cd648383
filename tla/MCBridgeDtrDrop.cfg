SPECIFICATION FairBridgeSpec
CONSTANTS
  Octets <- MCOctets
  Magic = 5
  MaxPayload = 2
  WriteCommand = 1
  ReadCommand = 2
  BadAddresses = {4}
  Templates <- MCFewTemplates
  PacketLens = {3, 7}
  MaxRequests = 2
  I2cData = {0, 1}
  READY = READY
  NoPacket = NoPacket
PROPERTIES
  DtrDropResets
