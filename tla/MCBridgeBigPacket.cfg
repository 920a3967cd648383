SPECIFICATION BridgeSpec
CONSTANTS
  Octets <- MCOctets
  Magic = 5
  MaxPayload = 2
  WriteCommand = 1
  ReadCommand = 2
  BadAddresses = {4}
  Templates <- MCFewTemplates
  PacketLens = {14}
  MaxRequests = 2
  I2cData = {0, 1}
  READY = READY
  NoPacket = NoPacket
PROPERTIES
  WholePacketsAccepted
