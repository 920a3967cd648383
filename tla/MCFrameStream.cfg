SPECIFICATION StreamSpec
CONSTANTS
  Octets <- MCOctets
  Magic = 6
  MaxPayload = 5
  Headers <- MCHeaders
  Contents <- MCContents
  NoRequest = NoRequest
INVARIANTS
  StreamTypeOK
  FramesArriveWhole
  RecoversInSilence
  NoInventedRequest
CHECK_DEADLOCK FALSE
