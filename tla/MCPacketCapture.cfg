SPECIFICATION CaptureSpec
CONSTANTS
  Octets <- MCOctets
  Magic = 2
  MaxPayload = 1
  MaxCapture = 11
INVARIANTS
  CaptureTypeOK
  ParsesWholeCaptures
CHECK_DEADLOCK FALSE
