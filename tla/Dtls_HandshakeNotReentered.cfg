\* Coap's timer fires while do_handshake polls the device.
SPECIFICATION Spec
CONSTANTS
  MaxPoll = 2
  MaxRetry = 1
  MaxReq = 1
  MaxTrouble = 0
  MaxSession = 1
PROPERTY HandshakeNotReentered
CHECK_DEADLOCK FALSE
