SPECIFICATION Spec
CONSTANTS
  Setups <- MCSetups
  Crc <- MCCrc
INVARIANTS NoPhantom Resync
CHECK_DEADLOCK FALSE
