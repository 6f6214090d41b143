SPECIFICATION FairSpec
CONSTANTS
  PACKET_SIZE = 2
  Buffer = 2
  MaxBytes = 3
INVARIANTS StreamInv InOrder EndIsWhole
PROPERTIES ImplementsPipe Forwarded RelayEnds
CHECK_DEADLOCK FALSE
