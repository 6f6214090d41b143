SPECIFICATION FairSpec
CONSTANTS
  PACKET_SIZE = 2
  Buffer = 2
  MaxBytes = 2
PROPERTY CloseForwarded
CHECK_DEADLOCK FALSE
