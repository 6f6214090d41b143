SPECIFICATION Spec
CONSTANTS
  x = x  y = y  s1 = s1  s2 = s2  k1 = k1  k2 = k2  k3 = k3
  Service = {s1, s2}
  Client = {k1, k2}
  ServerID = {x, y}
  serviceID <- TwoIDs
  wantedID <- OneWantsX
  Events = {"shutdown", "group"}
  MaxConn = 6
  MaxFd = 4
  Backlog = 10
  MaxStarts = 2
INVARIANTS TypeOK PairedWithRequestedService AnsweredOnce ConnectedIsBacked OnlyInterruptsEndSpd
PROPERTIES ResolvedIsNotified Implements
CHECK_DEADLOCK FALSE
