SPECIFICATION FairSpec
CONSTANTS
  x = x  y = y  s1 = s1  s2 = s2  k1 = k1  k2 = k2  k3 = k3
  Service = {s1}
  Client = {k1, k2}
  ServerID = {x, y}
  serviceID <- SameID
  wantedID <- AllWantX
  Events = {"shutdown"}
  MaxConn = 6
  MaxFd = 5
  Backlog = 10
  MaxStarts = 1
PROPERTIES AnsweredUnlessInterrupted ShutdownUnregisters QueueServed
CHECK_DEADLOCK FALSE
