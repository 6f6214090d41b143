SPECIFICATION Spec
CONSTANTS
  x = x  y = y  s1 = s1  s2 = s2  k1 = k1  k2 = k2  k3 = k3
  Service = {s1, s2}
  Client = {k1, k2, k3}
  ServerID = {x, y}
  serviceID <- TwoIDs
  wantedID <- OneWantsX
  Events = {"clientCrash", "hasty"}
  MaxConn = 6
  MaxFd = 3
  Backlog = 10
  MaxStarts = 2
INVARIANT PairedWithRequestedService
SYMMETRY Alike
CHECK_DEADLOCK FALSE
