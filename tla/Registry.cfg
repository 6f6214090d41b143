SPECIFICATION Spec
CONSTANTS
  x = x  y = y  s1 = s1  s2 = s2  k1 = k1  k2 = k2  k3 = k3
  Service = {s1, s2}
  Client = {k1, k2}
  ServerID = {x, y}
  serviceID <- SameID
  wantedID <- AllWantX
  Events = {"shutdown", "clientCrash", "serviceCrash", "reset", "fork",
            "coalesce", "eager", "stray"}
  MaxConn = 4
  MaxFd = 3
  Backlog = 10
  MaxStarts = 2
INVARIANTS DescriptorsNotStale ServingIsRegistered
PROPERTIES ForgetsOnlyRefused UnregistersOwnService Implements
SYMMETRY AllAlike
CHECK_DEADLOCK FALSE
