CONSTANTS
  u1 = u1  c1 = c1  c2 = c2
  NoCall = NoCall
  Users = {u1}
  Projects = {p1}
  Clients = {c1, c2}
  LogClients = {c2}
  UserOf <- MCUserOf
  Calls = {k1, k2}
  MaxConns = 1
  ClientBufferSize = 2
  MaxEvents = 2
  MaxQueue = 2
SPECIFICATION FairSpec
INVARIANTS WithinCapacity OwnOnce
PROPERTY Converges
