\* Two connections of one address and one of another, room for one of each:
\* every limit is met, and the client of c1 never finishes sending.
SPECIFICATION FairSpec
CONSTANTS
  c1 = c1
  c2 = c2
  c3 = c3
  a1 = a1
  a2 = a2
  NoConn = NoConn
  Conns = {c1, c2, c3}
  Clients = {a1, a2}
  ClientOf <- MCClientOf
  Allowed = {a1, a2}
  Dripping = {c1}
  MaxConnections = 1
  MaxPerClient = 1
  RejectQueueSize = 1
INVARIANTS
  LimitsAccounted
  CloseSeesAll
  OneHand
PROPERTIES
  EverythingEnds
