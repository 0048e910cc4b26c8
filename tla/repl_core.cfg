CONSTANTS
  Token = {t1, t2}
  NoToken = NoToken
  Scope = {guest, member}
  DefaultScope = guest
  User = {}
  Nobody = Nobody
  Ttl = 1
  Grace = 1
  MaxSessions = 1
  SearchDepth = 3
  Edge = {e1, e2}
  Store = auth
  NoEdge = NoEdge
  Browser = {b1}
  Conn = {c1}
  SlotScopes = {member}
  Faults = {}
  MaxFaults = 0
  MaxBacklog = 1
  MaxTime = 2
SPECIFICATION Spec
SYMMETRY Symmetry
INVARIANT ReplicasAgree
INVARIANT RevocationIsOnItsWay
INVARIANT HandoffReachesEveryReplica
PROPERTY ElevationKeepsConnections
