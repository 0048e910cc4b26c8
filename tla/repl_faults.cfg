CONSTANTS
  Token = {t1, t2}
  NoToken = NoToken
  Scope = {guest, member}
  DefaultScope = guest
  User = {ann}
  Nobody = Nobody
  Ttl = 0
  Grace = 0
  MaxSessions = 0
  SearchDepth = 3
  Edge = {e1, e2}
  Store = auth
  NoEdge = NoEdge
  Browser = {b1}
  Conn = {c1}
  SlotScopes = {member}
  Faults = {"linkLost", "edgeRestart"}
  MaxFaults = 1
  MaxBacklog = 1
  MaxTime = 1
SPECIFICATION Spec
SYMMETRY Symmetry
INVARIANT RecordsAgree
