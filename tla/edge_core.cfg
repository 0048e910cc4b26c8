CONSTANTS
  Token = {t1, t2, t3}
  NoToken = NoToken
  Scope = {guest, member}
  DefaultScope = guest
  User = {ann}
  Nobody = Nobody
  Ttl = 1
  Grace = 1
  MaxSessions = 2
  SearchDepth = 2
  Browser = {b1, b2}
  Conn = {c1, c2}
  IdentityRequired = FALSE
  SignInRoute = TRUE
  SignInScope = member
  LoginScope = member
  MaxTime = 2
SPECIFICATION Spec
SYMMETRY Symmetry
INVARIANT SourcesAreCounted
PROPERTY EvictionSparesVisitors
PROPERTY ImplementsLifecycle
