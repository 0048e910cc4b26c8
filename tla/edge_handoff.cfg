CONSTANTS
  Token = {t1, t2, t3}
  NoToken = NoToken
  Scope = {guest, member}
  DefaultScope = guest
  User = {ann}
  Nobody = Nobody
  Ttl = 1
  Grace = 1
  MaxSessions = 2
  SearchDepth = 3
  Browser = {b1}
  Conn = {c1}
  IdentityRequired = TRUE
  SignInRoute = FALSE
  SignInScope = member
  LoginScope = member
  MaxTime = 2
SPECIFICATION LiveSpec
INVARIANT EdgeInv
INVARIANT ElevationReachesTheCookie
PROPERTY ExpiredIsReclaimed
