CONSTANTS
  Family = {f1}
  Secret = {x1, x2, x3, x4}
  Session = {s1, s2, s3}
  NoCred = NoCred
  NoSecret = NoSecret
  NoCookie = NoCookie
  Anon = Anon
  Overlap = 0
  Inactivity = 1
  Lifetime = 3
  OrphanAge = 1
  Events = {"timeout", "crash", "busy", "saveFails", "rotate", "expiry", "restart"}
  Enrolled = TRUE
  QuietFrom = 9
  InOrder = TRUE
  MaxCalls = 2
  MaxTime = 2
SPECIFICATION Spec
SYMMETRY Symmetry
 
INVARIANT ReuseEndsEverySession
PROPERTY SpentOncePerSession
 
