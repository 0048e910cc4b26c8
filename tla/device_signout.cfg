CONSTANTS
  Family = {f1, f2}
  Secret = {x1, x2}
  Session = {s1, s2}
  NoCred = NoCred
  NoSecret = NoSecret
  NoCookie = NoCookie
  Anon = Anon
  Overlap = 1
  Inactivity = 1
  Lifetime = 3
  OrphanAge = 1
  Events = {"login", "logout", "mapping", "storeDown", "saveLate", "drop", "timeout"}
  Enrolled = TRUE
  QuietFrom = 9
  InOrder = TRUE
  MaxCalls = 2
  MaxTime = 0
SPECIFICATION Spec
SYMMETRY Symmetry
INVARIANT
  NeverStuck
PROPERTY
  SignOutForgetsTheDevice
