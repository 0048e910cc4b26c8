CONSTANTS
  Family = {f1}
  Secret = {x1, x2, x3}
  Session = {s1, s2, s3}
  NoCred = NoCred
  NoSecret = NoSecret
  NoCookie = NoCookie
  Anon = Anon
  Overlap = 1
  Inactivity = 1
  Lifetime = 3
  OrphanAge = 1
  Events = {"restart"}
  Enrolled = TRUE
  QuietFrom = 1
  InOrder = TRUE
  MaxCalls = 2
  MaxTime = 1
SPECIFICATION LiveSpec
CHECK_DEADLOCK FALSE
PROPERTY
  EventuallyConnected
