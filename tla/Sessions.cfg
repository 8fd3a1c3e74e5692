SPECIFICATION FairSpec
CONSTANTS
  c1 = c1
  c2 = c2
  c3 = c3
  ann = ann
  an = an
  bob = bob
  p = p
  q = q
  Sockets <- TwoSockets
  Logins <- TwoLengths
  Beginnings <- AnBeginsAnn
  Passwords = {p}
  MaxKills = 2
  MaxCrashes = 1
 
PROPERTIES
  EndedSessionsAreCleared
CHECK_DEADLOCK FALSE
