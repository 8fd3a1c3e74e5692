SPECIFICATION Spec
CONSTANTS
  c1 = c1
  c2 = c2
  c3 = c3
  ann = ann
  an = an
  bob = bob
  p = p
  q = q
  Sockets <- ThreeSockets
  Logins <- MCLogins
  Beginnings <- NoBeginnings
  Passwords = {p}
  MaxKills = 1
  MaxCrashes = 0
SYMMETRY MCSymmetry
INVARIANTS
  TypeOK
  PlacesAreOwn
  PlaceCarriesLogin
  HolderStays
CHECK_DEADLOCK FALSE
