SPECIFICATION FairSpec
CONSTANTS
  a = a
  b = b
  s1 = s1
  s2 = s2
  c1 = c1
  c2 = c2
  c3 = c3
  c4 = c4
  Server = {s1, s2}
  User = {a, b}
  Conn = {c1, c2, c3, c4}
  UserOf <- Users
  ServerOf <- Servers
  Handle = {1, 2}
  Msg = {m1}
  Group = g
  Expiry = 1
  MaxMishaps = 2
INVARIANTS TypeOK AtMostOnce
CHECK_DEADLOCK FALSE
PROPERTIES Delivered SendListDrains
