CONSTANTS
  Users = {u1, u2}
  Addresses = {x, y, z}
  Passwords = {p1, p2}
  Requests = {r1, r2}
  NoAddress = NoAddress
  MaxCodes = 2
  DbMayFail = TRUE
SPECIFICATION Spec
SYMMETRY Symmetric
INVARIANTS AddressProven SpentIsGone
PROPERTY PasswordByMail
CHECK_DEADLOCK FALSE
