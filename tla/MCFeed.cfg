SPECIFICATION Spec
CONSTANTS
  a = a
  b = b
  t1 = t1
  t2 = t2
  t3 = t3
  e = e
  Accounts = {a, b}
  NoAccount = NoAccount
  Tokens = {t1, t2, t3}
  NoToken = NoToken
  OwnerOf <- MCOwnerOf
  Events = {e}
  Filters = {"all", "sport"}
  Everything = "all"
  Matching <- MCMatching
  Earlier <- MCEarlier
  Loads = {l1, l2}
  Taps = {r1}
  MaxFailures = 1
INVARIANTS FreshFollowsFilter ShownIsMine
PROPERTIES StatusIsKept
SYMMETRY Symmetry
CHECK_DEADLOCK FALSE
