SPECIFICATION Spec
CONSTANTS
  Users = {u, v}
  Units = {a}
  HQs = {h1}
  Posts = {"fighter", "commander"}
  Leaders = {"commander"}
  HQPosts = {"head"}
  UniqueHQPosts = {"head"}
  Changes = {c1, c2}
  Reviews = {r1, r2}
  NoUnit = NoUnit
  SignUpPlaces <- FewPlaces
  MaxAsks = 3
  DbMayFail = TRUE
SYMMETRY Symmetry
INVARIANTS OneHolder HistoryExplainsPlaces ToldOnlyCommitted
PROPERTIES ImplementsRegister
CHECK_DEADLOCK FALSE
