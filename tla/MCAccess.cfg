SPECIFICATION Spec
CONSTANTS
  Member = Member
  Users = {Member}
  Nobody = Nobody
  Origins <- MCOrigins
  Storable <- MCStorable
  AccountOf <- MCAccountOf
  Limit = 3
  Window = 2
  MaxFaults = 1
  Roles = {"participant", "unit_commander"}
  AdminRoles = {"superadmin", "unit_commander"}
  StandingRoles = {"superadmin"}
  Requests = {q1, q2}
SYMMETRY Symmetry
INVARIANTS GuessesBounded
PROPERTIES BlockedStaysOut LostRoleStaysLost
