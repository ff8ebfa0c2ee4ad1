SPECIFICATION AccountsSpec
CONSTANTS
  Users = {"a", "b"}
  Roles = {"admin", "external"}
  FirstAdmins = {"a", "b"}
  Invited = {}
  Sessions = {"s1", "s2"}
  Readers = {}
  NoOne = "-"
  MaxChanges = 2
  MaxAccountFaults = 0
INVARIANT SomeAdminLeft
CHECK_DEADLOCK FALSE
