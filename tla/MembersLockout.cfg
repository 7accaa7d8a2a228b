SPECIFICATION Spec
CONSTANTS
  Person = {"ann", "bob"}
  Account = {"ann", "bob"}
  Bootstrap = {}
  Role = {"admin", "pm"}
  Member <- OneEach
  WriteRole = {}
  Sync = {"s1"}
INVARIANTS
  AnAdminRemains
