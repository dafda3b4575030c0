SPECIFICATION Spec
CONSTANTS
  u1 = u1
  u2 = u2
  c1 = c1
  c2 = c2
  Users = {u1, u2}
  Profiles = {}
  Clients = {c1, c2}
  Serials = {"s1", "s2"}
  ChannelSlugs = {"k1"}
  Grants = {"control"}
  Cap <- CapFew
  MaxGrants = 1
SYMMETRY Interchangeable
INVARIANTS EveryGatewayHasAdmin PublishedNamesExist
PROPERTIES WritesPermitted CommandHistoryKept
CHECK_DEADLOCK FALSE
