SPECIFICATION LiveSpec
CONSTANTS
  o1 = o1
  o2 = o2
  p1 = p1
  p2 = p2
  p3 = p3
  v1 = v1
  v2 = v2
  unknown = unknown
  None = None
  Users = {u1, u2}
  Orgs = {o1, o2}
  Peers = {p1, p2, p3}
  Versions = {v1, v2}
  OrgOf <- MCOrgOf
  CommandLines <- MCCommandLines
  Networks <- MCNetworks
  MaxBlocks = 3
  MaxTraverse = 3
  EventBuffer = 1
  MaxCommands = 2
INVARIANTS OutcomesTrue PrintedInOrder SdkClosedLast
PROPERTIES CommandEnds
CHECK_DEADLOCK FALSE
