CONSTANTS
  Users = {u1, u2}
  Parties = {p1}
  Requests = {r1, r2}
  Sessions = {s1, s2}
  MaxInvites = 1
  Limits = {2}
  MaxPlayers = 1
  Operations <- LocksOps
  u1 = u1
  u2 = u2
  None = None
  Settings = Settings
SPECIFICATION PartySpec
SYMMETRY Interchangeable
CHECK_DEADLOCK FALSE
INVARIANT NoWaitCycle
PROPERTY RulesKept
