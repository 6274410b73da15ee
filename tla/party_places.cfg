CONSTANTS
  Users = {u1, u2, u3}
  Parties = {p1, p2}
  Requests = {r1}
  Sessions = {s1, s2}
  MaxInvites = 2
  Limits = {1, 2}
  MaxPlayers = 3
  Operations <- PlacesOps
  u1 = u1
  u2 = u2
  None = None
  Settings = Settings
SPECIFICATION PartySpec
SYMMETRY Symmetry
CHECK_DEADLOCK FALSE
INVARIANT InviteIsCurrent
PROPERTY RulesKept
