CONSTANTS
  Users = {u1, u2, u3}
  Parties = {p1, p2}
  Requests = {r1, r2, r3}
  MaxInvites = 2
  Limits = {1, 2, 3}
  MaxPlayers = 2
  None = None
SPECIFICATION Spec
SYMMETRY Symmetry
CHECK_DEADLOCK FALSE
INVARIANT TypeOK
INVARIANT OnePlace
INVARIANT OneBlockingRequest
INVARIANT BusyPartyLives
INVARIANT LeaderIsMember
INVARIANT WithinLimit
