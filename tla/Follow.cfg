CONSTANTS
  u1 = u1
  u2 = u2
  Users = {u1, u2}
  Pages = {p1, p2}
  me <- MCMe
  them <- MCThem
  MaxPending = 2
SPECIFICATION Spec
SYMMETRY Symmetry
INVARIANTS
  FollowersBacked
  FollowerCanUnfollow
