CONSTANTS
  u1 = u1
  u2 = u2
  u3 = u3
  s1 = s1
  s2 = s2
  s3 = s3
  Users = {u1, u2, u3}
  Sends = {s1, s2, s3}
  Texts = {t1}
  Empty = Empty
  from <- MCFrom
  to <- MCTo
SPECIFICATION FairSpec
INVARIANTS
  SameText
  ListedHasMessages
  ListLostOnlyToOthers
PROPERTY Delivered
CHECK_DEADLOCK FALSE
