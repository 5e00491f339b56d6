CONSTANTS
  Comments = {c1, c2, c3}
  Widgets = {w1, w2}
SPECIFICATION FairSpec
INVARIANTS
  NoDanglingComment
  LostOnlyToOverlap
  DeletedWhatItSaw
PROPERTIES
  KeepsThread
  DeletionCompletes
CHECK_DEADLOCK FALSE
