CONSTANTS
  Comments = {c1, c2}
  Others = {o1}
  Blank = Blank
  NotYet = NotYet
  NumPages = 2
  ofOther = {1}
  Refreshing = {1}
SPECIFICATION Spec
INVARIANTS
  ShownIsCurrent
  BrokenNeedsDeletion
PROPERTY PageIsBuilt
