CONSTANTS
  u1 = u1
  u2 = u2
  w1 = w1
  w2 = w2
  w3 = w3
  user <- MCUser
  Widgets = {w1, w2, w3}
  MaxPending = 3
  Screens = {s1, s2}
  MaxTaps = 3
  d1 = d1
  d2 = d2
  Dialogs = {d1, d2}
  Typed = {t1, t2, t3}
  First = {t1}
  MaxSaves <- MCMaxSaves
  MaxTags = 2
SPECIFICATION MCSpec
INVARIANTS
  ScoreCountsScreens
  LastTapWins
  HeartTells
  TagsAreBounded
  PageStays
PROPERTY TagLossIsMeant
CHECK_DEADLOCK FALSE
