CONSTANTS
  People = {ann, bob}
  Names = {n1, n2}
  Empty = Empty
  Nobody = Nobody
  None = None
  Url = Url
  Saves = {s1}
  MaxVisits = 2
  MaxWrites = 1
SPECIFICATION ProfileSpec
INVARIANTS
  PhotoExists
  BadNameNeedsRace
PROPERTY FileIsOwn
SYMMETRY Symmetry
