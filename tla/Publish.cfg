CONSTANTS
  Users = {ann, bob}
  Devices = {d1, d2}
  Posts = {p1, p2}
  Names = {n1, n2}
  Drafts = {x, y}
  Blank = Blank
  Nobody = Nobody
  None = None
  MaxPages = 2
SPECIFICATION Spec
INVARIANTS
  AudioExists
  PostIsAsConfirmed
  ListedWasPosted
PROPERTY UploadedIsPosted
SYMMETRY Symmetry
