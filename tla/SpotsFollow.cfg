\* A disagreement: the spot worker never opens a second contest's file
CONSTANTS
  Contests = {c1, c2}
  Typed = {t1, t2}
  Automatic = {a1}
  None = None
  MaxOpens = 2
  MaxConnects = 2
SYMMETRY MCSymmetry
SPECIFICATION MarksSpec
INVARIANTS
  SpotsFollowContest
CHECK_DEADLOCK FALSE
