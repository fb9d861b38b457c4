\* A disagreement: the highlights' worker is told of a contest when WSJT-X connects
CONSTANTS
  Contests = {c1, c2}
  Typed = {t1, t2}
  Automatic = {a1}
  None = None
  MaxOpens = 2
  MaxConnects = 2
SYMMETRY MCSymmetry
SPECIFICATION MarksSpec
INVARIANTS
  HighlightsFollowContest
CHECK_DEADLOCK FALSE
