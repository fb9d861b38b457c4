\* Two contests opened twice in all, two typed contacts and one of WSJT-X, which
\* connects twice.
\* When the bounds are used up nothing is left to do.
CONSTANTS
  Contests = {c1, c2}
  Typed = {t1, t2}
  Automatic = {a1}
  None = None
  MaxOpens = 2
  MaxConnects = 2
SYMMETRY MCSymmetry
SPECIFICATION MarksSpec
INVARIANTS
  SpotsShowTheLog
  HighlightsShowTheLog

CHECK_DEADLOCK FALSE
