\* After a failed opening an edit overwrites another contest's row
CONSTANTS
  Files = {fa, fb}
  Format = "WPX"
  CheckEvery = 2
  MaxQSOs = 2
  MaxFrames = 2
  MaxLoads = 2
SPECIFICATION Spec
SYMMETRY Symmetry
INVARIANTS
  EditsStayHome
