\* Serial numbers start again when the contest is reopened
CONSTANTS
  Files = {fa, fb}
  Format = "SS"
  CheckEvery = 2
  MaxQSOs = 2
  MaxFrames = 2
  MaxLoads = 2
SPECIFICATION Spec
SYMMETRY Symmetry
INVARIANTS
  SerialsNotReused
