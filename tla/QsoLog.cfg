\* Safety of the operating session
CONSTANTS
  Files = {fa, fb}
  Format = "WPX"
  CheckEvery = 2
  MaxQSOs = 3
  MaxFrames = 2
  MaxLoads = 2
SPECIFICATION Spec
SYMMETRY Symmetry
INVARIANTS
  ShownIdsAreStored
  StoredAreShown
  CountsTellTheTruth
  SerialsAdvance
  BackupCoversOlder
  OnlyRefusedAreLost
