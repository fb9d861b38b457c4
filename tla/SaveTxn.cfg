\* Two contacts, two contents, three attempts: safety and refinement
CONSTANTS
  QSOs = {q1, q2}
  Notes = {n1, n2}
  MaxRetries = 3
SPECIFICATION Spec
INVARIANTS
  DiskIsWhatWasTold
PROPERTIES
  StoreSpec
