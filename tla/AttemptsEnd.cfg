\* Two contacts, two contents, three attempts: every operation is answered
CONSTANTS
  QSOs = {q1, q2}
  Notes = {n1, n2}
  MaxRetries = 3
SPECIFICATION FairSpec
PROPERTIES Answered
