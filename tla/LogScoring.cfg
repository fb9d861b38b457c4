\* Scoring as the contacts come against rescoring the log
CONSTANTS
  Contests = {"CQWW_SSB", "CQWPX_CW", "ARRL_SS_CW", "FL_QP", "IARU_HF"}
  Contacts <- MCContacts
  Home <- MCHome
  SettingConts = {"NA", "EU"}
  MaxRows = 3
  MaxStamp = 2
  MaxTrouble = 1
SPECIFICATION ScoringSpec
INVARIANTS
  ScoredInOrder
  ClaimsMakeTheScore
  RestartKeepsScore
  FileFollowsTable
