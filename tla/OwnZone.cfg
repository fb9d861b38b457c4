\* Points of the station's own ITU zone after a rescore
CONSTANTS
  Contests = {"IARU_HF"}
  Contacts <- MCContacts
  Home <- MCHome
  SettingConts = {"NA", "EU"}
  MaxRows = 2
  MaxStamp = 2
  MaxTrouble = 0
SPECIFICATION ScoringSpec
INVARIANT OwnZonePaysOne
