\* What a rescore of the window writes of a WSJT-X contact
CONSTANTS
  Contests = {"CQWW_SSB"}
  Contacts <- MCContacts
  Home <- MCHome
  SettingConts = {"NA", "EU"}
  MaxRows = 2
  MaxStamp = 2
  MaxTrouble = 1
SPECIFICATION ScoringSpec
INVARIANT RescoreIsStored
