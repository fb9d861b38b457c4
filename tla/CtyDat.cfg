\* Points after a rescore with the continent of another call in the settings
CONSTANTS
  Contests = {"CQWW_SSB"}
  Contacts <- MCContacts
  Home <- MCHome
  SettingConts = {"NA", "EU"}
  MaxRows = 2
  MaxStamp = 2
  MaxTrouble = 0
SPECIFICATION ScoringSpec
INVARIANT CtyDatPays
