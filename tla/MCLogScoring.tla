---------------------------- MODULE MCLogScoring -----------------------------
(* A station in Florida and four contacts that meet every rule: a neighbour  *)
(* of its own country and ITU zone, a Canadian on another band whose CQ zone *)
(* is the neighbour's, a European on a low band, and the same one in an      *)
(* unknown mode.                                                             *)
EXTENDS LogScoring

MCHome == [country |-> "K", cont |-> "NA", ituZone |-> "8", wve |-> TRUE,
           state |-> "FL", power |-> 100]

MCContact(prefix, band, mode, country, cont, cq, itu, state, section) ==
  [call |-> [prefix |-> prefix, rest |-> "AA"], band |-> band, mode |-> mode,
   country |-> country, cont |-> cont, cqZone |-> cq, ituZone |-> itu,
   ituExch |-> IF prefix = "DL1" THEN "HQ" ELSE "", state |-> state,
   section |-> section, county |-> IF country = "K" THEN "PAL" ELSE ""]

MCContacts ==
  {MCContact("W1", 20, "CW", "K", "NA", "5", "8", "MA", "EMA"),
   MCContact("VE2", 40, "CW", "VE", "NA", "5", "4", "QC", "QC"),
   MCContact("DL1", 40, "CW", "DL", "EU", "14", "28", "", ""),
   MCContact("DL1", 40, "NONE", "DL", "EU", "14", "28", "", "")}
==============================================================================
