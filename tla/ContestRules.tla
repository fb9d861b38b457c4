---------------------------- MODULE ContestRules -----------------------------
(***************************************************************************)
(* The scoring rules of the registered contests: what a contact is worth,  *)
(* which values it can claim as a multiplier, when it is a duplicate and   *)
(* how points and multipliers make the score.                              *)
(*                                                                         *)
(* A contact carries what the rules read of a QSO:                         *)
(*   call     [prefix, rest]: extractPrefix cuts at the first digit        *)
(*   country  dxccEntity, dxccPrefix and dxccEntityCode, "" when cty.dat   *)
(*            does not know the call                                       *)
(*   cont, cqZone, ituZone   from cty.dat too                              *)
(*   ituExch  "" or the HQ, AC, R1, R2, R3 of an IARU exchange             *)
(*   state, section, county  "" when the exchange named no valid one       *)
(* A station is the operator's StationInfo: country, cont, ituZone, wve    *)
(* (in the USA or Canada), state and power.                                *)
(***************************************************************************)
EXTENDS Integers

Registered ==
  {"CQWW_CW", "CQWW_SSB", "CQWPX_CW", "CQWPX_SSB", "ARRL_DX_CW", "ARRL_DX_SSB",
   "ARRL_SS_CW", "ARRL_SS_SSB", "NAQP_CW", "NAQP_SSB", "NAQP_RTTY", "ARRL_FD",
   "ARRL_RTTY", "FL_QP", "IARU_HF", "WFD", "GENERAL"}

CQWW == {"CQWW_CW", "CQWW_SSB"}
CQWPX == {"CQWPX_CW", "CQWPX_SSB"}
ARRLDX == {"ARRL_DX_CW", "ARRL_DX_SSB"}
Sweepstakes == {"ARRL_SS_CW", "ARRL_SS_SSB"}
NAQP == {"NAQP_CW", "NAQP_SSB", "NAQP_RTTY"}
FieldDays == {"ARRL_FD", "WFD"}

LowBands == {160, 80, 40}
NoBand == 0

Contact ==
  [call : [prefix : STRING, rest : STRING], band : Nat, mode : STRING,
   country : STRING, cont : STRING, cqZone : STRING, ituZone : STRING,
   ituExch : STRING, state : STRING, section : STRING, county : STRING]

Station ==
  [country : STRING, cont : STRING, ituZone : STRING, wve : BOOLEAN,
   state : STRING, power : Nat]

ClaimTypes ==
  {"Country", "CQZone", "ITUZone", "Custom", "State", "Section", "County", "Prefix"}

------------------------------------------------------------------------------
(* calculateQSOPoints *)

CQWWPoints(k, c, me) ==
  IF c.country = me.country THEN 0
  ELSE IF c.cont # me.cont THEN IF k = "CQWW_CW" THEN 3 ELSE 2
  ELSE IF me.cont = "NA" THEN 2 ELSE 1

\* getModePointMultiplier is 1.0 or 0.67 and the product is cut to an integer
ModeShare(k, points) ==
  LET share == IF k = "CQWPX_CW" THEN points ELSE (67 * points) \div 100
  IN IF share < 1 THEN 1 ELSE share

CQWPXPoints(k, c, me) ==
  IF me.country # "" /\ c.country = me.country THEN 1
  ELSE IF c.cont # me.cont
    THEN ModeShare(k, IF c.band \in LowBands THEN 6 ELSE 3)
  ELSE (IF c.band \in LowBands THEN ModeShare(k, 2) ELSE 1)
         * (IF me.cont = "NA" THEN 2 ELSE 1)

IARUPoints(c, me) ==
  IF c.ituZone = me.ituZone THEN 1 ELSE IF c.cont # me.cont THEN 5 ELSE 3

\* Field days pay for the effort of CW and the digital modes, the Florida
\* party for CW alone
FieldDayPoints(c) == IF c.mode \in {"CW", "DIG"} THEN 2 ELSE 1
FloridaPoints(c) == IF c.mode = "CW" THEN 2 ELSE 1

Points(k, c, me) ==
  CASE k \in CQWW -> CQWWPoints(k, c, me)
    [] k \in CQWPX -> CQWPXPoints(k, c, me)
    [] k \in ARRLDX -> 3
    [] k \in Sweepstakes -> 2
    [] k \in NAQP \cup {"ARRL_RTTY"} -> 1
    [] k \in FieldDays -> FieldDayPoints(c)
    [] k = "FL_QP" -> FloridaPoints(c)
    [] k = "IARU_HF" -> IARUPoints(c, me)
    [] k = "GENERAL" -> 0

------------------------------------------------------------------------------
(* getMultiplierTypes *)

PerBand(types) == {[type |-> t, perBand |-> TRUE] : t \in types}
AllBands(types) == {[type |-> t, perBand |-> FALSE] : t \in types}

\* setStationInfo at creation decides for ARRL DX and the Florida party
MultTypes(k, me) ==
  CASE k \in CQWW -> PerBand({"Country", "CQZone"})
    [] k \in CQWPX -> AllBands({"Prefix"})
    [] k \in ARRLDX -> PerBand({IF me.wve THEN "Country" ELSE "State"})
    [] k \in Sweepstakes \cup {"WFD"} -> AllBands({"Section"})
    [] k \in NAQP -> PerBand({"State"})
    [] k = "ARRL_RTTY" -> AllBands({"Country", "State"})
    [] k = "FL_QP" ->
         AllBands(IF me.state = "FL" THEN {"State", "Country"} ELSE {"County"})
    [] k = "IARU_HF" -> PerBand({"ITUZone", "Custom"})
    [] k \in {"ARRL_FD", "GENERAL"} -> {}

\* The value a contact has for a type, "" for none.  The CQ and ITU zones are
\* printed numbers, so an unknown zone is the value "0".
Value(k, c, type) ==
  CASE type = "Prefix" -> c.call.prefix
    [] type = "CQZone" -> c.cqZone
    [] type = "ITUZone" -> IF c.ituExch = "" THEN c.ituZone ELSE ""
    [] type = "Custom" -> c.ituExch
    [] type = "Section" -> c.section
    [] type = "State" -> c.state
    [] type = "County" -> c.county
    [] type = "Country" ->
         IF k \in ARRLDX \cup {"ARRL_RTTY"} /\ c.country \in {"K", "VE"}
           THEN "" ELSE c.country

\* getMultiplierValue leaves out what was worked already.  Sweepstakes does
\* not look at the list.
NewValue(k, c, type, worked) ==
  LET v == Value(k, c, type)
  IN IF v \in worked /\ k \notin Sweepstakes THEN "" ELSE v

------------------------------------------------------------------------------
(* getDuplicateCheckingRule and calculateTotalScore *)

DupeRule(k) == IF k \in Sweepstakes THEN "AllBandMode" ELSE "PerBandMode"

PowerFactor(watts) == IF watts <= 5 THEN 3 ELSE IF watts < 100 THEN 2 ELSE 1

\* mults is the sum of the counts: a contest counts no type but its own
TotalScore(k, points, mults, me) ==
  CASE k \in FieldDays -> points
    [] k = "FL_QP" ->
         points * (IF mults = 0 THEN 1 ELSE mults) * PowerFactor(me.power)
    [] k = "GENERAL" -> 0
    [] OTHER -> points * mults
==============================================================================
