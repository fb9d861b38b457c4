----------------------------- MODULE LogScoring ------------------------------
(***************************************************************************)
(* Who is a duplicate, what each contact is worth and who claimed which    *)
(* multiplier is worked out twice in TR4QT: contact by contact as they are *)
(* logged (QSOLogger), and over the whole log by a rescore                 *)
(* (DataIntegrityManager), which runs at every activation of the contest,  *)
(* from the menu and after an ADIF import.  A rescore writes each row to   *)
(* the database on its own; contacts are edited, arrive unscored from      *)
(* WSJT-X and carry timestamps of their own, so the order of the table and *)
(* of the file differ.  The two do not score for the same station: logging *)
(* takes the operator's continent and zones from cty.dat, a rescore of the *)
(* window the continent from the settings and no ITU zone.  Saving and     *)
(* deleting are QsoLog's business; here every stored contact is shown.     *)
(***************************************************************************)
EXTENDS ContestRules, Sequences, FiniteSets, FiniteSetsExt

CONSTANTS Contests,  \* the contests a behaviour may be about
          Contacts,  \* the contacts there are to log
          Home,      \* the operator's station, as cty.dat knows the call
          SettingConts,  \* the continents the settings may name
          MaxRows,   \* bound: contacts in the log
          MaxStamp,  \* bound: the times they carry
          MaxTrouble \* bound: edits, unscored arrivals, refusals and restarts

ASSUME ScoringAssumption ==
  /\ Contests \subseteq Registered
  /\ Contacts \subseteq Contact /\ Home \in Station
  /\ SettingConts \subseteq STRING
  /\ MaxRows \in Nat /\ MaxStamp \in Nat /\ MaxTrouble \in Nat

VARIABLES
  contest,   \* m_activeContest
  table,     \* QSOTableModel's rows, in order
  fileRows,  \* the rows of the database file
  job,       \* the rescore that is running
  clean,     \* history: every row was scored in the order of the table, by
             \* logging or by the last rescore, and none was changed since
  stale,     \* history: contacts whose scores the database refused to update
  unlinked,  \* contacts whose row of the table has the id -1
  trouble    \* how many edits, unscored arrivals, refusals and restarts

scoringVars == <<contest, table, fileRows, job, clean, stale, unlinked, trouble>>

Times == 1 .. MaxStamp
Ids == 1 .. MaxRows

\* StationInfo as the rescore of the window builds it: the country from
\* cty.dat, the continent from the settings, the CQ zone too (no contest's
\* points read it), and no ITU zone.  Logging and import build Home.
WindowStation(cont) == [Home EXCEPT !.cont = cont, !.ituZone = ""]
Scorers == {Home} \cup {WindowStation(cont) : cont \in SettingConts}

NoJob == [kind |-> "none"]
Job(kind, rows, me) ==
  [kind |-> kind, rows |-> rows, station |-> me,
   next |-> 1, keys |-> {}, worked |-> {}]
Idle == job = NoJob

RowsOf(s) == {s[i] : i \in DOMAIN s}

------------------------------------------------------------------------------
(* Logging one contact *)

\* checkForDuplicate: an unknown mode matches every mode
SameMode(c, d) == c.mode = d.mode \/ "NONE" \in {c.mode, d.mode}
Repeats(c, d) ==
  /\ c.call = d.call
  /\ SameMode(c, d)
  /\ DupeRule(contest) = "AllBandMode" \/ c.band = d.band

\* Mutant of WorkedValues: values of other bands count as worked here
WorkedAnyBand(c, m, rows) == {Value(contest, r.c, m.type) : r \in rows} \ {""}

\* checkForMultipliers: what the contacts so far are worth as multipliers
WorkedValues(c, m, rows) ==
  {Value(contest, r.c, m.type) :
     r \in {q \in rows : m.perBand => q.c.band = c.band}} \ {""}

Claims(c, rows) ==
  {x \in {<<m.type, NewValue(contest, c, m.type, WorkedValues(c, m, rows))>> :
            m \in MultTypes(contest, Home)} : x[2] # ""}

\* Mutant of Scored: a duplicate keeps its points
ScoredPaysDupes(id, at, c, rows) ==
  [id |-> id, at |-> at, c |-> c, dupe |-> \E r \in rows : Repeats(c, r.c),
   points |-> Points(contest, c, Home), mults |-> Claims(c, rows)]

\* QSOLogger::logQSO over the rows of the table
Scored(id, at, c, rows) ==
  LET dupe == \E r \in rows : Repeats(c, r.c)
  IN [id |-> id, at |-> at, c |-> c, dupe |-> dupe,
      points |-> IF dupe THEN 0 ELSE Points(contest, c, Home),
      mults |-> Claims(c, rows)]

\* A contact as WSJT-X or an ADIF file gives it: the file may name points
Unscored(id, at, c, points) ==
  [id |-> id, at |-> at, c |-> c, dupe |-> FALSE, points |-> points, mults |-> {}]

\* findByContest: ORDER BY timestamp; equal times come in the order of the ids
Before(a, b) == a.at < b.at \/ (a.at = b.at /\ a.id < b.id)
ByTime(rows) ==
  [i \in 1 .. Cardinality(rows) |->
     CHOOSE r \in rows : Cardinality({q \in rows : Before(q, r)}) = i - 1]

\* Update one row of the file
Written(r) == {q \in fileRows : q.id # r.id} \cup {r}

NextId == Cardinality(fileRows) + 1

\* A contact logged from the entry window or the web: the latter may bring a
\* timestamp of its own
LogQSO(c, at) ==
  LET row == Scored(NextId, at, c, RowsOf(table))
  IN /\ Idle /\ NextId \in Ids
     /\ table' = Append(table, row)
     /\ fileRows' = fileRows \cup {row}
     /\ clean' = (clean /\ ~ \E r \in RowsOf(table) :
                              Repeats(c, r.c) /\ r.c.mode # c.mode)
     /\ UNCHANGED <<contest, job, stale, unlinked, trouble>>

\* A contact from WSJT-X is stored and shown as it comes.  What the table shows
\* is the copy made before it was stored, whose id stays -1; the row keeps the
\* stored id here to say which contact it is.
WsjtxQSO(c, at) ==
  LET row == Unscored(NextId, at, c, 0)
  IN /\ Idle /\ NextId \in Ids /\ trouble < MaxTrouble
     /\ table' = Append(table, row)
     /\ fileRows' = fileRows \cup {row}
     /\ unlinked' = unlinked \cup {NextId}
     /\ clean' = FALSE /\ trouble' = trouble + 1
     /\ UNCHANGED <<contest, job, stale>>

\* The edit dialog changes what was worked and when; the country and the
\* scoring fields are read-only in it.  A row without an id cannot be edited.
Edited(c, old) == [c EXCEPT !.country = old.country]
EditQSO(i, c, at) ==
  LET row == [table[i] EXCEPT !.c = Edited(c, table[i].c), !.at = at]
  IN /\ Idle /\ trouble < MaxTrouble /\ row.id \notin unlinked
     /\ table' = [table EXCEPT ![i] = row]
     /\ fileRows' = Written(row)
     /\ stale' = stale \ {row.id}
     /\ clean' = FALSE /\ trouble' = trouble + 1
     /\ UNCHANGED <<contest, job, unlinked>>

------------------------------------------------------------------------------
(* Rescoring the log *)

\* onRescoreContest, with the continent the settings name at the time
Rescore(cont) ==
  /\ Idle
  /\ job' = Job("window", table, WindowStation(cont))
  /\ UNCHANGED <<contest, table, fileRows, clean, stale, unlinked, trouble>>

\* The contest is activated, after a crash in the middle of anything or
\* otherwise: the file is read and rescored
Activate(cont) ==
  /\ trouble < MaxTrouble /\ trouble' = trouble + 1
  /\ table' = ByTime(fileRows)
  /\ job' = Job("window", table', WindowStation(cont))
  /\ clean' = FALSE /\ stale' = {} /\ unlinked' = {}
  /\ UNCHANGED <<contest, fileRows>>

\* importADIF: the contacts are stored as they are (one at a time here), then
\* the log is rescored if the operator ticked it, and the window reads the file
\* again
Import(c, at, points, rescore) ==
  LET stored == fileRows \cup {Unscored(NextId, at, c, points)}
  IN /\ Idle /\ NextId \in Ids /\ trouble < MaxTrouble
     /\ fileRows' = stored
     /\ IF rescore
          THEN /\ job' = Job("import", ByTime(stored), Home)
               /\ UNCHANGED <<table, stale, unlinked, clean>>
          ELSE /\ table' = ByTime(stored)
               /\ stale' = {} /\ unlinked' = {} /\ clean' = FALSE
               /\ UNCHANGED job
     /\ trouble' = trouble + 1
     /\ UNCHANGED contest

DupeKey(c) ==
  IF DupeRule(contest) = "AllBandMode" THEN <<c.call, c.mode>>
  ELSE <<c.call, c.band, c.mode>>

Prefixed(c, m) == IF m.perBand THEN c.band ELSE NoBand

\* One row of rescoreContestSilent: what the earlier rows left in the keys and
\* in the worked values decides
Rescored(j) ==
  LET r == j.rows[j.next]
      dupe == DupeKey(r.c) \in j.keys
      worked(m) ==
        {v \in {w[3] : w \in j.worked} : <<m.type, Prefixed(r.c, m), v>> \in j.worked}
  IN [r EXCEPT
        !.dupe = dupe,
        !.points = IF dupe THEN 0 ELSE Points(contest, r.c, j.station),
        !.mults = {x \in {<<m.type, NewValue(contest, r.c, m.type, worked(m))>> :
                            m \in MultTypes(contest, Home)} : x[2] # ""}]

\* Mutant of Track: what a row claimed is not remembered
TrackKeysOnly(j) ==
  [j EXCEPT !.rows[j.next] = Rescored(j), !.next = j.next + 1,
            !.keys = @ \cup {DupeKey(j.rows[j.next].c)}]

Track(j) ==
  LET c == j.rows[j.next].c
  IN [j EXCEPT
        !.rows[j.next] = Rescored(j),
        !.next = j.next + 1,
        !.keys = j.keys \cup {DupeKey(c)},
        !.worked = j.worked \cup
           {w \in {<<m.type, Prefixed(c, m), Value(contest, c, m.type)>> :
                     m \in MultTypes(contest, Home)} : w[3] # ""}]

\* A row of the window without an id: updateQSO refuses it, which is only logged
NoIdToStore(row) == job.kind = "window" /\ row.id \in unlinked

\* The row's update has a transaction of its own; a refusal is only logged
RescoreRow(stored) ==
  /\ ~Idle /\ job.next <= Len(job.rows)
  /\ job' = Track(job)
  /\ LET row == Rescored(job)
     IN \/ /\ stored /\ ~NoIdToStore(row)
           /\ fileRows' = Written(row)
           /\ stale' = stale \ {row.id}
           /\ UNCHANGED trouble
        \/ /\ ~stored /\ ~NoIdToStore(row)
           /\ trouble < MaxTrouble /\ trouble' = trouble + 1
           /\ stale' = stale \cup {row.id}
           /\ UNCHANGED fileRows
        \/ /\ ~stored /\ NoIdToStore(row)
           /\ UNCHANGED <<fileRows, stale, trouble>>
  /\ UNCHANGED <<contest, table, unlinked, clean>>

\* Mutant of EndRescore: the window does not read the file after an import
EndRescoreUnread ==
  /\ ~Idle /\ job.next > Len(job.rows)
  /\ job' = NoJob /\ clean' = TRUE
  /\ table' = IF job.kind = "window" THEN job.rows ELSE table
  /\ UNCHANGED <<contest, fileRows, stale, unlinked, trouble>>

\* The window takes the rescored rows; after an import it takes the file's
EndRescore ==
  /\ ~Idle /\ job.next > Len(job.rows)
  /\ job' = NoJob
  /\ IF job.kind = "window"
       THEN table' = job.rows /\ clean' = TRUE /\ UNCHANGED <<stale, unlinked>>
       ELSE /\ table' = ByTime(fileRows) /\ clean' = (stale = {})
            /\ stale' = {} /\ unlinked' = {}
  /\ UNCHANGED <<contest, fileRows, trouble>>

------------------------------------------------------------------------------

ScoringInit ==
  /\ contest \in Contests
  /\ table = <<>> /\ fileRows = {} /\ job = NoJob
  /\ clean = TRUE /\ stale = {} /\ unlinked = {} /\ trouble = 0

ScoringNext ==
  \/ \E c \in Contacts, at \in Times :
       \/ LogQSO(c, at) \/ WsjtxQSO(c, at)
       \/ \E points \in {0, 9}, rescore \in BOOLEAN : Import(c, at, points, rescore)
  \/ \E i \in DOMAIN table, c \in Contacts, at \in Times : EditQSO(i, c, at)
  \/ \E cont \in SettingConts : Rescore(cont) \/ Activate(cont)
  \/ RescoreRow(TRUE) \/ RescoreRow(FALSE) \/ EndRescore

ScoringSpec == ScoringInit /\ [][ScoringNext]_scoringVars

------------------------------------------------------------------------------
(* The score: ScoreCalculationService::calculateScore *)

Counted(s) == {i \in DOMAIN s : s[i].c.band # NoBand}

\* The distinct values of a type, per band where the type counts per band
MultCount(s, m) ==
  Cardinality({<<Prefixed(s[i].c, m), Value(contest, s[i].c, m.type)>> :
                 i \in {j \in Counted(s) : Value(contest, s[j].c, m.type) # ""}})

Score(s) ==
  TotalScore(contest,
             MapThenSumSet(LAMBDA i : s[i].points, Counted(s)),
             MapThenSumSet(LAMBDA m : MultCount(s, m), MultTypes(contest, Home)),
             Home)

------------------------------------------------------------------------------
(* What scoring promises, said of the finished table *)

Claim == ClaimTypes \X STRING

\* What an edit may make of a contact: the country of one, the rest of another
Worked == {Edited(c, d) : c \in Contacts, d \in Contacts}

Row == [id : Ids, at : Times, c : Worked, dupe : BOOLEAN, points : Nat,
        mults : SUBSET Claim]

ScoringTypeOK ==
  /\ contest \in Contests
  /\ table \in Seq(Row) /\ fileRows \subseteq Row
  /\ Idle \/ /\ job.kind \in {"window", "import"}
             /\ job.rows \in Seq(Row) /\ job.station \in Scorers
             /\ job.next \in 1 .. Len(job.rows) + 1
  /\ clean \in BOOLEAN /\ stale \subseteq Ids /\ unlinked \subseteq Ids
  /\ trouble \in 0 .. MaxTrouble

IsDupe(s, i) == \E j \in 1 .. (i - 1) : DupeKey(s[j].c) = DupeKey(s[i].c)

IsFirst(s, i, m) ==
  LET v(j) == Value(contest, s[j].c, m.type)
  IN /\ v(i) # ""
     /\ contest \notin Sweepstakes =>
          \A j \in 1 .. (i - 1) :
            v(j) = v(i) => Prefixed(s[j].c, m) # Prefixed(s[i].c, m)

Worth(s, i, me) == IF IsDupe(s, i) THEN 0 ELSE Points(contest, s[i].c, me)

FirstClaims(s, i) ==
  {<<m.type, Value(contest, s[i].c, m.type)>> :
     m \in {t \in MultTypes(contest, Home) : IsFirst(s, i, t)}}

InTableOrder(s, i) ==
  /\ s[i].dupe = IsDupe(s, i)
  /\ s[i].points \in {Worth(s, i, me) : me \in Scorers}
  /\ s[i].mults = FirstClaims(s, i)

\* Scoring contact by contact and rescoring the log agree, whatever was logged
\* between rescores: of the contacts with one key the first has points and the
\* others have none, and a multiplier is claimed by the first that has it.  The
\* points are those of a station that scores, which need not be the same one
\* on every row.
ScoredInOrder == Idle /\ clean => \A i \in DOMAIN table : InTableOrder(table, i)

\* The claims marked on the rows are the multipliers the score is made of, so
\* the screen's totals and its marks tell the same story.  Sweepstakes marks
\* every contact, and the score leaves out contacts without a band.
ClaimsMakeTheScore ==
  Idle /\ clean /\ contest \notin Sweepstakes /\ Counted(table) = DOMAIN table =>
    \A m \in MultTypes(contest, Home) :
      Cardinality({i \in DOMAIN table : \E x \in table[i].mults : x[1] = m.type})
        = MultCount(table, m)

\* Contacts that are duplicates of each other are worth the same and the first
\* of them has a band.  Not when an edited contact keeps the country of another
\* call, nor when Sweepstakes, whose duplicates are those of all bands, has a
\* contact without a band.
OrderIsFree ==
  /\ contest \in Sweepstakes => Counted(table) = DOMAIN table
  /\ \A q, r \in fileRows :
       q.c.call = r.c.call =>
         /\ q.c.country = r.c.country /\ q.c.cont = r.c.cont
         /\ q.c.ituZone = r.c.ituZone

\* The contacts of the table were paid as the station me pays
PaidAs(me) ==
  \A i \in DOMAIN table : ~table[i].dupe => table[i].points = Points(contest, table[i].c, me)

Restarted(me) ==
  LET s == ByTime(fileRows)
  IN [i \in DOMAIN s |-> [s[i] EXCEPT !.points = Worth(s, i, me)]]

\* Restarting the program sorts the log by time and rescores it; that moves
\* duplicates and claims to other rows and changes the score only when the
\* settings pay some contact otherwise than it was paid
RestartKeepsScore ==
  \A cont \in SettingConts :
    Idle /\ clean /\ OrderIsFree /\ PaidAs(WindowStation(cont))
      => Score(Restarted(WindowStation(cont))) = Score(table)

\* A row on the screen is the row in the file, whichever way it was scored or
\* changed, but for the scores of two kinds of rows: those the database refused
\* to update, and those of WSJT-X contacts, which stay unscored in the file
\* until it is read again.  What was worked and when never differs.
FileFollowsTable ==
  Idle =>
    /\ {r.id : r \in RowsOf(table)} = {r.id : r \in fileRows}
    /\ \A r \in RowsOf(table), q \in fileRows : q.id = r.id =>
         /\ q.c = r.c /\ q.at = r.at
         /\ IF r.id \in unlinked THEN q = Unscored(q.id, q.at, q.c, 0)
            ELSE r.id \in stale \/ q = r

\* "1 point: Same ITU zone" (IARUHFContest.h:39), of contacts nobody touched
\* after they were scored
OwnZonePaysOne ==
  contest = "IARU_HF" /\ Idle /\ clean =>
    \A i \in DOMAIN table :
      table[i].c.ituZone = Home.ituZone /\ ~table[i].dupe => table[i].points = 1

\* "ALWAYS use cty.dat for geographic info derived from callsign"
\* (ContestManager.cpp:215), of the contests that read no ITU zone
CtyDatPays ==
  contest # "IARU_HF" /\ Idle /\ clean =>
    \A i \in DOMAIN table : table[i].points = Worth(table, i, Home)

\* After a rescore the file has the scores on the screen, when the database
\* refused none
RescoreIsStored == Idle /\ clean /\ stale = {} => RowsOf(table) = fileRows
==============================================================================
