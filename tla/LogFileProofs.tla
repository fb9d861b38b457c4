--------------------------- MODULE LogFileProofs ----------------------------
(***************************************************************************)
(* Proofs about the log and its file: no contact is lost in a restore and  *)
(* the backups keep up with the log (LogBackup), and the two ways to score *)
(* the log agree with each other and with the file (LogScoring).           *)
(***************************************************************************)
EXTENDS LogBackup, LogScoring, SequenceTheorems, FiniteSetTheorems,
        FunctionTheorems, WellFoundedInduction, TLAPS

-----------------------------------------------------------------------------
(***************************************************************************)
(* Backup and restore, for any interval, number of backups kept and bounds.*)
(***************************************************************************)

(* The constants, one by one.                                              *)
LEMMA Bounds ==
  /\ Interval \in Nat /\ Interval > 0 /\ MaxBackups \in Nat /\ MaxBackups > 0
  /\ MaxQSOs \in Nat /\ MaxTime \in Nat /\ MaxFaults \in Nat /\ MaxSetBacks \in Nat
BY IntervalAssumption, MaxBackupsAssumption, BackupBoundsAssumption

LEMMA FileFacts ==
  /\ Absent # Empty /\ Absent # None /\ Empty # None
  /\ Absent \notin Logs /\ Empty \notin Logs /\ None \notin Logs
  /\ In(Absent) = {} /\ In(Empty) = {} /\ In(None) = {}
  /\ \A log \in Logs : IsLog(log) /\ In(log) = log
BY FilesAssumption DEF Logs, QSOs, In, IsLog

(* TypeOK in two parts: the flags and the rest.                            *)
FlagsOK == dbOpen \in BOOLEAN /\ untouched \in BOOLEAN /\ steady \in BOOLEAN

Backups == [at : 0 .. MaxTime, rows : {Empty} \cup Logs]
DataOK ==
  /\ file \in {Absent, Empty} \cup Logs /\ wal \in {None} \cup Logs
  /\ broken \in {None, Empty} \cup Logs /\ source \in {None, Empty} \cup Logs
  /\ backups \subseteq Backups
  /\ worker \in {"none", "asked", "open"}
  /\ now \in 0 .. MaxTime /\ last \in 0 .. MaxQSOs /\ shown \in 0 .. MaxQSOs
  /\ pc \in {"ready", "closed", "cleared", "moved", "copied", "down"}
  /\ logged \in 0 .. MaxQSOs /\ faults \in 0 .. MaxFaults
  /\ setBacks \in 0 .. MaxSetBacks
  /\ owed \subseteq QSOs /\ slack \in 0 .. MaxQSOs

LEMMA TypeParts ==
  /\ TypeOK <=> FlagsOK /\ DataOK
  /\ TypeOK' <=> FlagsOK' /\ DataOK'
BY DEF TypeOK, FlagsOK, DataOK, Backups

(* A restore works on a closed database and a kept backup; there is no     *)
(* safety copy when the file is about to become it.                        *)
Restoring == pc \in {"closed", "cleared", "moved", "copied"}
RestoreInv ==
  /\ Restoring => ~dbOpen /\ \E b \in backups : source = b.rows
  /\ pc = "cleared" => broken = None /\ file # Absent
  /\ pc = "copied" => file = source
  /\ file = Absent => ~dbOpen

(* While nobody overwrote anything, a closed database has no WAL beside    *)
(* it, unless the program was killed.                                      *)
WalInv == untouched /\ ~dbOpen /\ pc # "down" => wal = None

(* Contacts are numbered as they are logged, and the counts count them.    *)
CountInv ==
  /\ In(file) \subseteq 1 .. logged /\ In(wal) \subseteq 1 .. logged
  /\ In(broken) \subseteq 1 .. logged /\ In(source) \subseteq 1 .. logged
  /\ \A b \in backups : In(b.rows) \subseteq 1 .. logged
  /\ shown <= logged /\ last <= logged /\ slack <= logged

(* Some backup lacks no more of a log than the screen grew since the last  *)
(* count, and less than the interval, besides the slack.                   *)
Kept == {b.rows : b \in backups} \cup {Empty}
Missing(log, rows) == Cardinality(log \ In(rows))
Covered(log) ==
  \E rows \in Kept : /\ Missing(log, rows) < Interval + slack
                     /\ Missing(log, rows) + last <= shown

(* That holds of the log, and of the safety copy when it may be renamed    *)
(* back to be the log.                                                     *)
CoverInv ==
  steady => /\ Covered(Rows)
            /\ file = Absent /\ wal = None => Covered(In(broken))

IInv ==
  /\ TypeOK /\ RestoreInv /\ WalInv /\ CountInv /\ CoverInv
  /\ LogSurvivesRestore

USE Bounds

-----------------------------------------------------------------------------
(* Counting what a backup lacks                                            *)

LEMMA LogsAreFinite ==
  ASSUME NEW log \in Logs
  PROVE  IsFiniteSet(log) /\ Cardinality(log) \in Nat
<1>1. IsFiniteSet(1 .. MaxQSOs)
  BY FS_Interval
<1>2. IsFiniteSet(log)
  BY <1>1, FS_Subset DEF Logs, QSOs
<1> QED
  BY <1>2, FS_CardinalityType

LEMMA MissingType ==
  ASSUME NEW log \in Logs, NEW rows
  PROVE  /\ Missing(log, rows) \in Nat
         /\ Missing(log, rows) <= Cardinality(log)
<1>1. log \ In(rows) \in Logs
  BY DEF Logs
<1>2. IsFiniteSet(log) /\ Cardinality(log) \in Nat
  BY LogsAreFinite
<1> QED
  BY <1>1, <1>2, LogsAreFinite, FS_Subset DEF Missing

LEMMA MissingNone ==
  ASSUME NEW log \in Logs
  PROVE  Missing(log, log) = 0
BY FileFacts, FS_EmptySet DEF Missing

LEMMA MissingLess ==
  ASSUME NEW log \in Logs, NEW less \in SUBSET log, NEW rows
  PROVE  Missing(less, rows) <= Missing(log, rows)
<1>1. log \ In(rows) \in Logs
  BY DEF Logs
<1>2. IsFiniteSet(log \ In(rows)) /\ less \ In(rows) \in SUBSET (log \ In(rows))
  BY <1>1, LogsAreFinite
<1> QED
  BY <1>2, FS_Subset DEF Missing

LEMMA MissingOneMore ==
  ASSUME NEW log \in Logs, NEW q \in QSOs, NEW rows
  PROVE  Missing(log \cup {q}, rows) <= Missing(log, rows) + 1
<1> DEFINE lack == log \ In(rows)
<1>1. lack \in Logs /\ lack \cup {q} \in Logs /\ (log \cup {q}) \ In(rows) \subseteq lack \cup {q}
  BY DEF Logs
<1>2. IsFiniteSet(lack) /\ Cardinality(lack) \in Nat /\ IsFiniteSet(lack \cup {q})
  BY <1>1, LogsAreFinite
<1>3. Cardinality(lack \cup {q}) <= Cardinality(lack) + 1
  BY <1>2, FS_AddElement
<1>4. /\ Cardinality((log \cup {q}) \ In(rows)) <= Cardinality(lack \cup {q})
      /\ Cardinality((log \cup {q}) \ In(rows)) \in Nat
      /\ Cardinality(lack \cup {q}) \in Nat
  BY <1>1, <1>2, FS_Subset, FS_CardinalityType
<1> QED
  BY <1>2, <1>3, <1>4 DEF Missing

(* The contacts of the log are a log.                                      *)
LEMMA RowsType ==
  ASSUME DataOK
  PROVE  Rows \in Logs /\ In(file) \in Logs /\ In(broken) \in Logs
<1>1. {} \in Logs
  BY DEF Logs
<1> QED
  BY <1>1, FileFacts DEF DataOK, Rows

LEMMA RowsTypeNext ==
  ASSUME DataOK'
  PROVE  Rows' \in Logs
<1>1. {} \in Logs
  BY DEF Logs
<1> QED
  BY <1>1, FileFacts DEF DataOK, Rows

(* What keeps a log covered: backups stay, the screen and the slack do not *)
(* shrink.                                                                 *)
LEMMA CoverStays ==
  ASSUME DataOK, DataOK', NEW log \in Logs, Covered(log), NEW less \in SUBSET log,
         backups \subseteq backups', last' = last, shown <= shown', slack <= slack'
  PROVE  \E rows \in Kept' : /\ Missing(less, rows) < Interval + slack'
                             /\ Missing(less, rows) + last' <= shown'
<1>1. PICK rows \in Kept : /\ Missing(log, rows) < Interval + slack
                           /\ Missing(log, rows) + last <= shown
  BY DEF Covered
<1>2. rows \in Kept'
  BY <1>1 DEF Kept
<1>3. less \in Logs
  BY DEF Logs
<1>4. /\ Missing(less, rows) \in Nat /\ Missing(log, rows) \in Nat
      /\ Missing(less, rows) <= Missing(log, rows)
  BY <1>3, MissingType, MissingLess
<1>5. /\ slack \in Nat /\ slack' \in Nat /\ shown \in Nat /\ shown' \in Nat /\ last \in Nat
  BY DEF DataOK
<1> QED
  BY <1>1, <1>2, <1>4, <1>5

-----------------------------------------------------------------------------
(* Taking backups                                                          *)

(* Whatever comes of an attempt, times and counters keep their types and   *)
(* every backup is an old one, an empty one or the one just taken.         *)
LEMMA AttemptFacts ==
  ASSUME DataOK, NEW rows \in Logs, Take(rows) \/ TakeFails
  PROVE  /\ now' \in 0 .. MaxTime /\ setBacks' \in 0 .. MaxSetBacks
         /\ faults' \in 0 .. MaxFaults /\ backups' \subseteq Backups
         /\ \A b \in backups' : b \in backups \/ b.rows \in {Empty, rows}
<1>1. CASE Take(rows)
  <2>1. ReadClock /\ backups' = Newest(backups \cup {[at |-> now', rows |-> rows]})
        /\ faults' = faults
    BY <1>1 DEF Take
  <2>2. now' \in 0 .. MaxTime /\ setBacks' \in 0 .. MaxSetBacks
    BY <2>1 DEF ReadClock, DataOK
  <2>3. backups' \subseteq backups \cup {[at |-> now', rows |-> rows]}
    BY <2>1 DEF Newest
  <2>4. backups' \subseteq Backups
    BY <2>2, <2>3 DEF DataOK, Backups
  <2>5. faults' \in 0 .. MaxFaults
    BY <2>1 DEF DataOK
  <2> QED
    BY <2>2, <2>3, <2>4, <2>5
<1>2. CASE TakeFails
  <2>1. now' \in 0 .. MaxTime /\ setBacks' \in 0 .. MaxSetBacks
    BY <1>2 DEF TakeFails, ReadClock, DataOK
  <2>2. faults' \in 0 .. MaxFaults
    BY <1>2 DEF TakeFails, Fault, DataOK
  <2>3. backups' = backups \/ backups' = backups \cup {[at |-> now', rows |-> Empty]}
    BY <1>2 DEF TakeFails
  <2>4. backups' \subseteq Backups
    BY <2>1, <2>3 DEF DataOK, Backups
  <2> QED
    BY <2>1, <2>2, <2>3, <2>4
<1> QED
  BY <1>1, <1>2

(* A failed attempt removes no backup; with a closed database it changes   *)
(* nothing.                                                                *)
LEMMA FailedAttempt ==
  ASSUME TakeFails
  PROVE  /\ backups \subseteq backups'
         /\ ~dbOpen => UNCHANGED <<backups, now, setBacks, faults>>
BY DEF TakeFails

(* A backup dated after all others survives the rotation.                  *)
LEMMA NewestIsKept ==
  ASSUME DataOK, NEW rows \in Logs, Take(rows), InOrder
  PROVE  \E b \in backups' : b.rows = rows
<1> DEFINE new == [at |-> now', rows |-> rows]
           all == backups \cup {new}
<1>1. /\ backups' = Newest(all) /\ now' \in 0 .. MaxTime
      /\ \A b \in backups : b.at <= now' /\ b.at \in 0 .. MaxTime
  BY DEF Take, InOrder, ReadClock, DataOK, Backups
<1>2. {c \in all : c.at > new.at} = {}
  BY <1>1
<1>3. Cardinality({c \in all : c.at > new.at}) < MaxBackups
  BY <1>2, FS_EmptySet
<1>4. new \in Newest(all)
  BY <1>3 DEF Newest
<1>5. new.rows = rows
  OBVIOUS
<1> QED
  BY <1>1, <1>4, <1>5

(* A log that was just backed up is covered, if the screen was not cleared *)
(* since the last count.                                                   *)
LEMMA BackedUpIsCovered ==
  ASSUME DataOK', NEW log \in Logs, \E b \in backups' : b.rows = log,
         last' <= shown'
  PROVE  \E rows \in Kept' : /\ Missing(log, rows) < Interval + slack'
                             /\ Missing(log, rows) + last' <= shown'
<1>1. log \in Kept'
  BY DEF Kept
<1>2. Missing(log, log) = 0
  BY MissingNone
<1>3. slack' \in Nat /\ shown' \in Nat /\ last' \in Nat
  BY DEF DataOK
<1> QED
  BY <1>1, <1>2, <1>3

(* An empty log is covered by anything.                                    *)
LEMMA EmptyIsCovered ==
  ASSUME DataOK', last' <= shown'
  PROVE  \E rows \in Kept' : /\ Missing({}, rows) < Interval + slack'
                             /\ Missing({}, rows) + last' <= shown'
<1>1. Empty \in Kept'
  BY DEF Kept
<1>2. Missing({}, Empty) = 0
  BY FS_EmptySet DEF Missing
<1>3. slack' \in Nat /\ shown' \in Nat /\ last' \in Nat
  BY DEF DataOK
<1> QED
  BY <1>1, <1>2, <1>3

-----------------------------------------------------------------------------
(* The initial states                                                      *)

LEMMA InitInv == Init => IInv
<1> SUFFICES ASSUME Init PROVE IInv
  OBVIOUS
<1>1. FlagsOK
  BY DEF Init, FlagsOK
<1>2. DataOK
  BY DEF Init, DataOK, Logs
<1>3. RestoreInv
  BY FileFacts DEF Init, RestoreInv, Restoring, Logs
<1>4. WalInv
  BY DEF Init, WalInv
<1>5. In(file) = {} /\ In(wal) = {} /\ In(broken) = {} /\ In(source) = {} /\ Rows = {}
  BY FileFacts DEF Init, Logs, Rows
<1>6. CountInv
  BY <1>5 DEF Init, CountInv
<1>7. CoverInv
  <2>1. Missing({}, Empty) = 0
    BY FS_EmptySet DEF Missing
  <2>2. Covered({})
    BY <2>1 DEF Init, Covered, Kept
  <2> QED
    BY <1>5, <2>2 DEF CoverInv
<1>8. LogSurvivesRestore
  BY <1>5 DEF Init, LogSurvivesRestore
<1> QED
  BY <1>1, <1>2, <1>3, <1>4, <1>6, <1>7, <1>8, TypeParts DEF IInv

-----------------------------------------------------------------------------
(* The log                                                                 *)

(* A contact that is stored is owed and in the log; one that is refused is *)
(* neither.                                                                *)
LEMMA StoreFacts ==
  ASSUME IInv, Store
  PROVE  /\ pc = "ready" /\ logged' = logged + 1 /\ logged < MaxQSOs /\ shown' = shown + 1
         /\ UNCHANGED <<file, broken, dbOpen, worker, pc, source, untouched>>
         /\ wal' \in {None} \cup Logs /\ owed' \subseteq QSOs /\ Rows' \in Logs
         /\ wal' = wal \/ dbOpen
         /\ Rows' = Rows \/ Rows' = Rows \cup {logged + 1}
         /\ In(wal') \subseteq 1 .. logged'
         /\ LogSurvivesRestore'
<1>1. /\ pc = "ready" /\ logged' = logged + 1 /\ logged < MaxQSOs /\ shown' = shown + 1
      /\ UNCHANGED <<file, broken, dbOpen, worker, pc, source, untouched>>
      /\ IF dbOpen THEN wal' = Rows \cup {logged + 1} /\ owed' = owed \cup {logged + 1}
                   ELSE wal' = wal /\ owed' = owed
  BY DEF Store, NextQSO
<1>2. DataOK /\ CountInv /\ LogSurvivesRestore
  BY TypeParts DEF IInv
<1>3. Rows \in Logs /\ In(broken) \in Logs /\ logged \in Nat
  BY <1>2, RowsType DEF DataOK
<1>4. logged + 1 \in QSOs
  BY <1>1, <1>3 DEF QSOs
<1>5. CASE dbOpen
  <2>1. wal' = Rows \cup {logged + 1} /\ owed' = owed \cup {logged + 1}
    BY <1>1, <1>5
  <2>2. wal' \in Logs /\ owed' \subseteq QSOs
    BY <1>2, <1>3, <1>4, <2>1 DEF Logs, DataOK
  <2>3. Rows' = wal' /\ In(wal') = wal'
    BY <2>2, FileFacts DEF Rows
  <2>4. Rows \subseteq 1 .. logged
    BY <1>2, FileFacts DEF CountInv, Rows, DataOK
  <2>5. In(wal') \subseteq 1 .. logged'
    <3>1. logged' = logged + 1
      BY <1>1
    <3>2. \A x \in (1 .. logged) \cup {logged + 1} : x \in 1 .. logged'
      BY <1>3, <3>1
    <3> QED
      BY <2>1, <2>3, <2>4, <3>2
  <2>6. LogSurvivesRestore'
    BY <1>1, <1>2, <2>1, <2>3 DEF LogSurvivesRestore
  <2> QED
    BY <1>1, <1>5, <2>1, <2>2, <2>3, <2>5, <2>6
<1>6. CASE ~dbOpen
  <2>1. wal' = wal /\ owed' = owed /\ Rows' = Rows
    BY <1>1, <1>6 DEF Rows
  <2>2. In(wal') \subseteq 1 .. logged'
    BY <1>1, <1>2, <1>3, <2>1 DEF CountInv
  <2> QED
    BY <1>1, <1>2, <1>3, <2>1, <2>2 DEF DataOK, LogSurvivesRestore
<1> QED
  BY <1>5, <1>6

(* A contact more on the screen covers a contact more in the log, as long  *)
(* as the count stays below the interval or somebody took note.            *)
LEMMA CoverGrows ==
  ASSUME DataOK, DataOK', NEW log \in Logs, Covered(log), NEW q \in QSOs,
         backups \subseteq backups', last' = last, shown' = shown + 1,
         \/ slack' = slack + 1
         \/ shown + 1 < last + Interval /\ slack' = slack
  PROVE  /\ \E rows \in Kept' : /\ Missing(log \cup {q}, rows) < Interval + slack'
                                /\ Missing(log \cup {q}, rows) + last' <= shown'
         /\ \E rows \in Kept' : /\ Missing(log, rows) < Interval + slack'
                                /\ Missing(log, rows) + last' <= shown'
<1>1. PICK rows \in Kept : /\ Missing(log, rows) < Interval + slack
                           /\ Missing(log, rows) + last <= shown
  BY DEF Covered
<1>2. rows \in Kept'
  BY <1>1 DEF Kept
<1>3. log \cup {q} \in Logs
  BY DEF Logs
<1>4. /\ Missing(log \cup {q}, rows) \in Nat /\ Missing(log, rows) \in Nat
      /\ Missing(log \cup {q}, rows) <= Missing(log, rows) + 1
  BY <1>3, MissingType, MissingOneMore
<1>5. slack \in Nat /\ shown \in Nat /\ last \in Nat
  BY DEF DataOK
<1>6. /\ Missing(log \cup {q}, rows) < Interval + slack'
      /\ Missing(log \cup {q}, rows) + last' <= shown'
  BY <1>1, <1>4, <1>5
<1>7. /\ Missing(log, rows) < Interval + slack'
      /\ Missing(log, rows) + last' <= shown'
  BY <1>1, <1>4, <1>5
<1> QED
  BY <1>2, <1>6, <1>7

(* The log and the safety copy are covered after a contact more.           *)
LEMMA CoverAfterStore ==
  ASSUME IInv, Store, DataOK', steady,
         backups \subseteq backups', last' = last,
         \/ slack' = slack + 1
         \/ shown + 1 < last + Interval /\ slack' = slack
  PROVE  CoverInv'
<1>1. /\ shown' = shown + 1 /\ (Rows' = Rows \/ Rows' = Rows \cup {logged + 1})
      /\ logged < MaxQSOs /\ file' = file /\ broken' = broken /\ (wal' = wal \/ dbOpen)
  BY StoreFacts
<1>2. DataOK /\ CoverInv /\ RestoreInv
  BY TypeParts DEF IInv
<1>3. Rows \in Logs /\ In(broken) \in Logs
  BY <1>2, RowsType
<1>4. logged + 1 \in QSOs
  BY <1>1, <1>2 DEF QSOs, DataOK
<1>5. Covered(Rows)'
  <2>1. Covered(Rows)
    BY <1>2 DEF CoverInv
  <2> QED
    BY <1>1, <1>2, <1>3, <1>4, <2>1, CoverGrows DEF Covered
<1>6. ASSUME (file = Absent /\ wal = None)'
      PROVE  Covered(In(broken))'
  <2>1. file = Absent /\ wal = None
    BY <1>1, <1>2, <1>6 DEF RestoreInv
  <2>2. Covered(In(broken))
    BY <1>2, <2>1 DEF CoverInv
  <2> QED
    BY <1>1, <1>2, <1>3, <1>4, <2>2, CoverGrows DEF Covered
<1> QED
  BY <1>5, <1>6 DEF CoverInv

(* Types, restore and count parts of the invariant after a contact and an  *)
(* attempt at a backup, or none.                                           *)
LEMMA StoreKeepsTheRest ==
  ASSUME IInv, Store,
         now' \in 0 .. MaxTime, setBacks' \in 0 .. MaxSetBacks, faults' \in 0 .. MaxFaults,
         backups' \subseteq Backups, steady' \in BOOLEAN,
         \A b \in backups' : b \in backups \/ b.rows \in {Empty, Rows'},
         last' \in {last, shown + 1}, slack' \in {0, slack, slack + 1}
  PROVE  TypeOK' /\ RestoreInv' /\ WalInv' /\ CountInv' /\ LogSurvivesRestore'
<1>1. /\ pc = "ready" /\ logged' = logged + 1 /\ logged < MaxQSOs /\ shown' = shown + 1
      /\ UNCHANGED <<file, broken, dbOpen, worker, pc, source, untouched>>
      /\ wal' \in {None} \cup Logs /\ owed' \subseteq QSOs
      /\ wal' = wal \/ dbOpen
      /\ In(wal') \subseteq 1 .. logged'
  BY StoreFacts
<1>2. FlagsOK /\ DataOK /\ RestoreInv /\ WalInv /\ CountInv
  BY TypeParts DEF IInv
<1>3. FlagsOK'
  BY <1>1, <1>2 DEF FlagsOK
<1>4. logged \in Nat /\ logged' = logged + 1 /\ logged' \in 0 .. MaxQSOs
  BY <1>1, <1>2 DEF DataOK
<1>5. \A x \in 1 .. logged : x \in 1 .. logged'
  BY <1>4
<1>6. shown' <= logged' /\ last' <= logged' /\ slack' <= logged'
      /\ shown' \in Nat /\ last' \in Nat /\ slack' \in Nat
  BY <1>1, <1>2, <1>4 DEF CountInv, DataOK
<1>7. DataOK'
  BY <1>1, <1>2, <1>4, <1>6 DEF DataOK
<1>8. RestoreInv'
  BY <1>1, <1>2 DEF RestoreInv, Restoring
<1>9. WalInv'
  BY <1>1, <1>2 DEF WalInv
<1>10. CountInv'
  <2>1. Rows' \in {wal', In(file')}
    BY DEF Rows
  <2>2. Rows' \in Logs
    BY StoreFacts
  <2>3. In(Rows') = Rows' /\ In(Empty) = {}
    BY <2>2, FileFacts
  <2>4. In(file') \subseteq 1 .. logged' /\ In(Rows') \subseteq 1 .. logged'
    <3>1. In(file') \subseteq 1 .. logged'
      BY <1>1, <1>2, <1>5 DEF CountInv
    <3> QED
      BY <1>1, <2>1, <2>3, <3>1
  <2>5. \A b \in backups' : In(b.rows) \subseteq 1 .. logged'
    BY <1>2, <1>5, <2>3, <2>4 DEF CountInv
  <2>6. In(broken') \subseteq 1 .. logged' /\ In(source') \subseteq 1 .. logged'
    BY <1>1, <1>2, <1>5 DEF CountInv
  <2> QED
    BY <1>1, <1>6, <2>4, <2>5, <2>6 DEF CountInv
<1>11. LogSurvivesRestore'
  BY StoreFacts
<1> QED
  BY <1>3, <1>7, <1>8, <1>9, <1>10, <1>11, TypeParts

LEMMA LogKeeps ==
  ASSUME IInv, Log
  PROVE  IInv'
<1>1. Store /\ AutoBackup(Rows', shown + 1)
  BY DEF Log
<1>2. FlagsOK /\ DataOK
  BY TypeParts DEF IInv
<1>3. Rows' \in Logs /\ shown' = shown + 1
  BY <1>1, StoreFacts
<1>4. CASE shown + 1 < last + Interval
  <2>1. UNCHANGED <<backups, now, setBacks, last, faults, steady, slack>>
    BY <1>1, <1>4 DEF AutoBackup
  <2>2. /\ now' \in 0 .. MaxTime /\ setBacks' \in 0 .. MaxSetBacks /\ faults' \in 0 .. MaxFaults
        /\ backups' \subseteq Backups
    BY <1>2, <2>1 DEF DataOK
  <2>3. steady' \in BOOLEAN
    BY <1>2, <2>1 DEF FlagsOK
  <2>4. TypeOK' /\ RestoreInv' /\ WalInv' /\ CountInv' /\ LogSurvivesRestore'
    BY <1>1, <2>1, <2>2, <2>3, StoreKeepsTheRest
  <2>5. CoverInv'
    <3>1. CASE steady
      BY <1>1, <1>4, <2>1, <2>4, <3>1, CoverAfterStore, TypeParts
    <3>2. CASE ~steady
      BY <2>1, <3>2 DEF CoverInv
    <3> QED
      BY <3>1, <3>2
  <2> QED
    BY <2>4, <2>5 DEF IInv
<1>5. CASE Take(Rows') /\ last' = shown + 1 /\ steady' = InOrder
  <2>1. /\ now' \in 0 .. MaxTime /\ setBacks' \in 0 .. MaxSetBacks
        /\ faults' \in 0 .. MaxFaults /\ backups' \subseteq Backups
        /\ \A b \in backups' : b \in backups \/ b.rows \in {Empty, Rows'}
    BY <1>2, <1>3, <1>5, AttemptFacts
  <2>2. steady' \in BOOLEAN
    BY <1>5 DEF InOrder
  <2>3. slack' = 0
    BY <1>5 DEF Take
  <2>4. TypeOK' /\ RestoreInv' /\ WalInv' /\ CountInv' /\ LogSurvivesRestore'
    BY <1>1, <1>5, <2>1, <2>2, <2>3, StoreKeepsTheRest
  <2>5. ASSUME steady' PROVE Covered(Rows)'
    <3>1. \E b \in backups' : b.rows = Rows'
      BY <1>2, <1>3, <1>5, <2>5, NewestIsKept
    <3>2. last' <= shown' /\ DataOK'
      BY <1>2, <1>3, <1>5, <2>4, TypeParts DEF DataOK
    <3> QED
      BY <1>3, <3>1, <3>2, BackedUpIsCovered DEF Covered
  <2>6. ~(file = Absent)'
    <3>1. dbOpen /\ file' = file
      BY <1>1, <1>5, StoreFacts DEF Take
    <3> QED
      BY <3>1 DEF IInv, RestoreInv
  <2>7. CoverInv'
    BY <2>5, <2>6 DEF CoverInv
  <2> QED
    BY <2>4, <2>7 DEF IInv
<1>6. CASE TakeFails /\ slack' = slack + 1 /\ last' = last /\ steady' = steady
  <2>1. /\ now' \in 0 .. MaxTime /\ setBacks' \in 0 .. MaxSetBacks
        /\ faults' \in 0 .. MaxFaults /\ backups' \subseteq Backups
        /\ \A b \in backups' : b \in backups \/ b.rows \in {Empty, Rows'}
    BY <1>2, <1>3, <1>6, AttemptFacts
  <2>2. steady' \in BOOLEAN
    BY <1>2, <1>6 DEF FlagsOK
  <2>3. TypeOK' /\ RestoreInv' /\ WalInv' /\ CountInv' /\ LogSurvivesRestore'
    BY <1>1, <1>6, <2>1, <2>2, StoreKeepsTheRest
  <2>4. CoverInv'
    <3>1. CASE steady
      <4>1. backups \subseteq backups' /\ DataOK'
        BY <1>6, <2>3, FailedAttempt, TypeParts
      <4> QED
        BY <1>1, <1>6, <3>1, <4>1, CoverAfterStore
    <3>2. CASE ~steady
      BY <1>6, <3>2 DEF CoverInv
    <3> QED
      BY <3>1, <3>2
  <2> QED
    BY <2>3, <2>4 DEF IInv
<1> QED
  BY <1>1, <1>4, <1>5, <1>6 DEF AutoBackup

LEMMA LogQuietlyKeeps ==
  ASSUME IInv, LogQuietly
  PROVE  IInv'
<1>1. /\ Store /\ slack' = slack + 1
      /\ UNCHANGED <<backups, now, setBacks, last, faults, steady>>
  BY DEF LogQuietly
<1>2. FlagsOK /\ DataOK
  BY TypeParts DEF IInv
<1>3. /\ now' \in 0 .. MaxTime /\ setBacks' \in 0 .. MaxSetBacks /\ faults' \in 0 .. MaxFaults
      /\ backups' \subseteq Backups
  BY <1>1, <1>2 DEF DataOK
<1>4. steady' \in BOOLEAN
  BY <1>1, <1>2 DEF FlagsOK
<1>5. TypeOK' /\ RestoreInv' /\ WalInv' /\ CountInv' /\ LogSurvivesRestore'
  BY <1>1, <1>3, <1>4, StoreKeepsTheRest
<1>6. CoverInv'
  <2>1. CASE steady
    BY <1>1, <1>5, <2>1, CoverAfterStore, TypeParts
  <2>2. CASE ~steady
    BY <1>1, <2>2 DEF CoverInv
  <2> QED
    BY <2>1, <2>2
<1> QED
  BY <1>5, <1>6 DEF IInv

LEMMA ManualBackupKeeps ==
  ASSUME IInv, ManualBackup
  PROVE  IInv'
<1>1. /\ pc = "ready" /\ UNCHANGED <<wal, broken, dbOpen, worker, shown, pc, source, owed, untouched>>
      /\ file' = file /\ last' = last /\ logged' = logged
      /\ Take(Rows) \/ TakeFails
  BY DEF ManualBackup, files
<1>2. /\ FlagsOK /\ DataOK /\ RestoreInv /\ WalInv /\ CountInv /\ CoverInv
      /\ LogSurvivesRestore
  BY TypeParts DEF IInv
<1>3. Rows \in Logs /\ Rows' = Rows
  BY <1>1, <1>2, RowsType DEF Rows
<1>4. /\ now' \in 0 .. MaxTime /\ setBacks' \in 0 .. MaxSetBacks
      /\ faults' \in 0 .. MaxFaults /\ backups' \subseteq Backups
      /\ \A b \in backups' : b \in backups \/ b.rows \in {Empty, Rows}
  BY <1>1, <1>2, <1>3, AttemptFacts
<1>5. slack' \in {0, slack}
  BY DEF ManualBackup, Take
<1>6. steady' \in BOOLEAN
  BY <1>2 DEF ManualBackup, InOrder, FlagsOK
<1>7. FlagsOK'
  BY <1>1, <1>2, <1>6 DEF FlagsOK
<1>8. DataOK'
  <2>1. slack' \in 0 .. MaxQSOs
    BY <1>2, <1>5 DEF DataOK
  <2> QED
    BY <1>1, <1>2, <1>4, <2>1 DEF DataOK
<1>9. RestoreInv' /\ WalInv'
  BY <1>1, <1>2 DEF RestoreInv, Restoring, WalInv
<1>10. CountInv'
  <2>1. In(Rows) \subseteq 1 .. logged /\ In(Empty) \subseteq 1 .. logged
    BY <1>2, <1>3, FileFacts DEF CountInv, Rows, DataOK
  <2>2. slack' <= logged'
    BY <1>1, <1>2, <1>5 DEF CountInv, DataOK
  <2> QED
    BY <1>1, <1>2, <1>4, <2>1, <2>2 DEF CountInv
<1>11. CoverInv'
  <2>1. CASE Take(Rows) /\ steady' = (InOrder /\ last <= shown)
    <3>1. ~(file = Absent)'
      BY <1>1, <1>2, <2>1 DEF Take, RestoreInv
    <3>2. ASSUME steady' PROVE Covered(Rows)'
      <4>1. \E b \in backups' : b.rows = Rows
        BY <1>2, <1>3, <2>1, <3>2, NewestIsKept
      <4>2. last' <= shown'
        BY <1>1, <2>1, <3>2
      <4> QED
        BY <1>3, <1>8, <4>1, <4>2, BackedUpIsCovered DEF Covered
    <3> QED
      BY <3>1, <3>2 DEF CoverInv
  <2>2. CASE TakeFails /\ steady' = steady /\ slack' = slack
    <3>1. backups \subseteq backups' /\ last' = last /\ shown <= shown' /\ slack <= slack'
      BY <1>1, <1>2, <2>2, FailedAttempt DEF DataOK
    <3>2. \A log \in Logs : Covered(log) =>
            \E rows \in Kept' : /\ Missing(log, rows) < Interval + slack'
                                /\ Missing(log, rows) + last' <= shown'
      BY <1>2, <1>8, <3>1, CoverStays
    <3>3. In(broken) \in Logs
      BY <1>2, RowsType
    <3> QED
      BY <1>1, <1>2, <1>3, <2>2, <3>2, <3>3 DEF CoverInv, Covered
  <2> QED
    BY <2>1, <2>2 DEF ManualBackup
<1>12. LogSurvivesRestore'
  BY <1>1, <1>2, <1>3 DEF LogSurvivesRestore
<1> QED
  BY <1>7, <1>8, <1>9, <1>10, <1>11, <1>12, TypeParts DEF IInv

LEMMA ClearKeeps ==
  ASSUME IInv, Clear
  PROVE  IInv'
<1>1. /\ pc = "ready" /\ dbOpen
      /\ UNCHANGED <<file, broken, dbOpen, worker, last, pc, source, logged, untouched>>
      /\ wal' = {} /\ owed' = {} /\ shown' = 0 /\ steady' = (steady /\ last = 0)
      /\ \/ Take(Rows) \/ TakeFails \/ UNCHANGED <<backups, now, setBacks, faults>>
  BY DEF Clear
<1>2. FlagsOK /\ DataOK /\ RestoreInv /\ WalInv /\ CountInv
  BY TypeParts DEF IInv
<1>3. Rows \in Logs
  BY <1>2, RowsType
<1>4. /\ now' \in 0 .. MaxTime /\ setBacks' \in 0 .. MaxSetBacks
      /\ faults' \in 0 .. MaxFaults /\ backups' \subseteq Backups
      /\ \A b \in backups' : b \in backups \/ b.rows \in {Empty, Rows}
  <2>1. CASE Take(Rows) \/ TakeFails
    BY <1>2, <1>3, <2>1, AttemptFacts
  <2>2. CASE UNCHANGED <<backups, now, setBacks, faults>>
    BY <1>2, <2>2 DEF DataOK
  <2> QED
    BY <1>1, <2>1, <2>2
<1>5. slack' \in {0, slack}
  BY DEF Clear, Take
<1>6. FlagsOK'
  BY <1>1, <1>2 DEF FlagsOK
<1>7. wal' \in Logs /\ {} \in Logs
  BY <1>1 DEF Logs
<1>8. DataOK'
  <2>1. slack' \in 0 .. MaxQSOs /\ shown' \in 0 .. MaxQSOs
    BY <1>1, <1>2, <1>5 DEF DataOK
  <2> QED
    BY <1>1, <1>2, <1>4, <1>7, <2>1 DEF DataOK
<1>9. RestoreInv' /\ WalInv'
  BY <1>1, <1>2 DEF RestoreInv, Restoring, WalInv
<1>10. CountInv'
  <2>1. In(Rows) \subseteq 1 .. logged /\ In(Empty) \subseteq 1 .. logged
    BY <1>2, <1>3, FileFacts DEF CountInv, Rows, DataOK
  <2>2. slack' <= logged' /\ shown' <= logged'
    BY <1>1, <1>2, <1>5 DEF CountInv, DataOK
  <2>3. In(wal') = {}
    BY <1>1, <1>7, FileFacts
  <2> QED
    BY <1>1, <1>2, <1>4, <2>1, <2>2, <2>3 DEF CountInv
<1>11. Rows' = {}
  BY <1>1, <1>7, FileFacts DEF Rows
<1>12. CoverInv'
  <2>1. ASSUME steady' PROVE Covered(Rows)'
    <3>1. last' = 0 /\ shown' = 0
      <4>1. steady' = (steady /\ last = 0)
        BY <1>1
      <4>2. last = 0
        BY <2>1, <4>1
      <4> QED
        BY <1>1, <4>2
    <3> QED
      BY <1>8, <1>11, <3>1, EmptyIsCovered DEF Covered
  <2>2. ~(wal = None)'
    BY <1>7, FileFacts
  <2> QED
    BY <2>1, <2>2 DEF CoverInv
<1>13. LogSurvivesRestore'
  BY <1>1 DEF LogSurvivesRestore
<1> QED
  BY <1>6, <1>8, <1>9, <1>10, <1>12, <1>13, TypeParts DEF IInv

-----------------------------------------------------------------------------
(* Opening and closing                                                     *)

(* Closing the database does not change the log.                           *)
LEMMA CloseFacts ==
  ASSUME IInv, \/ file' = Rows /\ wal' = None
               \/ UNCHANGED <<file, wal>>
  PROVE  /\ Rows' = Rows
         /\ file' \in {file, Rows} /\ wal' \in {wal, None}
         /\ file' = Absent => file = Absent /\ wal' = wal
         /\ file' \in {Absent, Empty} \cup Logs /\ wal' \in {None} \cup Logs
         /\ In(file') \subseteq 1 .. logged /\ In(wal') \subseteq 1 .. logged
<1>1. DataOK /\ CountInv /\ RestoreInv
  BY TypeParts DEF IInv
<1>2. Rows \in Logs /\ In(Rows) = Rows
  BY <1>1, RowsType, FileFacts
<1>3. In(Rows) \subseteq 1 .. logged
  BY <1>1, <1>2, FileFacts DEF CountInv, Rows, DataOK
<1>4. CASE UNCHANGED <<file, wal>>
  BY <1>1, <1>4 DEF Rows, CountInv, DataOK
<1>5. CASE file' = Rows /\ wal' = None
  <2>1. Rows' = Rows
    BY <1>2, <1>5 DEF Rows
  <2>2. file' # Absent /\ In(wal') = {}
    BY <1>2, <1>5, FileFacts
  <2> QED
    BY <1>2, <1>3, <1>5, <2>1, <2>2
<1> QED
  BY <1>4, <1>5

(* Steps that leave the log, the backups and the counts alone.             *)
LEMMA CoverUnchanged ==
  ASSUME IInv, DataOK', Rows' = Rows,
         UNCHANGED <<broken, backups, last, slack>>,
         steady' => steady, steady' => shown' = shown,
         (file = Absent /\ wal = None)' => file = Absent /\ wal = None
  PROVE  CoverInv'
<1>1. DataOK /\ CoverInv
  BY TypeParts DEF IInv
<1>2. Rows \in Logs /\ In(broken) \in Logs
  BY <1>1, RowsType
<1>3. Kept' = Kept
  BY DEF Kept
<1>4. CASE ~steady'
  BY <1>4 DEF CoverInv
<1>5. CASE steady'
  <2>1. shown' = shown /\ steady
    BY <1>5
  <2>2. Covered(Rows)'
    BY <1>1, <1>3, <2>1 DEF CoverInv, Covered
  <2>3. ASSUME (file = Absent /\ wal = None)' PROVE Covered(In(broken))'
    BY <1>1, <1>3, <2>1, <2>3 DEF CoverInv, Covered
  <2> QED
    BY <2>2, <2>3 DEF CoverInv
<1> QED
  BY <1>4, <1>5

LEMMA AskWorkerKeeps ==
  ASSUME IInv, AskWorker \/ UNCHANGED vars
  PROVE  IInv'
<1>1. /\ UNCHANGED <<file, wal, broken, backups, dbOpen, now, last, shown, pc, source>>
      /\ UNCHANGED <<logged, faults, setBacks, owed, untouched, steady, slack>>
      /\ worker' \in {worker, "asked"}
  BY DEF AskWorker, vars, disk, files, bounds, history
<1>2. /\ FlagsOK /\ DataOK /\ RestoreInv /\ WalInv /\ CountInv /\ CoverInv
      /\ LogSurvivesRestore
  BY TypeParts DEF IInv
<1>3. FlagsOK'
  BY <1>1, <1>2 DEF FlagsOK
<1>4. DataOK'
  BY <1>1, <1>2 DEF DataOK
<1>5. RestoreInv' /\ WalInv' /\ CountInv'
  BY <1>1, <1>2 DEF RestoreInv, Restoring, WalInv, CountInv
<1>6. Rows' = Rows
  BY <1>1 DEF Rows
<1>7. CoverInv'
  BY <1>1, <1>4, <1>6, CoverUnchanged
<1>8. LogSurvivesRestore'
  BY <1>1, <1>2, <1>6 DEF LogSurvivesRestore
<1> QED
  BY <1>3, <1>4, <1>5, <1>7, <1>8, TypeParts DEF IInv

LEMMA OpenWorkerKeeps ==
  ASSUME IInv, OpenWorker
  PROVE  IInv'
<1>1. /\ UNCHANGED <<wal, broken, backups, dbOpen, now, last, shown, pc, source>>
      /\ UNCHANGED <<logged, faults, setBacks, owed, untouched, steady, slack>>
      /\ worker' = "open" /\ file' = IF file = Absent THEN Empty ELSE file
  BY DEF OpenWorker, bounds, history
<1>2. /\ FlagsOK /\ DataOK /\ RestoreInv /\ WalInv /\ CountInv /\ CoverInv
      /\ LogSurvivesRestore
  BY TypeParts DEF IInv
<1>3. FlagsOK'
  BY <1>1, <1>2 DEF FlagsOK
<1>4. DataOK'
  BY <1>1, <1>2 DEF DataOK
<1>5. In(file') = In(file) /\ file' # Absent
  BY <1>1, FileFacts
<1>6. RestoreInv'
  <2>1. source # Absent
    BY <1>2, FileFacts DEF DataOK
  <2>2. (pc = "copied" => file = source)'
    BY <1>1, <1>2, <2>1 DEF RestoreInv
  <2> QED
    BY <1>1, <1>2, <1>5, <2>2 DEF RestoreInv, Restoring
<1>7. WalInv' /\ CountInv'
  BY <1>1, <1>2, <1>5 DEF WalInv, CountInv
<1>8. Rows' = Rows
  BY <1>1, <1>5 DEF Rows
<1>9. CoverInv'
  BY <1>1, <1>4, <1>5, <1>8, CoverUnchanged
<1>10. LogSurvivesRestore'
  BY <1>1, <1>2, <1>8 DEF LogSurvivesRestore
<1> QED
  BY <1>3, <1>4, <1>6, <1>7, <1>9, <1>10, TypeParts DEF IInv

(* The screen shows what was read, of which a backup cannot lack more than *)
(* all.                                                                    *)
LEMMA ReadAnew ==
  ASSUME IInv, DataOK', Rows' = Rows, UNCHANGED <<backups, slack>>,
         last' = 0, shown' = Cardinality(Rows), steady
  PROVE  Covered(Rows)'
<1>1. DataOK /\ CoverInv
  BY TypeParts DEF IInv
<1>2. Rows \in Logs
  BY <1>1, RowsType
<1>3. PICK rows \in Kept : Missing(Rows, rows) < Interval + slack
  BY <1>1 DEF CoverInv, Covered
<1>4. rows \in Kept' /\ Missing(Rows, rows) < Interval + slack'
  BY <1>3 DEF Kept
<1>5. Missing(Rows, rows) \in Nat /\ Missing(Rows, rows) + 0 <= Cardinality(Rows)
  BY <1>2, MissingType
<1> QED
  BY <1>4, <1>5 DEF Covered

(* As many contacts are shown as there are, no more than were logged.      *)
LEMMA ShownFacts ==
  ASSUME IInv
  PROVE  Cardinality(Rows) \in 0 .. MaxQSOs /\ Cardinality(Rows) <= logged
<1>1. DataOK /\ CountInv
  BY TypeParts DEF IInv
<1>2. Rows \in Logs /\ In(Rows) = Rows
  BY <1>1, RowsType, FileFacts
<1>3. Rows \subseteq 1 .. logged
  BY <1>1, <1>2, FileFacts DEF CountInv, Rows, DataOK
<1>4. logged \in 0 .. MaxQSOs
  BY <1>1 DEF DataOK
<1>5. IsFiniteSet(1 .. logged) /\ Cardinality(1 .. logged) = logged
  BY <1>4, FS_Interval
<1>6. Cardinality(Rows) \in Nat /\ Cardinality(Rows) <= logged
  <2>1. Rows \in SUBSET (1 .. logged)
    BY <1>3
  <2>2. IsFiniteSet(Rows) /\ Cardinality(Rows) <= Cardinality(1 .. logged)
    BY <1>5, <2>1, FS_Subset
  <2> QED
    BY <1>5, <2>2, FS_CardinalityType
<1> QED
  BY <1>4, <1>6

LEMMA OpenContestKeeps ==
  ASSUME IInv, OpenContest
  PROVE  IInv'
<1>1. /\ pc = "ready" /\ IsLog(file) /\ CloseFiles /\ dbOpen' = TRUE
      /\ shown' = Cardinality(Rows)
      /\ steady' = (steady /\ (last = 0 \/ shown' = shown))
      /\ UNCHANGED <<broken, backups, worker, now, last, pc, source>>
      /\ UNCHANGED <<logged, faults, setBacks, owed, untouched, slack>>
  BY DEF OpenContest, bounds
<1>2. /\ FlagsOK /\ DataOK /\ RestoreInv /\ WalInv /\ CountInv /\ CoverInv
      /\ LogSurvivesRestore
  BY TypeParts DEF IInv
<1>3. /\ Rows' = Rows
      /\ file' = Absent => file = Absent /\ wal' = wal
      /\ file' \in {Absent, Empty} \cup Logs /\ wal' \in {None} \cup Logs
      /\ In(file') \subseteq 1 .. logged /\ In(wal') \subseteq 1 .. logged
  BY <1>1, CloseFacts DEF CloseFiles
<1>4. shown' \in 0 .. MaxQSOs /\ shown' <= logged
  BY <1>1, ShownFacts
<1>5. FlagsOK'
  BY <1>1, <1>2 DEF FlagsOK
<1>6. DataOK'
  BY <1>1, <1>2, <1>3, <1>4 DEF DataOK
<1>7. file' # Absent
  BY <1>1, <1>3 DEF IsLog
<1>8. RestoreInv'
  BY <1>1, <1>2, <1>7 DEF RestoreInv, Restoring
<1>9. WalInv'
  BY <1>1 DEF WalInv
<1>10. CountInv'
  BY <1>1, <1>2, <1>3, <1>4 DEF CountInv
<1>11. CoverInv'
  <2>1. CASE steady' /\ last = 0
    <3>1. steady /\ last' = 0
      BY <1>1, <2>1
    <3>2. Covered(Rows)'
      BY <1>1, <1>3, <1>6, <3>1, ReadAnew
    <3> QED
      BY <1>7, <3>2 DEF CoverInv
  <2>2. CASE ~(steady' /\ last = 0)
    BY <1>1, <1>3, <1>6, <1>7, <2>2, CoverUnchanged
  <2> QED
    BY <2>1, <2>2
<1>12. LogSurvivesRestore'
  BY <1>1, <1>2, <1>3 DEF LogSurvivesRestore
<1> QED
  BY <1>5, <1>6, <1>8, <1>9, <1>10, <1>11, <1>12, TypeParts DEF IInv

LEMMA QuitKeeps ==
  ASSUME IInv, Quit
  PROVE  IInv'
<1>1. /\ pc' = "down" /\ dbOpen' = FALSE /\ worker' = "none" /\ source' = None
      /\ UNCHANGED <<broken, backups, now, last, shown>>
      /\ UNCHANGED <<logged, faults, setBacks, owed, untouched, steady, slack>>
      /\ \/ file' = Rows /\ wal' = None
         \/ UNCHANGED <<file, wal>>
  BY DEF Quit, bounds, history
<1>2. /\ FlagsOK /\ DataOK /\ RestoreInv /\ WalInv /\ CountInv /\ CoverInv
      /\ LogSurvivesRestore
  BY TypeParts DEF IInv
<1>3. /\ Rows' = Rows
      /\ file' = Absent => file = Absent /\ wal' = wal
      /\ file' \in {Absent, Empty} \cup Logs /\ wal' \in {None} \cup Logs
      /\ In(file') \subseteq 1 .. logged /\ In(wal') \subseteq 1 .. logged
  BY <1>1, CloseFacts
<1>4. FlagsOK'
  BY <1>1, <1>2 DEF FlagsOK
<1>5. DataOK'
  BY <1>1, <1>2, <1>3 DEF DataOK
<1>6. RestoreInv' /\ WalInv'
  BY <1>1 DEF RestoreInv, Restoring, WalInv
<1>7. CountInv'
  BY <1>1, <1>2, <1>3, FileFacts DEF CountInv
<1>8. CoverInv'
  BY <1>1, <1>3, <1>5, CoverUnchanged
<1>9. LogSurvivesRestore'
  BY <1>1, <1>2, <1>3 DEF LogSurvivesRestore
<1> QED
  BY <1>4, <1>5, <1>6, <1>7, <1>8, <1>9, TypeParts DEF IInv

LEMMA RestartKeeps ==
  ASSUME IInv, Restart
  PROVE  IInv'
<1>1. /\ IsLog(file) /\ pc' = "ready" /\ dbOpen' = TRUE
      /\ shown' = Cardinality(Rows) /\ last' = 0
      /\ UNCHANGED <<file, wal, broken, backups, worker, now, source>>
      /\ UNCHANGED <<logged, faults, setBacks, owed, untouched, steady, slack>>
  BY DEF Restart, disk, files, bounds, history
<1>2. /\ FlagsOK /\ DataOK /\ RestoreInv /\ WalInv /\ CountInv /\ CoverInv
      /\ LogSurvivesRestore
  BY TypeParts DEF IInv
<1>3. Rows' = Rows /\ file' # Absent
  BY <1>1 DEF Rows, IsLog
<1>4. shown' \in 0 .. MaxQSOs /\ shown' <= logged
  BY <1>1, ShownFacts
<1>5. FlagsOK'
  BY <1>1, <1>2 DEF FlagsOK
<1>6. DataOK'
  BY <1>1, <1>2, <1>4 DEF DataOK
<1>7. RestoreInv' /\ WalInv'
  BY <1>1, <1>3 DEF RestoreInv, Restoring, WalInv
<1>8. CountInv'
  <2>1. last' <= logged'
    BY <1>1, <1>2 DEF DataOK
  <2> QED
    BY <1>1, <1>2, <1>4, <2>1 DEF CountInv
<1>9. CoverInv'
  <2>1. CASE steady
    <3>1. Covered(Rows)'
      BY <1>1, <1>3, <1>6, <2>1, ReadAnew
    <3> QED
      BY <1>3, <3>1 DEF CoverInv
  <2>2. CASE ~steady
    BY <1>1, <2>2 DEF CoverInv
  <2> QED
    BY <2>1, <2>2
<1>10. LogSurvivesRestore'
  BY <1>1, <1>2, <1>3 DEF LogSurvivesRestore
<1> QED
  BY <1>5, <1>6, <1>7, <1>8, <1>9, <1>10, TypeParts DEF IInv

-----------------------------------------------------------------------------
(* Restoring                                                               *)

LEMMA BeginRestoreKeeps ==
  ASSUME IInv, BeginRestore
  PROVE  IInv'
<1>1. /\ pc = "ready" /\ pc' = "closed" /\ dbOpen' = FALSE /\ CloseFiles
      /\ \E b \in backups : source' = b.rows
      /\ owed' = IF dbOpen THEN Rows ELSE owed
      /\ untouched' = (untouched /\ worker # "open")
      /\ UNCHANGED <<broken, backups, worker, now, last, shown>>
      /\ UNCHANGED <<logged, faults, setBacks, steady, slack>>
  BY DEF BeginRestore, bounds
<1>2. /\ FlagsOK /\ DataOK /\ RestoreInv /\ WalInv /\ CountInv /\ CoverInv
      /\ LogSurvivesRestore
  BY TypeParts DEF IInv
<1>3. /\ Rows' = Rows
      /\ file' = Absent => file = Absent /\ wal' = wal
      /\ file' \in {Absent, Empty} \cup Logs /\ wal' \in {None} \cup Logs
      /\ In(file') \subseteq 1 .. logged /\ In(wal') \subseteq 1 .. logged
  BY <1>1, CloseFacts DEF CloseFiles
<1>4. Rows \in Logs
  BY <1>2, RowsType
<1>5. FlagsOK'
  BY <1>1, <1>2 DEF FlagsOK
<1>6. source' \in {None, Empty} \cup Logs /\ In(source') \subseteq 1 .. logged
  BY <1>1, <1>2 DEF DataOK, Backups, CountInv
<1>7. owed' \subseteq QSOs
  BY <1>1, <1>2, <1>4 DEF DataOK, Logs
<1>8. DataOK'
  BY <1>1, <1>2, <1>3, <1>6, <1>7 DEF DataOK
<1>9. RestoreInv'
  BY <1>1 DEF RestoreInv, Restoring
<1>10. WalInv'
  <2>1. ASSUME untouched' PROVE wal' = None
    <3>1. CASE dbOpen
      BY <1>1, <2>1, <3>1 DEF CloseFiles
    <3>2. CASE ~dbOpen
      BY <1>1, <1>2, <2>1, <3>2 DEF CloseFiles, WalInv
    <3> QED
      BY <3>1, <3>2
  <2> QED
    BY <2>1 DEF WalInv
<1>11. CountInv'
  BY <1>1, <1>2, <1>3, <1>6 DEF CountInv
<1>12. CoverInv'
  BY <1>1, <1>3, <1>8, CoverUnchanged
<1>13. LogSurvivesRestore'
  BY <1>1, <1>2, <1>3 DEF LogSurvivesRestore
<1> QED
  BY <1>5, <1>8, <1>9, <1>10, <1>11, <1>12, <1>13, TypeParts DEF IInv

(* A step of the restore that fails goes back to work with the file as it  *)
(* is; what the other steps leave alone is the same.                       *)
LEMMA RemoveBrokenKeeps ==
  ASSUME IInv, RemoveBroken
  PROVE  IInv'
<1>1. /\ pc = "closed"
      /\ UNCHANGED <<file, wal, backups, dbOpen, worker, now, last, shown>>
      /\ UNCHANGED <<logged, setBacks, owed, steady, slack>>
      /\ untouched' = (untouched /\ (broken' = broken \/ owed \subseteq Rows))
      /\ faults' \in {faults, faults + 1} /\ source' \in {source, None}
      /\ \/ file = Absent /\ pc' = "moved" /\ broken' = broken /\ source' = source
         \/ file # Absent /\ pc' = "cleared" /\ broken' = None /\ source' = source
         \/ file # Absent /\ pc' = "ready" /\ broken' = broken
  BY DEF RemoveBroken, RestoreFails, Fault
<1>2. /\ FlagsOK /\ DataOK /\ RestoreInv /\ WalInv /\ CountInv /\ CoverInv
      /\ LogSurvivesRestore
  BY TypeParts DEF IInv
<1>3. faults' \in 0 .. MaxFaults
  BY <1>2 DEF RemoveBroken, Fault, DataOK
<1>4. broken' \in {broken, None}
  BY <1>1
<1>5. FlagsOK'
  BY <1>1, <1>2 DEF FlagsOK
<1>6. DataOK'
  <2>1. pc' \in {"ready", "closed", "cleared", "moved", "copied", "down"}
    BY <1>1
  <2> QED
    BY <1>1, <1>2, <1>3, <1>4, <2>1 DEF DataOK
<1>7. RestoreInv'
  BY <1>1, <1>2 DEF RestoreInv, Restoring
<1>8. WalInv'
  BY <1>1, <1>2 DEF WalInv
<1>9. CountInv'
  BY <1>1, <1>2, <1>4, FileFacts DEF CountInv
<1>10. Rows' = Rows
  BY <1>1 DEF Rows
<1>11. CoverInv'
  <2>1. CASE broken' = broken
    BY <1>1, <1>6, <1>10, <2>1, CoverUnchanged
  <2>2. CASE file # Absent
    <3>1. steady' = steady /\ Kept' = Kept
      BY <1>1 DEF Kept
    <3>2. steady => Covered(Rows)'
      BY <1>1, <1>2, <1>10, <3>1 DEF CoverInv, Covered
    <3> QED
      BY <1>1, <2>2, <3>1, <3>2 DEF CoverInv
  <2> QED
    BY <1>1, <2>1, <2>2
<1>12. LogSurvivesRestore'
  BY <1>1, <1>2, <1>10 DEF LogSurvivesRestore
<1> QED
  BY <1>5, <1>6, <1>7, <1>8, <1>9, <1>11, <1>12, TypeParts DEF IInv

(* The log goes to the safety copy whole: there is no WAL to stay behind.  *)
LEMMA MoveAwayKeeps ==
  ASSUME IInv, MoveAway
  PROVE  IInv'
<1>1. /\ pc = "cleared"
      /\ UNCHANGED <<wal, backups, dbOpen, worker, now, last, shown>>
      /\ UNCHANGED <<logged, setBacks, owed, untouched, steady, slack>>
      /\ faults' \in {faults, faults + 1} /\ source' \in {source, None}
      /\ \/ broken' = file /\ file' = Absent /\ pc' = "moved" /\ source' = source
         \/ UNCHANGED <<file, broken>> /\ pc' = "ready"
  BY DEF MoveAway, RestoreFails, Fault, history
<1>2. /\ FlagsOK /\ DataOK /\ RestoreInv /\ WalInv /\ CountInv /\ CoverInv
      /\ LogSurvivesRestore
  BY TypeParts DEF IInv
<1>3. faults' \in 0 .. MaxFaults
  BY <1>2 DEF MoveAway, Fault, DataOK
<1>4. broken = None /\ file # Absent /\ ~dbOpen
  BY <1>1, <1>2 DEF RestoreInv, Restoring
<1>5. FlagsOK'
  BY <1>1, <1>2 DEF FlagsOK
<1>6. DataOK'
  <2>1. pc' \in {"ready", "closed", "cleared", "moved", "copied", "down"}
    BY <1>1
  <2>2. /\ file' \in {Absent, Empty} \cup Logs
        /\ broken' \in {None, Empty} \cup Logs
    BY <1>1, <1>2, <1>4 DEF DataOK
  <2> QED
    BY <1>1, <1>2, <1>3, <2>1, <2>2 DEF DataOK
<1>7. RestoreInv'
  BY <1>1, <1>2, <1>4 DEF RestoreInv, Restoring
<1>8. WalInv'
  BY <1>1, <1>2 DEF WalInv
<1>9. In(broken) = {} /\ In(Absent) = {}
  BY <1>4, FileFacts
<1>10. CountInv'
  BY <1>1, <1>2, <1>9, FileFacts DEF CountInv
<1>11. CASE broken' = file /\ file' = Absent /\ pc' = "moved"
  <2>1. wal = None => Rows' = {} /\ Rows = In(file)
    BY <1>1, <1>9, <1>11 DEF Rows
  <2>2. wal # None => Rows' = Rows
    BY <1>1 DEF Rows
  <2>3. CoverInv'
    <3>1. Rows \in Logs /\ Rows' \in SUBSET Rows
      BY <1>2, <2>1, <2>2, RowsType
    <3>2. /\ backups \subseteq backups' /\ last' = last /\ shown <= shown' /\ slack <= slack'
      BY <1>1, <1>2 DEF DataOK
    <3>3. ASSUME steady' PROVE Covered(Rows)'
      BY <1>1, <1>2, <1>6, <3>1, <3>2, <3>3, CoverStays DEF CoverInv, Covered
    <3>4. ASSUME steady', (wal = None)' PROVE Covered(In(broken))'
      <4>1. In(broken') = Rows /\ Covered(Rows)
        BY <1>1, <1>2, <1>11, <2>1, <3>4 DEF CoverInv
      <4>2. Kept' = Kept
        BY <1>1 DEF Kept
      <4> QED
        BY <1>1, <4>1, <4>2 DEF Covered
    <3> QED
      BY <3>3, <3>4 DEF CoverInv
  <2>4. LogSurvivesRestore'
    <3>1. ASSUME untouched PROVE owed \subseteq In(broken')
      <4>1. wal = None
        BY <1>1, <1>2, <1>4, <3>1 DEF WalInv
      <4> QED
        BY <1>2, <1>9, <1>11, <2>1, <3>1, <4>1 DEF LogSurvivesRestore
    <3> QED
      BY <1>1, <3>1 DEF LogSurvivesRestore
  <2> QED
    BY <1>5, <1>6, <1>7, <1>8, <1>10, <2>3, <2>4, TypeParts DEF IInv
<1>12. CASE UNCHANGED <<file, broken>>
  <2>1. Rows' = Rows
    BY <1>1, <1>12 DEF Rows
  <2>2. CoverInv'
    BY <1>1, <1>6, <1>12, <2>1, CoverUnchanged
  <2>3. LogSurvivesRestore'
    BY <1>1, <1>2, <1>12, <2>1 DEF LogSurvivesRestore
  <2> QED
    BY <1>5, <1>6, <1>7, <1>8, <1>10, <2>2, <2>3, TypeParts DEF IInv
<1> QED
  BY <1>1, <1>11, <1>12

(* The backup takes the path; the log stays in the safety copy.            *)
LEMMA CopyKeeps ==
  ASSUME IInv, Copy
  PROVE  IInv'
<1>1. /\ pc = "moved" /\ file = Absent /\ file' = source /\ pc' = "copied"
      /\ UNCHANGED <<wal, broken, backups, dbOpen, worker, now, last, shown, source>>
      /\ UNCHANGED <<logged, faults, setBacks, owed, untouched, steady, slack>>
  BY DEF Copy, bounds, history
<1>2. /\ FlagsOK /\ DataOK /\ RestoreInv /\ WalInv /\ CountInv /\ CoverInv
      /\ LogSurvivesRestore
  BY TypeParts DEF IInv
<1>3. ~dbOpen /\ \E b \in backups : source = b.rows
  BY <1>1, <1>2 DEF RestoreInv, Restoring
<1>4. source \in {Empty} \cup Logs
  BY <1>2, <1>3 DEF DataOK, Backups
<1>5. FlagsOK'
  BY <1>1, <1>2 DEF FlagsOK
<1>6. DataOK'
  BY <1>1, <1>2, <1>4 DEF DataOK
<1>7. RestoreInv' /\ WalInv'
  BY <1>1, <1>2, <1>3 DEF RestoreInv, Restoring, WalInv
<1>8. CountInv'
  BY <1>1, <1>2 DEF CountInv
<1>9. file' # Absent
  BY <1>1, <1>4, FileFacts
<1>10. CoverInv'
  <2>1. ASSUME steady' PROVE Covered(Rows)'
    <3>1. CASE wal # None
      <4>1. Rows' = Rows /\ Kept' = Kept
        BY <1>1, <3>1 DEF Rows, Kept
      <4> QED
        BY <1>1, <1>2, <2>1, <4>1 DEF CoverInv, Covered
    <3>2. CASE wal = None
      <4>1. Rows' = In(source)
        BY <1>1, <3>2 DEF Rows
      <4>2. last' <= shown'
        <5>1. Rows \in Logs
          BY <1>2, RowsType
        <5>2. PICK rows \in Kept : Missing(Rows, rows) + last <= shown
          BY <1>1, <1>2, <2>1 DEF CoverInv, Covered
        <5>3. Missing(Rows, rows) \in Nat /\ last \in Nat /\ shown \in Nat
          BY <1>2, <5>1, MissingType DEF DataOK
        <5> QED
          BY <1>1, <5>2, <5>3
      <4>3. CASE source = Empty
        <5>1. Rows' = {}
          BY <4>1, <4>3, FileFacts
        <5> QED
          BY <1>6, <4>2, <5>1, EmptyIsCovered DEF Covered
      <4>4. CASE source \in Logs
        <5>1. Rows' = source /\ \E b \in backups' : b.rows = source
          BY <1>1, <1>3, <4>1, <4>4, FileFacts
        <5> QED
          BY <1>6, <4>2, <4>4, <5>1, BackedUpIsCovered DEF Covered
      <4> QED
        BY <1>4, <4>3, <4>4
    <3> QED
      BY <3>1, <3>2
  <2> QED
    BY <1>9, <2>1 DEF CoverInv
<1>11. LogSurvivesRestore'
  <2>1. ASSUME untouched PROVE owed \subseteq In(broken)
    <3>1. wal = None
      BY <1>1, <1>2, <1>3, <2>1 DEF WalInv
    <3>2. Rows = {}
      BY <1>1, <3>1, FileFacts DEF Rows
    <3> QED
      BY <1>2, <2>1, <3>2 DEF LogSurvivesRestore
  <2> QED
    BY <1>1, <2>1 DEF LogSurvivesRestore
<1> QED
  BY <1>5, <1>6, <1>7, <1>8, <1>10, <1>11, TypeParts DEF IInv

LEMMA CopyFailsKeeps ==
  ASSUME IInv, CopyFails
  PROVE  IInv'
<1>1. /\ pc = "moved" /\ pc' = "ready" /\ source' = None
      /\ UNCHANGED <<wal, backups, dbOpen, worker, now, last, shown>>
      /\ UNCHANGED <<logged, setBacks, owed, untouched, steady, slack>>
      /\ \/ broken # None /\ file = Absent /\ file' = broken /\ broken' = None
         \/ UNCHANGED <<file, broken>>
  BY DEF CopyFails, RestoreFails, history
<1>2. /\ FlagsOK /\ DataOK /\ RestoreInv /\ WalInv /\ CountInv /\ CoverInv
      /\ LogSurvivesRestore
  BY TypeParts DEF IInv
<1>3. faults' \in 0 .. MaxFaults
  BY <1>2 DEF CopyFails, Fault, DataOK
<1>4. ~dbOpen
  BY <1>1, <1>2 DEF RestoreInv, Restoring
<1>5. FlagsOK'
  BY <1>1, <1>2 DEF FlagsOK
<1>6. DataOK'
  <2>1. /\ file' \in {Absent, Empty} \cup Logs
        /\ broken' \in {None, Empty} \cup Logs
    BY <1>1, <1>2 DEF DataOK
  <2> QED
    BY <1>1, <1>2, <1>3, <2>1 DEF DataOK
<1>7. RestoreInv' /\ WalInv'
  BY <1>1, <1>2, <1>4 DEF RestoreInv, Restoring, WalInv
<1>8. CountInv'
  BY <1>1, <1>2, FileFacts DEF CountInv
<1>9. CASE broken # None /\ file = Absent /\ file' = broken /\ broken' = None
  <2>1. file' # Absent /\ In(Absent) = {}
    BY <1>2, <1>9, FileFacts DEF DataOK
  <2>2. wal = None => Rows' = In(broken) /\ Rows = {}
    BY <1>1, <1>9, <2>1 DEF Rows
  <2>3. wal # None => Rows' = Rows
    BY <1>1 DEF Rows
  <2>4. CoverInv'
    <3>1. Kept' = Kept
      BY <1>1 DEF Kept
    <3>2. ASSUME steady' PROVE Covered(Rows)'
      <4>1. Covered(Rows')
        BY <1>1, <1>2, <1>9, <2>2, <2>3, <3>2 DEF CoverInv
      <4> QED
        BY <1>1, <3>1, <4>1 DEF Covered
    <3> QED
      BY <2>1, <3>2 DEF CoverInv
  <2>5. LogSurvivesRestore'
    <3>1. ASSUME untouched PROVE owed \subseteq Rows'
      <4>1. wal = None
        BY <1>1, <1>2, <1>4, <3>1 DEF WalInv
      <4> QED
        BY <1>2, <2>2, <3>1, <4>1 DEF LogSurvivesRestore
    <3> QED
      BY <1>1, <3>1 DEF LogSurvivesRestore
  <2> QED
    BY <1>5, <1>6, <1>7, <1>8, <2>4, <2>5, TypeParts DEF IInv
<1>10. CASE UNCHANGED <<file, broken>>
  <2>1. Rows' = Rows
    BY <1>1, <1>10 DEF Rows
  <2>2. CoverInv'
    BY <1>1, <1>6, <1>10, <2>1, CoverUnchanged
  <2>3. LogSurvivesRestore'
    BY <1>1, <1>2, <1>10, <2>1 DEF LogSurvivesRestore
  <2> QED
    BY <1>5, <1>6, <1>7, <1>8, <2>2, <2>3, TypeParts DEF IInv
<1> QED
  BY <1>1, <1>9, <1>10

LEMMA ReopenKeeps ==
  ASSUME IInv, Reopen
  PROVE  IInv'
<1>1. /\ pc = "copied" /\ pc' = "ready" /\ source' = None
      /\ UNCHANGED <<file, wal, broken, backups, worker, now, last, shown>>
      /\ UNCHANGED <<logged, setBacks, owed, untouched, steady, slack>>
      /\ (dbOpen' = TRUE /\ IsLog(file)) \/ dbOpen' = dbOpen
  BY DEF Reopen, disk, files, history
<1>2. /\ FlagsOK /\ DataOK /\ RestoreInv /\ WalInv /\ CountInv /\ CoverInv
      /\ LogSurvivesRestore
  BY TypeParts DEF IInv
<1>3. faults' \in 0 .. MaxFaults
  BY <1>2 DEF Reopen, Fault, DataOK
<1>4. FlagsOK'
  BY <1>1, <1>2 DEF FlagsOK
<1>5. DataOK'
  BY <1>1, <1>2, <1>3 DEF DataOK
<1>6. ~dbOpen
  BY <1>1, <1>2 DEF RestoreInv, Restoring
<1>7. RestoreInv' /\ WalInv'
  BY <1>1, <1>2, <1>6 DEF RestoreInv, Restoring, WalInv, IsLog
<1>8. CountInv'
  BY <1>1, <1>2, FileFacts DEF CountInv
<1>9. Rows' = Rows
  BY <1>1 DEF Rows
<1>10. CoverInv'
  BY <1>1, <1>5, <1>9, CoverUnchanged
<1>11. LogSurvivesRestore'
  BY <1>1, <1>2, <1>9 DEF LogSurvivesRestore
<1> QED
  BY <1>4, <1>5, <1>7, <1>8, <1>10, <1>11, TypeParts DEF IInv

-----------------------------------------------------------------------------
(* Every step keeps the invariant                                          *)

LEMMA NextKeeps == IInv /\ [Next]_vars => IInv'
<1> SUFFICES ASSUME IInv, [Next]_vars PROVE IInv'
  OBVIOUS
<1>1. CASE Log
  BY <1>1, LogKeeps
<1>2. CASE LogQuietly
  BY <1>2, LogQuietlyKeeps
<1>3. CASE ManualBackup
  BY <1>3, ManualBackupKeeps
<1>4. CASE Clear
  BY <1>4, ClearKeeps
<1>5. CASE AskWorker \/ UNCHANGED vars
  BY <1>5, AskWorkerKeeps
<1>6. CASE OpenWorker
  BY <1>6, OpenWorkerKeeps
<1>7. CASE OpenContest
  BY <1>7, OpenContestKeeps
<1>8. CASE Quit
  BY <1>8, QuitKeeps
<1>9. CASE Restart
  BY <1>9, RestartKeeps
<1>10. CASE BeginRestore
  BY <1>10, BeginRestoreKeeps
<1>11. CASE RestoreStep
  BY <1>11, RemoveBrokenKeeps, MoveAwayKeeps, CopyKeeps, CopyFailsKeeps, ReopenKeeps
     DEF RestoreStep
<1> QED
  BY <1>1, <1>2, <1>3, <1>4, <1>5, <1>6, <1>7, <1>8, <1>9, <1>10, <1>11 DEF Next

THEOREM Invariance == Spec => []IInv
BY InitInv, NextKeeps, PTL DEF Spec

(* Every variable keeps its type: the counts stay within the contacts that *)
(* were logged, and no step puts anything but a log, an empty file or      *)
(* nothing where the database and its safety copy are.                     *)
THEOREM TypeCorrect == Spec => []TypeOK
<1>1. IInv => TypeOK
  BY DEF IInv
<1> QED
  BY <1>1, Invariance, PTL

(* Wherever a restore stops, every contact of the log is in the database   *)
(* or in the .broken file, for any number of contacts, faults and kills,   *)
(* as long as nobody overwrote the only copy (restoreFromBackup).          *)
THEOREM LogSurvivesEveryRestore == Spec => []LogSurvivesRestore
<1>1. IInv => LogSurvivesRestore
  BY DEF IInv
<1> QED
  BY <1>1, Invariance, PTL

(* Some backup lacks fewer contacts than the interval, besides those that  *)
(* asked for no backup or got none, whatever the interval and however few  *)
(* backups rotateBackups keeps (autoBackupIfNeeded).                       *)
THEOREM BackupsFollowTheLog == Spec => []BackupsKeepUp
<1>1. IInv => BackupsKeepUp
  <2> SUFFICES ASSUME IInv, steady PROVE Backlog
    BY DEF BackupsKeepUp
  <2>1. PICK rows \in Kept : Missing(Rows, rows) < Interval + slack
    BY DEF IInv, CoverInv, Covered
  <2> QED
    BY <2>1 DEF Backlog, Kept, Lacks, Missing
<1> QED
  BY <1>1, Invariance, PTL

(* A restore that opens the database again has brought the contacts of the *)
(* chosen backup, no more and no fewer: there is no WAL beside the file    *)
(* that was copied.                                                        *)
THEOREM RestoreBringsTheBackup == Spec => RestoredIsTheBackup
<1>1. IInv /\ [Next]_vars => [pc = "copied" /\ dbOpen' /\ untouched => Rows' = source]_vars
  <2> SUFFICES ASSUME IInv, Next, pc = "copied", dbOpen', untouched
               PROVE  Rows' = source
    BY DEF vars
  <2>1. FlagsOK /\ DataOK /\ RestoreInv /\ WalInv
    BY TypeParts DEF IInv
  <2>2. ~dbOpen /\ wal = None /\ file = source
    BY <2>1 DEF RestoreInv, Restoring, WalInv
  <2>3. Reopen
    BY <2>2 DEF Next, Log, LogQuietly, Store, ManualBackup, Clear, AskWorker, OpenWorker,
       OpenContest, Quit, Restart, BeginRestore, RestoreStep, RemoveBroken, MoveAway,
       Copy, CopyFails
  <2>4. IsLog(file) /\ UNCHANGED <<file, wal>>
    BY <2>2, <2>3 DEF Reopen, disk, files
  <2> QED
    BY <2>2, <2>4 DEF Rows, In
<1> QED
  BY <1>1, Invariance, PTL DEF Spec, RestoredIsTheBackup

HIDE Bounds

-----------------------------------------------------------------------------
(***************************************************************************)
(* Scoring, for any contests, contacts, station and bounds.                *)
(***************************************************************************)

-----------------------------------------------------------------------------
(* The rules of the contests.                                              *)

LEMMA ShareIsNat ==
  ASSUME NEW k, NEW points \in Nat
  PROVE  ModeShare(k, points) \in Nat
<1> DEFINE share == IF k = "CQWPX_CW" THEN points ELSE (67 * points) \div 100
<1>1. share \in Int
  OBVIOUS
<1>2. ModeShare(k, points) = IF share < 1 THEN 1 ELSE share
  BY DEF ModeShare
<1> QED
  BY <1>1, <1>2

LEMMA PointsAreNat ==
  ASSUME NEW k \in Registered, NEW c, NEW me
  PROVE  Points(k, c, me) \in Nat
<1>1. CASE k \in CQWW
  BY <1>1 DEF Points, CQWWPoints, CQWW, CQWPX, ARRLDX, Sweepstakes, NAQP, FieldDays
<1>2. CASE k \in CQWPX
  <2>1. CQWPXPoints(k, c, me) \in Nat
    <3>1. ModeShare(k, IF c.band \in LowBands THEN 6 ELSE 3) \in Nat
      BY ShareIsNat
    <3>2. ModeShare(k, 2) \in Nat
      BY ShareIsNat
    <3>3. \A n \in Nat : n * (IF me.cont = "NA" THEN 2 ELSE 1) \in Nat
      OBVIOUS
    <3> HIDE DEF ModeShare
    <3> QED
      BY <3>1, <3>2, <3>3 DEF CQWPXPoints
  <2> QED
    BY <1>2, <2>1 DEF Points, CQWW, CQWPX, ARRLDX, Sweepstakes, NAQP, FieldDays
<1>3. CASE k \notin CQWW \cup CQWPX
  BY <1>3 DEF Points, Registered, CQWW, CQWPX, ARRLDX, Sweepstakes, NAQP, FieldDays,
     FieldDayPoints, FloridaPoints, IARUPoints
<1> QED
  BY <1>1, <1>2, <1>3

(* A contest has each type of multiplier once.                             *)
LEMMA TypesAreDistinct ==
  ASSUME NEW k \in Registered, NEW me
  PROVE  /\ MultTypes(k, me) \subseteq [type : ClaimTypes, perBand : BOOLEAN]
         /\ \A m, n \in MultTypes(k, me) : m.type = n.type => m = n
<1> DEFINE Fits(S) == /\ S \subseteq [type : ClaimTypes, perBand : BOOLEAN]
                      /\ \A m, n \in S : m.type = n.type => m = n
<1>1. \A types \in SUBSET ClaimTypes : Fits(PerBand(types))
  <2> TAKE types \in SUBSET ClaimTypes
  <2>1. \A m \in PerBand(types) : /\ m = [type |-> m.type, perBand |-> TRUE]
                                  /\ m.type \in types
    BY DEF PerBand
  <2>2. \A t \in types : [type |-> t, perBand |-> TRUE]
                            \in [type : ClaimTypes, perBand : BOOLEAN]
    OBVIOUS
  <2>3. PerBand(types) \subseteq [type : ClaimTypes, perBand : BOOLEAN]
    BY <2>2 DEF PerBand
  <2> QED
    BY <2>1, <2>3
<1>2. \A types \in SUBSET ClaimTypes : Fits(AllBands(types))
  <2> TAKE types \in SUBSET ClaimTypes
  <2>1. \A m \in AllBands(types) : /\ m = [type |-> m.type, perBand |-> FALSE]
                                   /\ m.type \in types
    BY DEF AllBands
  <2>2. \A t \in types : [type |-> t, perBand |-> FALSE]
                            \in [type : ClaimTypes, perBand : BOOLEAN]
    OBVIOUS
  <2>3. AllBands(types) \subseteq [type : ClaimTypes, perBand : BOOLEAN]
    BY <2>2 DEF AllBands
  <2> QED
    BY <2>1, <2>3
<1>3. Fits({})
  OBVIOUS
<1>4. {"Country", "CQZone"} \in SUBSET ClaimTypes
  BY DEF ClaimTypes
<1>5. {"Prefix"} \in SUBSET ClaimTypes
  BY DEF ClaimTypes
<1>6. {IF me.wve THEN "Country" ELSE "State"} \in SUBSET ClaimTypes
  BY DEF ClaimTypes
<1>7. {"Section"} \in SUBSET ClaimTypes
  BY DEF ClaimTypes
<1>8. {"State"} \in SUBSET ClaimTypes
  BY DEF ClaimTypes
<1>9. {"Country", "State"} \in SUBSET ClaimTypes
  BY DEF ClaimTypes
<1>10. (IF me.state = "FL" THEN {"State", "Country"} ELSE {"County"}) \in SUBSET ClaimTypes
  BY DEF ClaimTypes
<1>11. {"ITUZone", "Custom"} \in SUBSET ClaimTypes
  BY DEF ClaimTypes
<1>12. Fits(MultTypes(k, me))
  <2>1. CASE k \in CQWW
    <3>1. MultTypes(k, me) = PerBand({"Country", "CQZone"})
      BY <2>1 DEF MultTypes, CQWW, CQWPX, ARRLDX, Sweepstakes, NAQP
    <3> QED
      BY <1>1, <1>4, <3>1
  <2>2. CASE k \in CQWPX
    <3>1. MultTypes(k, me) = AllBands({"Prefix"})
      BY <2>2 DEF MultTypes, CQWW, CQWPX, ARRLDX, Sweepstakes, NAQP
    <3> QED
      BY <1>2, <1>5, <3>1
  <2>3. CASE k \in ARRLDX
    <3>1. MultTypes(k, me) = PerBand({IF me.wve THEN "Country" ELSE "State"})
      BY <2>3 DEF MultTypes, CQWW, CQWPX, ARRLDX, Sweepstakes, NAQP
    <3> QED
      BY <1>1, <1>6, <3>1
  <2>4. CASE k \in Sweepstakes \cup {"WFD"}
    <3>1. MultTypes(k, me) = AllBands({"Section"})
      BY <2>4 DEF MultTypes, CQWW, CQWPX, ARRLDX, Sweepstakes, NAQP
    <3> QED
      BY <1>2, <1>7, <3>1
  <2>5. CASE k \in NAQP
    <3>1. MultTypes(k, me) = PerBand({"State"})
      BY <2>5 DEF MultTypes, CQWW, CQWPX, ARRLDX, Sweepstakes, NAQP
    <3> QED
      BY <1>1, <1>8, <3>1
  <2>6. CASE k = "ARRL_RTTY"
    <3>1. MultTypes(k, me) = AllBands({"Country", "State"})
      BY <2>6 DEF MultTypes, CQWW, CQWPX, ARRLDX, Sweepstakes, NAQP
    <3> QED
      BY <1>2, <1>9, <3>1
  <2>7. CASE k = "FL_QP"
    <3>1. MultTypes(k, me)
            = AllBands(IF me.state = "FL" THEN {"State", "Country"} ELSE {"County"})
      BY <2>7 DEF MultTypes, CQWW, CQWPX, ARRLDX, Sweepstakes, NAQP
    <3> QED
      BY <1>2, <1>10, <3>1
  <2>8. CASE k = "IARU_HF"
    <3>1. MultTypes(k, me) = PerBand({"ITUZone", "Custom"})
      BY <2>8 DEF MultTypes, CQWW, CQWPX, ARRLDX, Sweepstakes, NAQP
    <3> QED
      BY <1>1, <1>11, <3>1
  <2>9. CASE k \in {"ARRL_FD", "GENERAL"}
    <3>1. MultTypes(k, me) = {}
      BY <2>9 DEF MultTypes, CQWW, CQWPX, ARRLDX, Sweepstakes, NAQP
    <3> QED
      BY <1>3, <3>1
  <2> QED
    BY <2>1, <2>2, <2>3, <2>4, <2>5, <2>6, <2>7, <2>8, <2>9
       DEF Registered, CQWW, CQWPX, ARRLDX, Sweepstakes, NAQP
<1> QED
  BY <1>12

LEMMA ValuesAreStrings ==
  ASSUME NEW k, NEW c \in Contact, NEW t \in ClaimTypes, Value(k, c, t) # ""
  PROVE  Value(k, c, t) \in STRING
<1>1. c.call \in [prefix : STRING, rest : STRING]
  BY DEF Contact
<1>2. /\ c.call.prefix \in STRING
      /\ c.cqZone \in STRING /\ c.ituZone \in STRING /\ c.ituExch \in STRING
      /\ c.section \in STRING /\ c.state \in STRING /\ c.county \in STRING
      /\ c.country \in STRING
  BY <1>1 DEF Contact
<1> QED
  BY <1>1, <1>2 DEF Value, ClaimTypes

-----------------------------------------------------------------------------
(* Reading the file by time.                                               *)

Distinct(rows) == \A q, r \in rows : q.id = r.id => q = r
Stamped(rows) == \A r \in rows : r.at \in Nat /\ r.id \in Nat
Below(rows, r) == {q \in rows : Before(q, r)}
ByAge(s) == \A i, j \in DOMAIN s : i < j => Before(s[i], s[j])

LEMMA BeforeIsTotal ==
  ASSUME NEW rows, Distinct(rows), Stamped(rows)
  PROVE  /\ \A q \in rows : ~Before(q, q)
         /\ \A p, q, r \in rows : Before(p, q) /\ Before(q, r) => Before(p, r)
         /\ \A q, r \in rows : q # r => Before(q, r) \/ Before(r, q)
BY DEF Distinct, Stamped, Before

(* Rows have different numbers of rows before them, and the earlier row    *)
(* the fewer.                                                              *)
LEMMA RanksAreDistinct ==
  ASSUME NEW rows, IsFiniteSet(rows), Distinct(rows), Stamped(rows)
  PROVE  /\ \A r \in rows : Cardinality(Below(rows, r)) \in 0 .. Cardinality(rows) - 1
         /\ \A q, r \in rows :
              Before(q, r) => Cardinality(Below(rows, q)) < Cardinality(Below(rows, r))
         /\ \A q, r \in rows :
              Cardinality(Below(rows, q)) = Cardinality(Below(rows, r)) => q = r
<1>1. /\ Cardinality(rows) \in Nat
      /\ \A r \in rows : IsFiniteSet(Below(rows, r)) /\ Cardinality(Below(rows, r)) \in Nat
  <2>1. \A r \in rows : Below(rows, r) \in SUBSET rows
    BY DEF Below
  <2> QED
    BY <2>1, FS_Subset, FS_CardinalityType
<1>2. ASSUME NEW r \in rows
      PROVE  Cardinality(Below(rows, r)) \in 0 .. Cardinality(rows) - 1
  <2>1. Below(rows, r) \in SUBSET rows /\ r \notin Below(rows, r)
    BY BeforeIsTotal DEF Below
  <2>2. /\ Cardinality(Below(rows, r)) <= Cardinality(rows)
        /\ Cardinality(Below(rows, r)) # Cardinality(rows)
    BY <2>1, FS_Subset
  <2> QED
    BY <1>1, <2>2
<1>3. ASSUME NEW q \in rows, NEW r \in rows, Before(q, r)
      PROVE  Cardinality(Below(rows, q)) < Cardinality(Below(rows, r))
  <2>1. /\ Below(rows, q) \in SUBSET Below(rows, r)
        /\ q \in Below(rows, r) /\ q \notin Below(rows, q)
    BY <1>3, BeforeIsTotal DEF Below
  <2>2. /\ Cardinality(Below(rows, q)) <= Cardinality(Below(rows, r))
        /\ Cardinality(Below(rows, q)) # Cardinality(Below(rows, r))
    BY <1>1, <2>1, FS_Subset
  <2> QED
    BY <1>1, <2>2
<1>4. ASSUME NEW q \in rows, NEW r \in rows,
             Cardinality(Below(rows, q)) = Cardinality(Below(rows, r))
      PROVE  q = r
  <2>1. ~Before(q, r) /\ ~Before(r, q)
    BY <1>1, <1>3, <1>4
  <2> QED
    BY <2>1, BeforeIsTotal
<1> QED
  BY <1>2, <1>3, <1>4

LEMMA ByTimeSorts ==
  ASSUME NEW rows, IsFiniteSet(rows), Distinct(rows), Stamped(rows)
  PROVE  /\ Cardinality(rows) \in Nat
         /\ ByTime(rows) \in [1 .. Cardinality(rows) -> rows]
         /\ RowsOf(ByTime(rows)) = rows
         /\ ByAge(ByTime(rows))
         /\ \A i, j \in 1 .. Cardinality(rows) : ByTime(rows)[i] = ByTime(rows)[j] => i = j
<1> DEFINE n == Cardinality(rows)
           rank == [r \in rows |-> Cardinality(Below(rows, r)) + 1]
           s == ByTime(rows)
<1>1. n \in Nat
  BY FS_CardinalityType
<1>2. rank \in [rows -> 1 .. n] /\ \A q, r \in rows : rank[q] = rank[r] => q = r
  <2>1. \A r \in rows : Cardinality(Below(rows, r)) \in 0 .. n - 1
    BY RanksAreDistinct
  <2>2. \A r \in rows : rank[r] \in 1 .. n /\ rank[r] - 1 = Cardinality(Below(rows, r))
    BY <1>1, <2>1
  <2> QED
    BY <2>2, RanksAreDistinct
<1>3. rank \in Injection(rows, 1 .. n)
  BY <1>2 DEF Injection, IsInjective
<1>4. IsFiniteSet(1 .. n) /\ Cardinality(1 .. n) = n
  BY <1>1, FS_Interval
<1>5. rank \in Surjection(rows, 1 .. n)
  BY <1>3, <1>4, FS_Injection
<1>6. \A i \in 1 .. n : \E r \in rows : Cardinality(Below(rows, r)) = i - 1
  <2> TAKE i \in 1 .. n
  <2>1. PICK r \in rows : rank[r] = i
    BY <1>5 DEF Surjection
  <2>2. Cardinality(Below(rows, r)) \in Int
    BY <1>1, RanksAreDistinct
  <2> QED
    BY <2>1, <2>2
<1>7. s = [i \in 1 .. n |-> CHOOSE r \in rows : Cardinality(Below(rows, r)) = i - 1]
  BY DEF ByTime, Below
<1>8. \A i \in 1 .. n : s[i] \in rows /\ Cardinality(Below(rows, s[i])) = i - 1
  BY <1>6, <1>7
<1>9. s \in [1 .. n -> rows] /\ DOMAIN s = 1 .. n
  BY <1>7, <1>8
<1>10. RowsOf(s) = rows
  <2>1. ASSUME NEW r \in rows PROVE r \in RowsOf(s)
    <3>1. rank[r] \in 1 .. n /\ rank[r] - 1 = Cardinality(Below(rows, r))
      <4>1. Cardinality(Below(rows, r)) \in 0 .. n - 1
        BY RanksAreDistinct
      <4> QED
        BY <1>1, <4>1
    <3>2. s[rank[r]] = r
      BY <1>8, <3>1, RanksAreDistinct
    <3> QED
      BY <1>9, <3>1, <3>2 DEF RowsOf
  <2> QED
    BY <1>9, <2>1 DEF RowsOf
<1>11. ASSUME NEW i \in 1 .. n, NEW j \in 1 .. n, i < j PROVE Before(s[i], s[j])
  <2>1. s[i] \in rows /\ s[j] \in rows
    BY <1>8
  <2>2. ~Before(s[j], s[i])
    BY <1>8, <1>11, <2>1, RanksAreDistinct
  <2>3. s[i] # s[j]
    BY <1>8, <1>11
  <2> QED
    BY <2>1, <2>2, <2>3, BeforeIsTotal
<1>12. \A i, j \in 1 .. n : s[i] = s[j] => i = j
  BY <1>8
<1> QED
  BY <1>1, <1>9, <1>10, <1>11, <1>12 DEF ByAge

(* A table in the order of time is what reading its rows by time gives.    *)
LEMMA SortedIsByTime ==
  ASSUME NEW s, NEW n \in Nat, DOMAIN s = 1 .. n, s = [i \in 1 .. n |-> s[i]],
         Distinct(RowsOf(s)), Stamped(RowsOf(s)), ByAge(s)
  PROVE  ByTime(RowsOf(s)) = s
<1> DEFINE rows == RowsOf(s)
<1>1. s \in [1 .. n -> rows] /\ \A i \in 1 .. n : s[i] \in rows
  BY DEF RowsOf
<1>2. \A i, j \in 1 .. n : s[i] = s[j] => i = j
  BY <1>1, BeforeIsTotal DEF ByAge
<1>3. \A i \in 1 .. n : Below(rows, s[i]) = {s[j] : j \in 1 .. i - 1}
  <2> TAKE i \in 1 .. n
  <2>1. \A j \in 1 .. n : Before(s[j], s[i]) <=> j < i
    BY <1>1, BeforeIsTotal DEF ByAge
  <2>2. 1 .. i - 1 \subseteq 1 .. n
    OBVIOUS
  <2> QED
    BY <2>1, <2>2 DEF Below, RowsOf
<1>4. \A m \in 0 .. n : Cardinality({s[j] : j \in 1 .. m}) = m
  <2> TAKE m \in 0 .. n
  <2> DEFINE T == {s[j] : j \in 1 .. m}
             f == [j \in 1 .. m |-> s[j]]
  <2>1. f \in Bijection(1 .. m, T)
    <3>1. f \in [1 .. m -> T] /\ \A t \in T : \E j \in 1 .. m : f[j] = t
      OBVIOUS
    <3>2. \A i, j \in 1 .. m : f[i] = f[j] => i = j
      BY <1>2
    <3> QED
      BY <3>1, <3>2, Fun_IsBij, Fun_IsSurj
  <2>2. ExistsBijection(1 .. m, T)
    BY <2>1 DEF ExistsBijection
  <2> QED
    BY <2>2, FS_CountingElements
<1>5. rows = {s[j] : j \in 1 .. n} /\ IsFiniteSet(rows) /\ Cardinality(rows) = n
  <2>1. rows = {s[j] : j \in 1 .. n}
    BY DEF RowsOf
  <2>2. s \in Surjection(1 .. n, rows)
    BY <1>1, <2>1, Fun_IsSurj
  <2>3. IsFiniteSet(rows)
    BY <2>2, FS_Surjection, FS_Interval
  <2>4. n \in 0 .. n
    OBVIOUS
  <2> QED
    BY <1>4, <2>1, <2>3, <2>4
<1>6. \A i \in 1 .. n : Cardinality(Below(rows, s[i])) = i - 1
  <2>1. \A i \in 1 .. n : i - 1 \in 0 .. n
    OBVIOUS
  <2> HIDE DEF rows
  <2> QED
    BY <1>3, <1>4, <2>1
<1>7. \A i \in 1 .. n : s[i] = CHOOSE r \in rows : Cardinality(Below(rows, r)) = i - 1
  <2> TAKE i \in 1 .. n
  <2>1. \A r \in rows : Cardinality(Below(rows, r)) = i - 1 => r = s[i]
    BY <1>1, <1>5, <1>6, RanksAreDistinct
  <2> QED
    BY <1>1, <1>6, <2>1
<1>8. ByTime(rows) = [i \in 1 .. n |-> CHOOSE r \in rows : Cardinality(Below(rows, r)) = i - 1]
  BY <1>5 DEF ByTime, Below
<1> QED
  BY <1>7, <1>8

-----------------------------------------------------------------------------
(* The file, and a table of its rows.                                      *)

\* Ids count the rows
Counts(rows) ==
  IsFiniteSet(rows) /\ Distinct(rows) /\ {r.id : r \in rows} = 1 .. Cardinality(rows)

Put(rows, row) == {q \in rows : q.id # row.id} \cup {row}

\* A row of s with the id of row r is about the same contact
SameContact(s, r) == \A q \in RowsOf(s) : q.id = r.id => q.c = r.c /\ q.at = r.at

\* The rows of s are those of the file, but for the scores of the refused ones
Agrees(s, rows, refused) ==
  /\ {r.id : r \in RowsOf(s)} = {r.id : r \in rows}
  /\ \A i, j \in DOMAIN s : s[i].id = s[j].id => i = j
  /\ \A r \in RowsOf(s) : r.id \in refused \/ r \in rows
  /\ \A r \in rows : SameContact(s, r)

LEMMA FileAdds ==
  ASSUME NEW rows, Counts(rows), NEW row, row.id = Cardinality(rows) + 1
  PROVE  Counts(rows \cup {row}) /\ row.id \notin {r.id : r \in rows}
<1>1. Cardinality(rows) \in Nat
  BY FS_CardinalityType DEF Counts
<1>2. row.id \notin {r.id : r \in rows}
  BY <1>1 DEF Counts
<1>3. row \notin rows
  BY <1>2
<1>4. /\ IsFiniteSet(rows \cup {row})
      /\ Cardinality(rows \cup {row}) = Cardinality(rows) + 1
  BY <1>3, FS_AddElement DEF Counts
<1>5. {r.id : r \in rows \cup {row}} = {r.id : r \in rows} \cup {row.id}
  OBVIOUS
<1>6. {r.id : r \in rows \cup {row}} = 1 .. Cardinality(rows \cup {row})
  BY <1>1, <1>4, <1>5 DEF Counts
<1>7. Distinct(rows \cup {row})
  BY <1>2 DEF Counts, Distinct
<1> QED
  BY <1>2, <1>4, <1>6, <1>7 DEF Counts

LEMMA FilePuts ==
  ASSUME NEW rows, Counts(rows), NEW row, row.id \in {r.id : r \in rows}
  PROVE  Counts(Put(rows, row)) /\ {r.id : r \in Put(rows, row)} = {r.id : r \in rows}
<1>1. PICK old \in rows : old.id = row.id
  OBVIOUS
<1>2. {q \in rows : q.id # row.id} = rows \ {old}
  BY <1>1 DEF Counts, Distinct
<1>3. /\ IsFiniteSet(rows \ {old}) /\ Cardinality(rows \ {old}) = Cardinality(rows) - 1
      /\ Cardinality(rows) \in Nat
  BY <1>1, FS_RemoveElement, FS_CardinalityType DEF Counts
<1>4. row \notin rows \ {old}
  BY <1>1 DEF Counts, Distinct
<1>5. IsFiniteSet(Put(rows, row)) /\ Cardinality(Put(rows, row)) = Cardinality(rows)
  BY <1>2, <1>3, <1>4, FS_AddElement DEF Put
<1>6. {r.id : r \in Put(rows, row)} = {r.id : r \in rows}
  BY <1>1 DEF Put
<1>7. Distinct(Put(rows, row))
  BY DEF Put, Counts, Distinct
<1> QED
  BY <1>5, <1>6, <1>7 DEF Counts

(* A row joins the file and the end of the table.                          *)
LEMMA AgreesAdds ==
  ASSUME NEW s, NEW n \in Nat, DOMAIN s = 1 .. n, NEW rows, NEW refused, Agrees(s, rows, refused),
         NEW row, row.id \notin {r.id : r \in rows},
         NEW t, DOMAIN t = 1 .. n + 1, \A i \in 1 .. n : t[i] = s[i], t[n + 1] = row
  PROVE  Agrees(t, rows \cup {row}, refused)
<1>1. RowsOf(t) = RowsOf(s) \cup {row}
  <2>1. \A i \in 1 .. n + 1 : i \in 1 .. n \/ i = n + 1
    OBVIOUS
  <2>2. 1 .. n \subseteq 1 .. n + 1 /\ n + 1 \in 1 .. n + 1
    OBVIOUS
  <2> QED
    BY <2>1, <2>2 DEF RowsOf
<1>2. {r.id : r \in RowsOf(t)} = {r.id : r \in rows \cup {row}}
  <2>1. {r.id : r \in RowsOf(t)} = {r.id : r \in RowsOf(s)} \cup {row.id}
    BY <1>1
  <2>2. {r.id : r \in rows \cup {row}} = {r.id : r \in rows} \cup {row.id}
    OBVIOUS
  <2> QED
    BY <2>1, <2>2 DEF Agrees
<1>3. \A i, j \in DOMAIN t : t[i].id = t[j].id => i = j
  <2>1. \A i \in 1 .. n : t[i].id # row.id
    <3> TAKE i \in 1 .. n
    <3>1. s[i] \in RowsOf(s)
      BY DEF RowsOf
    <3>2. s[i].id \in {r.id : r \in RowsOf(s)}
      BY <3>1
    <3> QED
      BY <3>2 DEF Agrees
  <2> QED
    BY <2>1 DEF Agrees
<1>4. \A r \in RowsOf(t) : r.id \in refused \/ r \in rows \cup {row}
  BY <1>1 DEF Agrees
<1>5. ASSUME NEW r \in rows \cup {row} PROVE SameContact(t, r)
  <2>1. \A q \in RowsOf(s) : q.id \in {p.id : p \in RowsOf(s)}
    OBVIOUS
  <2>2. \A q \in RowsOf(s) : q.id # row.id
    BY <2>1 DEF Agrees
  <2>3. r \in rows => r.id # row.id
    OBVIOUS
  <2> QED
    BY <1>1, <2>2, <2>3 DEF Agrees, SameContact
<1> QED
  BY <1>2, <1>3, <1>4, <1>5 DEF Agrees

(* A row is changed in the table, and in the file unless it is refused.    *)
LEMMA AgreesPuts ==
  ASSUME NEW s, NEW rows, NEW refused, Agrees(s, rows, refused), Counts(rows),
         NEW k \in DOMAIN s, NEW row, row.id = s[k].id,
         NEW t, DOMAIN t = DOMAIN s, t[k] = row, \A i \in DOMAIN s \ {k} : t[i] = s[i]
  PROVE  /\ row.id \in {r.id : r \in rows}
         /\ Agrees(t, Put(rows, row), refused \ {row.id})
         /\ row.c = s[k].c /\ row.at = s[k].at => Agrees(t, rows, refused \cup {row.id})
<1>1. row.id \in {r.id : r \in rows}
  BY DEF Agrees, RowsOf
<1>2. /\ {r.id : r \in RowsOf(t)} = {r.id : r \in RowsOf(s)}
      /\ \A i, j \in DOMAIN t : t[i].id = t[j].id => i = j
      /\ \A r \in RowsOf(t) : r = row \/ (r \in RowsOf(s) /\ r.id # row.id)
  <2>1. \A i, j \in DOMAIN s : s[i].id = s[j].id => i = j
    BY DEF Agrees
  <2>2. \A i \in DOMAIN s : t[i].id = s[i].id
    OBVIOUS
  <2>3. \A r \in RowsOf(t) : r = row \/ (r \in RowsOf(s) /\ r.id # row.id)
    BY <2>1 DEF RowsOf
  <2>4. {r.id : r \in RowsOf(t)} = {r.id : r \in RowsOf(s)}
    BY <2>2 DEF RowsOf
  <2> QED
    BY <2>1, <2>2, <2>3, <2>4
<1>3. {r.id : r \in Put(rows, row)} = {r.id : r \in rows}
  BY <1>1, FilePuts
<1>4. \A r \in RowsOf(t) : r.id \in refused \ {row.id} \/ r \in Put(rows, row)
  BY <1>2 DEF Agrees, Put
<1>5. \A r \in RowsOf(t) : r.id \in refused \cup {row.id} \/ r \in rows
  BY <1>2 DEF Agrees
<1>6. \A r \in Put(rows, row) : SameContact(t, r)
  <2>1. \A r \in rows : SameContact(s, r)
    BY DEF Agrees
  <2> QED
    BY <1>2, <2>1 DEF SameContact, Put
<1>7. ASSUME row.c = s[k].c, row.at = s[k].at, NEW r \in rows PROVE SameContact(t, r)
  <2>1. SameContact(s, r) /\ s[k] \in RowsOf(s)
    BY DEF Agrees, RowsOf
  <2> QED
    BY <1>2, <1>7, <2>1 DEF SameContact
<1> QED
  BY <1>1, <1>2, <1>3, <1>4, <1>5, <1>6, <1>7 DEF Agrees

(* More rows may be refused than are.                                      *)
LEMMA AgreesMore ==
  ASSUME NEW s, NEW rows, NEW refused, NEW more, refused \subseteq more,
         Agrees(s, rows, refused)
  PROVE  Agrees(s, rows, more)
BY DEF Agrees

(* The file is read.                                                       *)
LEMMA AgreesRead ==
  ASSUME NEW rows, Counts(rows), Stamped(rows), NEW refused
  PROVE  Agrees(ByTime(rows), rows, refused)
<1>1. /\ ByTime(rows) \in [1 .. Cardinality(rows) -> rows] /\ RowsOf(ByTime(rows)) = rows
      /\ \A i, j \in 1 .. Cardinality(rows) : ByTime(rows)[i] = ByTime(rows)[j] => i = j
  BY ByTimeSorts DEF Counts
<1>2. \A i, j \in DOMAIN ByTime(rows) :
        ByTime(rows)[i].id = ByTime(rows)[j].id => i = j
  BY <1>1 DEF Counts, Distinct
<1>3. \A r \in rows : SameContact(ByTime(rows), r)
  BY <1>1 DEF Counts, Distinct, SameContact
<1> QED
  BY <1>1, <1>2, <1>3 DEF Agrees

-----------------------------------------------------------------------------
(* Scoring a row after the ones before it.                                 *)

\* What a rescore remembers of the first n rows
KeysOf(s, n) == {DupeKey(s[j].c) : j \in 1 .. n}
MultsOf(s, n) ==
  {<<m.type, Prefixed(s[j].c, m), Value(contest, s[j].c, m.type)>> :
     j \in 1 .. n, m \in MultTypes(contest, Home)}
ValuesOf(s, n) == {w \in MultsOf(s, n) : w[3] # ""}

LEMMA KeyMeansRepeats ==
  ASSUME NEW c, NEW d
  PROVE  DupeKey(c) = DupeKey(d) <=> Repeats(c, d) /\ c.mode = d.mode
BY DEF DupeKey, Repeats, SameMode

\* The first n rows of t have v as a value of type m where row i would claim it
HasValue(t, n, i, m, v) ==
  \E j \in 1 .. n : /\ Value(contest, t[j].c, m.type) = v
                    /\ Prefixed(t[j].c, m) = Prefixed(t[i].c, m)

Lists(worked, t, n, i, m) ==
  \A v : v # "" => (v \in worked <=> HasValue(t, n, i, m, v))

(* A multiplier is claimed if and only if the row is its first, whichever  *)
(* way the values worked so far were collected.                            *)
LEMMA FirstsAreClaimed ==
  ASSUME NEW n \in Nat, NEW t, NEW m, NEW worked, Lists(worked, t, n, n + 1, m)
  PROVE  /\ NewValue(contest, t[n + 1].c, m.type, worked) # "" <=> IsFirst(t, n + 1, m)
         /\ IsFirst(t, n + 1, m) =>
              NewValue(contest, t[n + 1].c, m.type, worked) = Value(contest, t[n + 1].c, m.type)
<1> DEFINE v == Value(contest, t[n + 1].c, m.type)
<1>1. NewValue(contest, t[n + 1].c, m.type, worked)
        = IF v \in worked /\ contest \notin Sweepstakes THEN "" ELSE v
  BY DEF NewValue
<1>2. (n + 1) - 1 = n
  OBVIOUS
<1>3. IsFirst(t, n + 1, m) <=>
        v # "" /\ (contest \notin Sweepstakes => ~HasValue(t, n, n + 1, m, v))
  BY <1>2 DEF IsFirst, HasValue
<1>4. v # "" => (v \in worked <=> HasValue(t, n, n + 1, m, v))
  BY DEF Lists
<1> QED
  BY <1>1, <1>3, <1>4

(* The claims made so are the ones of the first rows.                      *)
Marks(new, t, i) ==
  \A m \in MultTypes(contest, Home) :
    /\ new[m] # "" <=> IsFirst(t, i, m)
    /\ IsFirst(t, i, m) => new[m] = Value(contest, t[i].c, m.type)

LEMMA ClaimsOfFirsts ==
  ASSUME NEW t, NEW i, NEW new, Marks(new, t, i)
  PROVE  {x \in {<<m.type, new[m]>> : m \in MultTypes(contest, Home)} : x[2] # ""}
           = FirstClaims(t, i)
<1> DEFINE M == MultTypes(contest, Home)
           L == {x \in {<<m.type, new[m]>> : m \in M} : x[2] # ""}
<1>1. \A m \in M : /\ new[m] # "" <=> IsFirst(t, i, m)
                   /\ IsFirst(t, i, m) => new[m] = Value(contest, t[i].c, m.type)
  BY DEF Marks
<1> HIDE DEF M
<1>2. L \subseteq FirstClaims(t, i)
  <2> SUFFICES ASSUME NEW m \in M, <<m.type, new[m]>>[2] # ""
               PROVE  <<m.type, new[m]>> \in FirstClaims(t, i)
    OBVIOUS
  <2>1. IsFirst(t, i, m) /\ new[m] = Value(contest, t[i].c, m.type)
    BY <1>1
  <2> QED
    BY <2>1 DEF FirstClaims, M
<1>3. FirstClaims(t, i) \subseteq L
  <2> SUFFICES ASSUME NEW m \in M, IsFirst(t, i, m)
               PROVE  <<m.type, Value(contest, t[i].c, m.type)>> \in L
    BY DEF FirstClaims, M
  <2>1. new[m] # "" /\ new[m] = Value(contest, t[i].c, m.type)
    BY <1>1
  <2> QED
    BY <2>1
<1> QED
  BY <1>2, <1>3 DEF M

(* Logging compares with the rows of the table.                            *)
LEMMA LoggedClaims ==
  ASSUME NEW n \in Nat, NEW s, DOMAIN s = 1 .. n, NEW t, \A i \in 1 .. n : t[i] = s[i]
  PROVE  Claims(t[n + 1].c, RowsOf(s)) = FirstClaims(t, n + 1)
<1> DEFINE c == t[n + 1].c
           M == MultTypes(contest, Home)
           new == [m \in M |-> NewValue(contest, c, m.type, WorkedValues(c, m, RowsOf(s)))]
<1>1. Marks(new, t, n + 1)
  <2> SUFFICES ASSUME NEW m \in M
               PROVE  /\ new[m] # "" <=> IsFirst(t, n + 1, m)
                      /\ IsFirst(t, n + 1, m) => new[m] = Value(contest, c, m.type)
    BY DEF Marks
  <2>1. \A d : Prefixed(d, m) = Prefixed(c, m) <=> (m.perBand => d.band = c.band)
    BY DEF Prefixed
  <2>2. ASSUME NEW v, v # ""
        PROVE  v \in WorkedValues(c, m, RowsOf(s)) <=> HasValue(t, n, n + 1, m, v)
    <3>1. v \in WorkedValues(c, m, RowsOf(s))
            <=> \E j \in 1 .. n : /\ Value(contest, s[j].c, m.type) = v
                                  /\ m.perBand => s[j].c.band = c.band
      BY <2>2 DEF WorkedValues, RowsOf
    <3> QED
      BY <2>1, <3>1 DEF HasValue
  <2>3. Lists(WorkedValues(c, m, RowsOf(s)), t, n, n + 1, m)
    BY <2>2 DEF Lists
  <2>4. new[m] = NewValue(contest, c, m.type, WorkedValues(c, m, RowsOf(s)))
    OBVIOUS
  <2> HIDE DEF new, c, M
  <2>5. PICK worked : worked = WorkedValues(c, m, RowsOf(s))
    OBVIOUS
  <2>6. Lists(worked, t, n, n + 1, m)
    BY <2>3, <2>5
  <2>7. /\ NewValue(contest, t[n + 1].c, m.type, worked) # "" <=> IsFirst(t, n + 1, m)
        /\ IsFirst(t, n + 1, m) =>
             NewValue(contest, t[n + 1].c, m.type, worked) = Value(contest, t[n + 1].c, m.type)
    BY <2>6, FirstsAreClaimed
  <2> QED
    BY <2>4, <2>5, <2>7 DEF c
<1>2. Claims(c, RowsOf(s)) = {x \in {<<m.type, new[m]>> : m \in M} : x[2] # ""}
  BY DEF Claims
<1> HIDE DEF new
<1>3. {x \in {<<m.type, new[m]>> : m \in M} : x[2] # ""} = FirstClaims(t, n + 1)
  BY <1>1, ClaimsOfFirsts
<1> QED
  BY <1>2, <1>3

(* A rescore compares with what it remembers of the rows before.           *)
Remembered(worked, c, m) ==
  {v \in {w[3] : w \in worked} : <<m.type, Prefixed(c, m), v>> \in worked}

LEMMA RememberedClaims ==
  ASSUME contest \in Registered, NEW n \in Nat, NEW t
  PROVE  {x \in {<<m.type, NewValue(contest, t[n + 1].c, m.type,
                                    Remembered(ValuesOf(t, n), t[n + 1].c, m))>> :
                    m \in MultTypes(contest, Home)} : x[2] # ""}
           = FirstClaims(t, n + 1)
<1> DEFINE c == t[n + 1].c
           M == MultTypes(contest, Home)
           W == ValuesOf(t, n)
           new == [m \in M |-> NewValue(contest, c, m.type, Remembered(W, c, m))]
<1>1. Marks(new, t, n + 1)
  <2> SUFFICES ASSUME NEW m \in M
               PROVE  /\ new[m] # "" <=> IsFirst(t, n + 1, m)
                      /\ IsFirst(t, n + 1, m) => new[m] = Value(contest, c, m.type)
    BY DEF Marks
  <2>1. ASSUME NEW v, <<m.type, Prefixed(c, m), v>> \in W PROVE HasValue(t, n, n + 1, m, v)
    <3>1. \E j \in 1 .. n, o \in M :
            <<m.type, Prefixed(c, m), v>>
              = <<o.type, Prefixed(t[j].c, o), Value(contest, t[j].c, o.type)>>
      <4>1. <<m.type, Prefixed(c, m), v>> \in MultsOf(t, n)
        BY <2>1 DEF ValuesOf
      <4> QED
        BY <4>1 DEF MultsOf
    <3>2. PICK j \in 1 .. n, o \in M :
            /\ m.type = o.type /\ Prefixed(c, m) = Prefixed(t[j].c, o)
            /\ v = Value(contest, t[j].c, o.type)
      BY <3>1
    <3>3. o = m
      BY <3>2, TypesAreDistinct
    <3> QED
      BY <3>2, <3>3 DEF HasValue
  <2>2. ASSUME NEW v, v # "", HasValue(t, n, n + 1, m, v)
        PROVE  <<m.type, Prefixed(c, m), v>> \in W
    <3>1. PICK j \in 1 .. n : /\ Value(contest, t[j].c, m.type) = v
                              /\ Prefixed(t[j].c, m) = Prefixed(c, m)
      BY <2>2 DEF HasValue
    <3>2. <<m.type, Prefixed(c, m), v>> \in MultsOf(t, n)
      BY <3>1 DEF MultsOf
    <3>3. <<m.type, Prefixed(c, m), v>>[3] # ""
      BY <2>2
    <3> QED
      BY <3>2, <3>3 DEF ValuesOf
  <2>3. \A v : <<m.type, Prefixed(c, m), v>> \in W => v \in {w[3] : w \in W}
    OBVIOUS
  <2> HIDE DEF W, c
  <2>4. \A v : v \in Remembered(W, c, m) <=> <<m.type, Prefixed(c, m), v>> \in W
    BY <2>3 DEF Remembered
  <2>5. Lists(Remembered(W, c, m), t, n, n + 1, m)
    BY <2>1, <2>2, <2>4 DEF Lists
  <2>6. new[m] = NewValue(contest, c, m.type, Remembered(W, c, m))
    OBVIOUS
  <2> QED
    BY <2>5, <2>6, FirstsAreClaimed DEF c
<1> HIDE DEF W, c
<1>2. {x \in {<<m.type, NewValue(contest, c, m.type, Remembered(W, c, m))>> : m \in M} :
         x[2] # ""}
        = {x \in {<<m.type, new[m]>> : m \in M} : x[2] # ""}
  OBVIOUS
<1>3. {x \in {<<m.type, new[m]>> : m \in M} : x[2] # ""} = FirstClaims(t, n + 1)
  <2> HIDE DEF new
  <2> QED
    BY <1>1, ClaimsOfFirsts
<1> QED
  BY <1>2, <1>3 DEF W, c

-----------------------------------------------------------------------------
(* The invariant.                                                          *)

\* The rows that need not be the file's: an import rescores rows with ids
Refused(kind, late, lost) == IF kind = "import" THEN late ELSE late \cup lost

JobInv ==
  ~Idle =>
    /\ job = [kind |-> job.kind, rows |-> job.rows, station |-> job.station,
              next |-> job.next, keys |-> job.keys, worked |-> job.worked]
    /\ Agrees(job.rows, fileRows, Refused(job.kind, stale, unlinked))

\* The rows a rescore is done with are in order, it remembers what they were
\* worth, and an import's rows are sorted
RescoreInv ==
  ~Idle =>
    /\ job.keys = KeysOf(job.rows, job.next - 1)
    /\ job.worked = ValuesOf(job.rows, job.next - 1)
    /\ \A i \in 1 .. job.next - 1 : InTableOrder(job.rows, i)
    /\ job.kind = "import" => ByAge(job.rows)

TableInv == Idle => Agrees(table, fileRows, stale \cup unlinked)

\* The file has a contact from WSJT-X as it came, until a rescore of an import
UnscoredIn(rows, lost) ==
  \A r \in rows : r.id \in lost => r = Unscored(r.id, r.at, r.c, 0)
UnlinkedInv ==
  /\ unlinked \subseteq {r.id : r \in fileRows}
  /\ job.kind # "import" => UnscoredIn(fileRows, unlinked)

ScoringInv ==
  /\ ScoringTypeOK /\ Counts(fileRows) /\ TableInv /\ UnlinkedInv
  /\ JobInv /\ RescoreInv /\ ScoredInOrder

-----------------------------------------------------------------------------
(* Types.                                                                  *)

LEMMA ScoringBounds ==
  /\ Contests \subseteq Registered /\ Contacts \subseteq Contact
  /\ MaxRows \in Nat /\ MaxStamp \in Nat /\ MaxTrouble \in Nat
  /\ Times \subseteq Nat /\ Ids \subseteq Nat /\ Ids = 1 .. MaxRows
BY ScoringAssumption DEF Times, Ids

\* An edit mixes two contacts
LEMMA EditsAreWorked ==
  /\ Contacts \subseteq Worked /\ Worked \subseteq Contact
  /\ \A c \in Contacts, d \in Worked : Edited(c, d) \in Worked
<1>1. \A c, d \in Contact : /\ Edited(c, d) \in Contact
                            /\ Edited(c, d).country = d.country
                            /\ Edited(c, c) = c
  BY DEF Edited, Contact
<1>2. ASSUME NEW c \in Contacts PROVE c \in Worked
  <2>1. c = Edited(c, c)
    BY <1>1, ScoringBounds
  <2> QED
    BY <2>1 DEF Worked
<1>3. Worked \subseteq Contact
  BY <1>1, ScoringBounds DEF Worked
<1>4. ASSUME NEW c \in Contacts, NEW d \in Worked PROVE Edited(c, d) \in Worked
  <2>1. PICK a \in Contacts, b \in Contacts : d = Edited(a, b)
    BY DEF Worked
  <2>2. d.country = b.country
    BY <1>1, <2>1, ScoringBounds
  <2>3. Edited(c, d) = Edited(c, b)
    BY <2>2 DEF Edited
  <2> QED
    BY <2>1, <2>3 DEF Worked
<1> QED
  BY <1>2, <1>3, <1>4

LEMMA FirstClaimsAreClaims ==
  ASSUME contest \in Registered, NEW t, NEW i, t[i].c \in Contact
  PROVE  FirstClaims(t, i) \in SUBSET Claim
<1> SUFFICES ASSUME NEW m \in MultTypes(contest, Home), IsFirst(t, i, m)
             PROVE  <<m.type, Value(contest, t[i].c, m.type)>> \in Claim
  BY DEF FirstClaims
<1>1. m.type \in ClaimTypes
  BY TypesAreDistinct
<1>2. Value(contest, t[i].c, m.type) # ""
  BY DEF IsFirst
<1> QED
  BY <1>1, <1>2, ValuesAreStrings DEF Claim

LEMMA RowsAreStamped ==
  ASSUME NEW rows \in SUBSET Row
  PROVE  Stamped(rows)
BY ScoringBounds DEF Stamped, Row

(* A row's claims, points and mark as a duplicate are what the rows before *)
(* it make of them.                                                        *)
LEMMA OnlyEarlierCount ==
  ASSUME NEW s, NEW t, NEW i \in Nat \ {0}, \A j \in 1 .. i : t[j].c = s[j].c,
         t[i].dupe = s[i].dupe, t[i].points = s[i].points, t[i].mults = s[i].mults,
         InTableOrder(s, i)
  PROVE  InTableOrder(t, i)
<1>1. /\ i \in 1 .. i /\ 1 .. (i - 1) \subseteq 1 .. i
  OBVIOUS
<1>2. IsDupe(t, i) = IsDupe(s, i)
  BY <1>1 DEF IsDupe
<1>3. \A m : IsFirst(t, i, m) <=> IsFirst(s, i, m)
  BY <1>1 DEF IsFirst
<1>4. FirstClaims(t, i) = FirstClaims(s, i)
  BY <1>1, <1>3 DEF FirstClaims
<1>5. \A me : Worth(t, i, me) = Worth(s, i, me)
  BY <1>1, <1>2 DEF Worth
<1> QED
  BY <1>2, <1>4, <1>5 DEF InTableOrder

\* The contest stays while its table is scored
LEMMA OrderStays ==
  ASSUME contest' = contest, NEW s, table' = s, NEW i
  PROVE  InTableOrder(table, i)' <=> InTableOrder(s, i)
<1>1. IsDupe(table, i)' = IsDupe(s, i)
  BY DEF IsDupe, DupeKey
<1>2. FirstClaims(table, i)' = FirstClaims(s, i)
  BY DEF FirstClaims, IsFirst, Prefixed
<1>3. \A me \in Scorers : Worth(table, i, me)' = Worth(s, i, me)
  BY <1>1 DEF Worth
<1> QED
  BY <1>1, <1>2, <1>3 DEF InTableOrder

LEMMA JobOrderStays ==
  ASSUME contest' = contest, NEW s, job'.rows = s, NEW i
  PROVE  InTableOrder(job.rows, i)' <=> InTableOrder(s, i)
<1>1. IsDupe(job.rows, i)' = IsDupe(s, i)
  BY DEF IsDupe, DupeKey
<1>2. FirstClaims(job.rows, i)' = FirstClaims(s, i)
  BY DEF FirstClaims, IsFirst, Prefixed
<1>3. \A me \in Scorers : Worth(job.rows, i, me)' = Worth(s, i, me)
  BY <1>1 DEF Worth
<1> QED
  BY <1>1, <1>2, <1>3 DEF InTableOrder

LEMMA MemoryStays ==
  ASSUME contest' = contest, NEW s, NEW n
  PROVE  (job'.rows = s /\ job'.next = n) =>
           /\ KeysOf(job.rows, job.next - 1)' = KeysOf(s, n - 1)
           /\ ValuesOf(job.rows, job.next - 1)' = ValuesOf(s, n - 1)
BY DEF KeysOf, ValuesOf, MultsOf, DupeKey, Prefixed

LEMMA TableFacts ==
  ASSUME ScoringTypeOK
  PROVE  /\ contest \in Registered
         /\ Len(table) \in Nat /\ DOMAIN table = 1 .. Len(table)
         /\ \A i \in 1 .. Len(table) : table[i] \in Row
         /\ RowsOf(table) \subseteq Row
<1>1. table \in Seq(Row) /\ contest \in Registered
  BY ScoringBounds DEF ScoringTypeOK
<1>2. /\ Len(table) \in Nat /\ DOMAIN table = 1 .. Len(table)
      /\ \A i \in 1 .. Len(table) : table[i] \in Row
  BY <1>1, LenProperties, ElementOfSeq
<1> QED
  BY <1>1, <1>2 DEF RowsOf

LEMMA JobFacts ==
  ASSUME ScoringTypeOK, JobInv, ~Idle
  PROVE  /\ job = [kind |-> job.kind, rows |-> job.rows, station |-> job.station,
                   next |-> job.next, keys |-> job.keys, worked |-> job.worked]
         /\ job.kind \in {"window", "import"} /\ job.rows \in Seq(Row)
         /\ job.station \in Scorers
         /\ Len(job.rows) \in Nat /\ DOMAIN job.rows = 1 .. Len(job.rows)
         /\ job.next \in 1 .. Len(job.rows) + 1
         /\ \A i \in 1 .. Len(job.rows) : job.rows[i] \in Row
<1>1. job.rows \in Seq(Row)
  BY DEF ScoringTypeOK
<1>2. /\ Len(job.rows) \in Nat /\ DOMAIN job.rows = 1 .. Len(job.rows)
      /\ \A i \in 1 .. Len(job.rows) : job.rows[i] \in Row
  BY <1>1, LenProperties, ElementOfSeq
<1> QED
  BY <1>1, <1>2 DEF ScoringTypeOK, JobInv

LEMMA JobIsNew ==
  ASSUME NEW kind \in {"window", "import"}, NEW rows, NEW me
  PROVE  /\ Job(kind, rows, me) # NoJob
         /\ Job(kind, rows, me) = [kind |-> kind, rows |-> rows, station |-> me,
                                   next |-> 1, keys |-> {}, worked |-> {}]
<1>1. Job(kind, rows, me).kind = kind /\ NoJob.kind = "none"
  BY DEF Job, NoJob
<1> QED
  BY <1>1 DEF Job

(* A rescore starts with what the rows say.                                *)
LEMMA StartInv ==
  ASSUME contest' = contest, contest \in Contests, NEW kind \in {"window", "import"},
         NEW rows \in Seq(Row), NEW me \in Scorers, job' = Job(kind, rows, me),
         Agrees(rows, fileRows', Refused(kind, stale', unlinked')),
         kind = "import" => ByAge(rows)
  PROVE  /\ ~Idle' /\ JobInv' /\ RescoreInv' /\ TableInv' /\ ScoredInOrder'
         /\ job'.kind = kind /\ job'.rows \in Seq(Row) /\ job'.station \in Scorers
         /\ job'.next \in 1 .. Len(job'.rows) + 1
<1>1. ~Idle'
  BY JobIsNew DEF Idle, NoJob
<1>2. /\ job' = [kind |-> job'.kind, rows |-> job'.rows, station |-> job'.station,
                 next |-> job'.next, keys |-> job'.keys, worked |-> job'.worked]
      /\ job'.kind = kind /\ job'.rows = rows /\ job'.station = me /\ job'.next = 1
      /\ job'.keys = {} /\ job'.worked = {}
  BY JobIsNew
<1>3. JobInv'
  BY <1>2 DEF JobInv
<1>4. KeysOf(rows, 1 - 1) = {} /\ ValuesOf(rows, 1 - 1) = {}
  <2>1. 1 .. 1 - 1 = {}
    OBVIOUS
  <2> QED
    BY <2>1 DEF KeysOf, ValuesOf, MultsOf
<1>5. /\ KeysOf(job.rows, job.next - 1)' = {}
      /\ ValuesOf(job.rows, job.next - 1)' = {}
  BY <1>2, <1>4, MemoryStays
<1>6. 1 .. job'.next - 1 = {}
  BY <1>2
<1>7. RescoreInv'
  BY <1>2, <1>5, <1>6 DEF RescoreInv
<1>8. Len(rows) \in Nat
  BY LenProperties
<1>9. TableInv' /\ ScoredInOrder'
  BY <1>1 DEF TableInv, ScoredInOrder
<1> QED
  BY <1>1, <1>2, <1>3, <1>7, <1>8, <1>9

(* A row scored against the table goes to its end.                         *)
LEMMA LoggedRow ==
  ASSUME ScoringTypeOK, NEW id \in Ids, NEW at \in Times, NEW c \in Contacts,
         NEW row, row = Scored(id, at, c, RowsOf(table))
  PROVE  /\ row \in Row /\ row.id = id
         /\ (~ \E r \in RowsOf(table) : Repeats(c, r.c) /\ r.c.mode # c.mode)
              => InTableOrder(Append(table, row), Len(table) + 1)
<1> DEFINE n == Len(table)
           t == Append(table, row)
<1>1. contest \in Registered /\ n \in Nat /\ DOMAIN table = 1 .. n /\ table \in Seq(Row)
  BY TableFacts DEF ScoringTypeOK
<1>2. /\ row.id = id /\ row.at = at /\ row.c = c
      /\ row.dupe = \E r \in RowsOf(table) : Repeats(c, r.c)
      /\ row.points = IF row.dupe THEN 0 ELSE Points(contest, c, Home)
      /\ row.mults = Claims(c, RowsOf(table))
      /\ row = [id |-> row.id, at |-> row.at, c |-> row.c, dupe |-> row.dupe,
                points |-> row.points, mults |-> row.mults]
  BY DEF Scored
<1>3. /\ \A i \in 1 .. n : t[i] = table[i]
      /\ t[n + 1] = row
  BY <1>1
<1> HIDE DEF n, t
<1>4. row.mults = FirstClaims(t, n + 1)
  BY <1>1, <1>2, <1>3, LoggedClaims
<1>5. c \in Worked /\ c \in Contact
  BY EditsAreWorked
<1>6. row \in Row
  <2>1. row.mults \in SUBSET Claim
    BY <1>1, <1>2, <1>3, <1>4, <1>5, FirstClaimsAreClaims
  <2>2. row.points \in Nat
    BY <1>1, <1>2, PointsAreNat
  <2> QED
    BY <1>2, <1>5, <2>1, <2>2 DEF Row
<1>7. ASSUME ~ \E r \in RowsOf(table) : Repeats(c, r.c) /\ r.c.mode # c.mode
      PROVE  InTableOrder(t, n + 1)
  <2>1. (n + 1) - 1 = n
    BY <1>1
  <2>2. row.dupe = IsDupe(t, n + 1)
    <3>1. IsDupe(t, n + 1) = \E j \in 1 .. n : DupeKey(table[j].c) = DupeKey(c)
      BY <1>2, <1>3, <2>1 DEF IsDupe
    <3>2. \A j \in 1 .. n : Repeats(c, table[j].c) <=> DupeKey(table[j].c) = DupeKey(c)
      BY <1>1, <1>7, KeyMeansRepeats DEF RowsOf
    <3> QED
      BY <1>1, <1>2, <3>1, <3>2 DEF RowsOf
  <2>3. row.points = Worth(t, n + 1, Home) /\ Home \in Scorers
    BY <1>2, <1>3, <2>2 DEF Worth, Scorers
  <2> QED
    BY <1>3, <1>4, <2>2, <2>3 DEF InTableOrder
<1> QED
  BY <1>2, <1>6, <1>7 DEF n, t

(* A rescored row stays the row it was, and is in order.                   *)
LEMMA RescoredRow ==
  ASSUME ScoringTypeOK, JobInv, RescoreInv, ~Idle, job.next <= Len(job.rows),
         NEW row, row = Rescored(job), NEW t, t = [job.rows EXCEPT ![job.next] = row]
  PROVE  /\ row \in Row
         /\ row.id = job.rows[job.next].id /\ row.at = job.rows[job.next].at
         /\ row.c = job.rows[job.next].c
         /\ InTableOrder(t, job.next)
<1> DEFINE r == job.rows[job.next]
           n == job.next - 1
           dupe == DupeKey(r.c) \in job.keys
           station == job.station
           claims == {x \in {<<m.type, NewValue(contest, r.c, m.type,
                                                Remembered(job.worked, r.c, m))>> :
                               m \in MultTypes(contest, Home)} : x[2] # ""}
<1>1. /\ contest \in Registered /\ n \in Nat /\ job.next = n + 1
      /\ Len(job.rows) \in Nat /\ DOMAIN job.rows = 1 .. Len(job.rows)
      /\ job.next \in 1 .. Len(job.rows) /\ r \in Row
      /\ \A i \in 1 .. Len(job.rows) : job.rows[i] \in Row
  BY TableFacts, JobFacts
<1>2. row = [r EXCEPT !.dupe = dupe,
                      !.points = IF dupe THEN 0 ELSE Points(contest, r.c, station),
                      !.mults = claims]
  BY DEF Rescored, Remembered
<1>3. r = [id |-> r.id, at |-> r.at, c |-> r.c, dupe |-> r.dupe,
           points |-> r.points, mults |-> r.mults]
  BY <1>1 DEF Row
<1>4. /\ row.id = r.id /\ row.at = r.at /\ row.c = r.c
      /\ row.dupe = dupe /\ row.mults = claims
      /\ row.points = IF dupe THEN 0 ELSE Points(contest, r.c, station)
      /\ row = [id |-> row.id, at |-> row.at, c |-> row.c, dupe |-> row.dupe,
                points |-> row.points, mults |-> row.mults]
  <2> HIDE DEF r, dupe, claims, station
  <2> QED
    BY <1>2, <1>3
<1> HIDE DEF n
<1>5. /\ t[n + 1] = row /\ \A i \in 1 .. Len(job.rows) : t[i].c = job.rows[i].c
      /\ \A i \in 1 .. n : t[i] = job.rows[i]
  <2>1. \A i \in 1 .. Len(job.rows) : t[i] = IF i = n + 1 THEN row ELSE job.rows[i]
    BY <1>1
  <2>2. row.c = job.rows[n + 1].c
    BY <1>1, <1>4
  <2>3. \A i \in 1 .. n : i \in 1 .. Len(job.rows) /\ i # n + 1
    BY <1>1
  <2> HIDE DEF r
  <2> QED
    BY <1>1, <2>1, <2>2, <2>3
<1>6. KeysOf(t, n) = job.keys /\ ValuesOf(t, n) = job.worked
  <2>1. \A i \in 1 .. n : t[i].c = job.rows[i].c
    BY <1>5
  <2>2. KeysOf(t, n) = KeysOf(job.rows, n)
    BY <2>1 DEF KeysOf
  <2>3. MultsOf(t, n) = MultsOf(job.rows, n)
    BY <2>1 DEF MultsOf
  <2> QED
    BY <2>2, <2>3 DEF RescoreInv, ValuesOf, n
<1>7. claims = FirstClaims(t, n + 1)
  <2>1. t[n + 1].c = r.c
    BY <1>4, <1>5
  <2>2. claims = {x \in {<<m.type, NewValue(contest, t[n + 1].c, m.type,
                                           Remembered(ValuesOf(t, n), t[n + 1].c, m))>> :
                            m \in MultTypes(contest, Home)} : x[2] # ""}
    BY <1>6, <2>1
  <2> HIDE DEF claims
  <2> QED
    BY <1>1, <2>2, RememberedClaims
<1> HIDE DEF r, dupe, claims, station
<1>8. row.dupe = IsDupe(t, n + 1)
  <2>1. (n + 1) - 1 = n
    BY <1>1
  <2>2. IsDupe(t, n + 1) <=> \E j \in 1 .. n : DupeKey(t[j].c) = DupeKey(row.c)
    BY <1>5, <2>1 DEF IsDupe
  <2>3. dupe <=> \E j \in 1 .. n : DupeKey(t[j].c) = DupeKey(row.c)
    BY <1>4, <1>6 DEF KeysOf, dupe
  <2>4. dupe \in BOOLEAN /\ IsDupe(t, n + 1) \in BOOLEAN
    BY DEF dupe, IsDupe
  <2>5. dupe = IsDupe(t, n + 1)
    BY <2>2, <2>3, <2>4
  <2> QED
    BY <1>4, <2>5
<1>9. row.points = Worth(t, n + 1, job.station) /\ job.station \in Scorers
  BY <1>4, <1>5, <1>8, JobFacts DEF Worth, station
<1>10. InTableOrder(t, n + 1)
  BY <1>4, <1>5, <1>7, <1>8, <1>9 DEF InTableOrder
<1>11. row \in Row
  <2>1. r.c \in Worked /\ r.id \in Ids /\ r.at \in Times
    BY <1>1 DEF Row
  <2>2. row.c \in Contact /\ t[n + 1].c \in Contact
    BY <1>4, <1>5, <2>1, EditsAreWorked
  <2>3. row.mults \in SUBSET Claim
    BY <1>1, <1>4, <1>7, <2>2, FirstClaimsAreClaims
  <2>4. row.points \in Nat
    BY <1>1, <1>4, PointsAreNat
  <2>5. row.dupe \in BOOLEAN
    BY <1>4 DEF dupe
  <2> QED
    BY <1>4, <2>1, <2>3, <2>4, <2>5 DEF Row
<1> QED
  BY <1>1, <1>4, <1>10, <1>11 DEF r

LEMMA InitScores ==
  ASSUME ScoringInit
  PROVE  ScoringInv
<1>1. /\ contest \in Contests /\ table = <<>> /\ fileRows = {} /\ job = NoJob
      /\ clean = TRUE /\ stale = {} /\ unlinked = {} /\ trouble = 0
  BY DEF ScoringInit
<1>2. ScoringTypeOK
  BY <1>1, ScoringBounds, EmptySeq DEF ScoringTypeOK, Idle
<1>3. Counts(fileRows)
  <2>1. IsFiniteSet({}) /\ Cardinality({}) = 0
    BY FS_EmptySet
  <2> QED
    BY <1>1, <2>1 DEF Counts, Distinct
<1>4. DOMAIN table = {} /\ RowsOf(table) = {}
  BY <1>1 DEF RowsOf
<1>5. TableInv /\ UnlinkedInv
  BY <1>1, <1>4 DEF TableInv, Agrees, UnlinkedInv, UnscoredIn
<1>6. JobInv /\ RescoreInv /\ ScoredInOrder
  BY <1>1, <1>4 DEF Idle, JobInv, RescoreInv, ScoredInOrder
<1> QED
  BY <1>2, <1>3, <1>5, <1>6 DEF ScoringInv

-----------------------------------------------------------------------------
(* Each operation keeps the invariant.                                     *)

(* A row with the next id joins the table and the file.                    *)
LEMMA RowJoins ==
  ASSUME ScoringTypeOK, Counts(fileRows), TableInv, UnlinkedInv, Idle, NextId \in Ids,
         NEW row \in Row, row.id = NextId, UNCHANGED <<contest, job, stale>>,
         \/ unlinked' = unlinked
         \/ unlinked' = unlinked \cup {row.id} /\ row = Unscored(row.id, row.at, row.c, 0),
         table' = Append(table, row), fileRows' = fileRows \cup {row},
         clean' \in BOOLEAN, trouble' \in 0 .. MaxTrouble,
         clean' => \A i \in 1 .. Len(table) + 1 : InTableOrder(Append(table, row), i)
  PROVE  ScoringInv'
<1> DEFINE n == Len(table)
           t == Append(table, row)
<1>1. n \in Nat /\ DOMAIN table = 1 .. n /\ table \in Seq(Row)
  BY TableFacts DEF ScoringTypeOK
<1>2. /\ t \in Seq(Row) /\ Len(t) = n + 1 /\ DOMAIN t = 1 .. n + 1
      /\ \A i \in 1 .. n : t[i] = table[i]
      /\ t[n + 1] = row
  BY <1>1
<1> HIDE DEF n, t
<1>3. Counts(fileRows \cup {row}) /\ row.id \notin {r.id : r \in fileRows}
  BY FileAdds DEF NextId
<1>4. Agrees(t, fileRows \cup {row}, stale' \cup unlinked')
  <2>1. Agrees(t, fileRows \cup {row}, stale \cup unlinked)
    BY <1>1, <1>2, <1>3, AgreesAdds DEF TableInv
  <2>2. stale \cup unlinked \subseteq stale' \cup unlinked'
    OBVIOUS
  <2> QED
    BY <2>1, <2>2, AgreesMore
<1>5. table' = t /\ Idle' /\ job' = job
  BY DEF t, Idle
<1>6. ScoringTypeOK'
  BY <1>2, <1>5 DEF ScoringTypeOK
<1>10. UnlinkedInv'
  <2>1. job.kind # "import"
    BY DEF Idle, NoJob
  <2>2. unlinked' \subseteq {r.id : r \in fileRows \cup {row}}
    BY DEF UnlinkedInv
  <2>3. ASSUME NEW r \in fileRows \cup {row}, r.id \in unlinked'
        PROVE  r = Unscored(r.id, r.at, r.c, 0)
    <3>1. CASE r = row
      <4>1. row.id \notin unlinked
        BY <1>3 DEF UnlinkedInv
      <4> QED
        BY <2>3, <3>1, <4>1
    <3>2. CASE r # row
      <4>1. r \in fileRows /\ r.id # row.id
        BY <1>3, <3>2
      <4> QED
        BY <2>1, <2>3, <4>1 DEF UnlinkedInv, UnscoredIn
    <3> QED
      BY <3>1, <3>2
  <2> QED
    BY <2>2, <2>3 DEF UnlinkedInv, UnscoredIn
<1>7. Counts(fileRows)' /\ TableInv'
  BY <1>3, <1>4, <1>5 DEF TableInv
<1>8. ScoredInOrder'
  BY <1>2, <1>5, OrderStays DEF ScoredInOrder, n, t
<1>9. JobInv' /\ RescoreInv'
  BY <1>5 DEF JobInv, RescoreInv
<1> QED
  BY <1>6, <1>7, <1>8, <1>9, <1>10 DEF ScoringInv

LEMMA LogQSOKeeps ==
  ASSUME ScoringInv, NEW c \in Contacts, NEW at \in Times, LogQSO(c, at)
  PROVE  ScoringInv'
<1> DEFINE other == \E r \in RowsOf(table) : Repeats(c, r.c) /\ r.c.mode # c.mode
<1>1. PICK row : row = Scored(NextId, at, c, RowsOf(table))
  OBVIOUS
<1>2. /\ Idle /\ NextId \in Ids
      /\ table' = Append(table, row) /\ fileRows' = fileRows \cup {row}
      /\ clean' = (clean /\ ~other)
      /\ UNCHANGED <<contest, job, stale, unlinked, trouble>>
  BY <1>1 DEF LogQSO
<1>3. /\ ScoringTypeOK /\ Counts(fileRows) /\ TableInv /\ UnlinkedInv /\ ScoredInOrder
  BY DEF ScoringInv
<1>4. /\ row \in Row /\ row.id = NextId
      /\ ~other => InTableOrder(Append(table, row), Len(table) + 1)
  BY <1>1, <1>2, <1>3, LoggedRow
<1>5. clean' \in BOOLEAN /\ (clean' => clean /\ ~other)
  BY <1>2
<1>6. trouble' \in 0 .. MaxTrouble
  BY <1>2, <1>3 DEF ScoringTypeOK
<1> HIDE DEF other
<1>7. ASSUME clean', NEW i \in 1 .. Len(table) + 1 PROVE InTableOrder(Append(table, row), i)
  <2>1. /\ Len(table) \in Nat /\ DOMAIN table = 1 .. Len(table) /\ table \in Seq(Row)
    BY <1>3, TableFacts DEF ScoringTypeOK
  <2>2. CASE i = Len(table) + 1
    BY <1>4, <1>5, <1>7, <2>2
  <2>3. CASE i \in 1 .. Len(table)
    <3>1. InTableOrder(table, i)
      BY <1>2, <1>3, <1>5, <1>7, <2>1, <2>3 DEF ScoredInOrder
    <3>2. \A j \in 1 .. i : Append(table, row)[j] = table[j]
      BY <2>1, <2>3
    <3>3. i \in Nat \ {0} /\ i \in 1 .. i
      BY <2>3
    <3> QED
      BY <3>1, <3>2, <3>3, OnlyEarlierCount
  <2> QED
    BY <2>1, <2>2, <2>3
<1> QED
  BY <1>2, <1>3, <1>4, <1>5, <1>6, <1>7, RowJoins

LEMMA UnscoredIsRow ==
  ASSUME NEW id \in Ids, NEW at \in Times, NEW c \in Contacts, NEW points \in Nat
  PROVE  Unscored(id, at, c, points) \in Row /\ Unscored(id, at, c, points).id = id
BY EditsAreWorked DEF Unscored, Row

LEMMA WsjtxQSOKeeps ==
  ASSUME ScoringInv, NEW c \in Contacts, NEW at \in Times, WsjtxQSO(c, at)
  PROVE  ScoringInv'
<1>1. PICK row : row = Unscored(NextId, at, c, 0)
  OBVIOUS
<1>2. /\ Idle /\ NextId \in Ids /\ trouble < MaxTrouble
      /\ table' = Append(table, row) /\ fileRows' = fileRows \cup {row}
      /\ unlinked' = unlinked \cup {NextId}
      /\ clean' = FALSE /\ trouble' = trouble + 1
      /\ UNCHANGED <<contest, job, stale>>
  BY <1>1 DEF WsjtxQSO
<1>3. /\ ScoringTypeOK /\ Counts(fileRows) /\ TableInv /\ UnlinkedInv
  BY DEF ScoringInv
<1>4. row \in Row /\ row.id = NextId /\ row = Unscored(row.id, row.at, row.c, 0)
  <2>1. row.id = NextId /\ row.at = at /\ row.c = c
    BY <1>1 DEF Unscored
  <2> QED
    BY <1>1, <1>2, <2>1, UnscoredIsRow
<1>5. trouble' \in 0 .. MaxTrouble
  BY <1>2, <1>3, ScoringBounds DEF ScoringTypeOK
<1> QED
  BY <1>2, <1>3, <1>4, <1>5, RowJoins

LEMMA EditQSOKeeps ==
  ASSUME ScoringInv, NEW i \in DOMAIN table, NEW c \in Contacts, NEW at \in Times,
         EditQSO(i, c, at)
  PROVE  ScoringInv'
<1>1. PICK row : row = [table[i] EXCEPT !.c = Edited(c, table[i].c), !.at = at]
  OBVIOUS
<1>2. /\ Idle /\ trouble < MaxTrouble /\ row.id \notin unlinked
      /\ table' = [table EXCEPT ![i] = row] /\ fileRows' = Put(fileRows, row)
      /\ stale' = stale \ {row.id}
      /\ clean' = FALSE /\ trouble' = trouble + 1
      /\ UNCHANGED <<contest, job, unlinked>>
  BY <1>1 DEF EditQSO, Written, Put
<1>3. /\ ScoringTypeOK /\ Counts(fileRows) /\ TableInv /\ UnlinkedInv
  BY DEF ScoringInv
<1>4. /\ table \in Seq(Row) /\ Len(table) \in Nat /\ DOMAIN table = 1 .. Len(table)
      /\ table[i] \in Row
  BY <1>3, TableFacts DEF ScoringTypeOK
<1>5. row \in Row /\ row.id = table[i].id
  <2>1. Edited(c, table[i].c) \in Worked
    BY <1>4, EditsAreWorked DEF Row
  <2> QED
    BY <1>1, <1>4, <2>1 DEF Row
<1>6. table' \in Seq(Row) /\ DOMAIN table' = DOMAIN table
  BY <1>2, <1>4, <1>5, ExceptSeq
<1>7. table'[i] = row /\ \A k \in DOMAIN table \ {i} : table'[k] = table[k]
  BY <1>2, <1>4
<1>8. /\ row.id \in {r.id : r \in fileRows}
      /\ Agrees(table', Put(fileRows, row), (stale \cup unlinked) \ {row.id})
  <2>1. PICK t : t = table'
    OBVIOUS
  <2>2. /\ row.id = table[i].id /\ DOMAIN t = DOMAIN table /\ t[i] = row
        /\ \A k \in DOMAIN table \ {i} : t[k] = table[k]
    BY <1>5, <1>6, <1>7, <2>1
  <2>3. Agrees(table, fileRows, stale \cup unlinked) /\ Counts(fileRows)
    BY <1>2, <1>3 DEF TableInv
  <2>4. /\ row.id \in {r.id : r \in fileRows}
        /\ Agrees(t, Put(fileRows, row), (stale \cup unlinked) \ {row.id})
    BY <2>2, <2>3, AgreesPuts
  <2> QED
    BY <2>1, <2>4
<1>9. Counts(fileRows)' /\ TableInv'
  <2>1. Agrees(table', Put(fileRows, row), stale' \cup unlinked')
    <3>1. (stale \cup unlinked) \ {row.id} \subseteq stale' \cup unlinked'
      BY <1>2
    <3>2. PICK t : t = table'
      OBVIOUS
    <3>3. PICK more : more = stale' \cup unlinked'
      OBVIOUS
    <3>4. Agrees(t, Put(fileRows, row), more)
      BY <1>8, <3>1, <3>2, <3>3, AgreesMore
    <3> QED
      BY <3>2, <3>3, <3>4
  <2> QED
    BY <1>2, <1>3, <1>8, <2>1, FilePuts DEF TableInv, Idle
<1>12. UnlinkedInv'
  BY <1>2, <1>3, <1>8, FilePuts DEF UnlinkedInv, UnscoredIn, Put
<1>10. ScoringTypeOK'
  <2>1. Put(fileRows, row) \subseteq Row
    BY <1>3, <1>5 DEF Put, ScoringTypeOK
  <2>2. trouble' \in 0 .. MaxTrouble
    BY <1>2, <1>3, ScoringBounds DEF ScoringTypeOK
  <2> QED
    BY <1>2, <1>3, <1>6, <2>1, <2>2 DEF ScoringTypeOK, Idle
<1>11. ScoredInOrder' /\ JobInv' /\ RescoreInv'
  BY <1>2 DEF ScoredInOrder, JobInv, RescoreInv, Idle
<1> QED
  BY <1>9, <1>10, <1>11, <1>12 DEF ScoringInv

LEMMA RescoreKeeps ==
  ASSUME ScoringInv, NEW cont \in SettingConts, Rescore(cont)
  PROVE  ScoringInv'
<1>1. /\ Idle /\ job' = Job("window", table, WindowStation(cont))
      /\ UNCHANGED <<contest, table, fileRows, clean, stale, unlinked, trouble>>
  BY DEF Rescore
<1>2. ScoringTypeOK /\ Counts(fileRows) /\ TableInv /\ UnlinkedInv
  BY DEF ScoringInv
<1>3. /\ ~Idle' /\ JobInv' /\ RescoreInv' /\ TableInv' /\ ScoredInOrder'
      /\ job'.kind \in {"window", "import"} /\ job'.rows \in Seq(Row)
      /\ job'.station \in Scorers
      /\ job'.next \in 1 .. Len(job'.rows) + 1
  <2>1. table \in Seq(Row) /\ contest \in Contests /\ contest' = contest
    BY <1>1, <1>2 DEF ScoringTypeOK
  <2>2. Agrees(table, fileRows', Refused("window", stale', unlinked'))
    BY <1>1, <1>2 DEF TableInv, Refused
  <2>4. WindowStation(cont) \in Scorers
    BY DEF Scorers
  <2>3. "window" \in {"window", "import"} /\ "window" # "import"
    OBVIOUS
  <2> QED
    BY <1>1, <2>1, <2>2, <2>3, <2>4, StartInv
<1>4. ScoringTypeOK'
  BY <1>1, <1>2, <1>3 DEF ScoringTypeOK
<1>5. UnlinkedInv'
  BY <1>1, <1>2 DEF UnlinkedInv, Idle, NoJob
<1> QED
  BY <1>1, <1>2, <1>3, <1>4, <1>5 DEF ScoringInv

(* What reading the file gives.                                            *)
LEMMA FileIsRead ==
  ASSUME NEW rows \in SUBSET Row, Counts(rows), NEW refused
  PROVE  /\ ByTime(rows) \in Seq(Row) /\ ByAge(ByTime(rows))
         /\ Agrees(ByTime(rows), rows, refused)
<1>1. Stamped(rows)
  BY RowsAreStamped
<1>2. /\ Cardinality(rows) \in Nat
      /\ ByTime(rows) \in [1 .. Cardinality(rows) -> rows]
      /\ ByAge(ByTime(rows))
  BY <1>1, ByTimeSorts DEF Counts
<1>3. ByTime(rows) \in Seq(Row)
  <2>1. ByTime(rows) \in [1 .. Cardinality(rows) -> Row]
    BY <1>2
  <2> QED
    BY <1>2, <2>1, SeqDef
<1> QED
  BY <1>1, <1>2, <1>3, AgreesRead

LEMMA ActivateKeeps ==
  ASSUME ScoringInv, NEW cont \in SettingConts, Activate(cont)
  PROVE  ScoringInv'
<1>1. /\ trouble < MaxTrouble /\ trouble' = trouble + 1
      /\ table' = ByTime(fileRows)
      /\ job' = Job("window", ByTime(fileRows), WindowStation(cont))
      /\ clean' = FALSE /\ stale' = {} /\ unlinked' = {}
      /\ contest' = contest /\ fileRows' = fileRows
  BY DEF Activate
<1>2. ScoringTypeOK /\ Counts(fileRows)
  BY DEF ScoringInv
<1>3. /\ ByTime(fileRows) \in Seq(Row)
      /\ Agrees(ByTime(fileRows), fileRows', Refused("window", stale', unlinked'))
  BY <1>1, <1>2, FileIsRead DEF ScoringTypeOK
<1>4. /\ ~Idle' /\ JobInv' /\ RescoreInv' /\ TableInv' /\ ScoredInOrder'
      /\ job'.kind \in {"window", "import"} /\ job'.rows \in Seq(Row)
      /\ job'.station \in Scorers
      /\ job'.next \in 1 .. Len(job'.rows) + 1
  <2>1. contest \in Contests
    BY <1>2 DEF ScoringTypeOK
  <2>2. "window" \in {"window", "import"} /\ "window" # "import"
    OBVIOUS
  <2>3. WindowStation(cont) \in Scorers
    BY DEF Scorers
  <2> QED
    BY <1>1, <1>3, <2>1, <2>2, <2>3, StartInv
<1>5. trouble' \in 0 .. MaxTrouble
  BY <1>1, <1>2, ScoringBounds DEF ScoringTypeOK
<1>6. ScoringTypeOK'
  BY <1>1, <1>2, <1>3, <1>4, <1>5 DEF ScoringTypeOK
<1>7. UnlinkedInv'
  BY <1>1 DEF UnlinkedInv, UnscoredIn
<1> QED
  BY <1>1, <1>2, <1>4, <1>6, <1>7 DEF ScoringInv

LEMMA ImportKeeps ==
  ASSUME ScoringInv, NEW c \in Contacts, NEW at \in Times, NEW points \in {0, 9},
         NEW rescore \in BOOLEAN, Import(c, at, points, rescore)
  PROVE  ScoringInv'
<1>1. PICK row : row = Unscored(NextId, at, c, points)
  OBVIOUS
<1>2. PICK stored : stored = fileRows \cup {row}
  OBVIOUS
<1>3. /\ Idle /\ NextId \in Ids /\ trouble < MaxTrouble
      /\ fileRows' = stored /\ trouble' = trouble + 1 /\ contest' = contest
      /\ rescore => /\ job' = Job("import", ByTime(stored), Home)
                    /\ UNCHANGED <<table, stale, unlinked, clean>>
      /\ ~rescore => /\ table' = ByTime(stored)
                     /\ stale' = {} /\ unlinked' = {} /\ clean' = FALSE /\ job' = job
  BY <1>1, <1>2 DEF Import
<1>4. ScoringTypeOK /\ Counts(fileRows) /\ UnlinkedInv
  BY DEF ScoringInv
<1>5. row \in Row /\ row.id = NextId
  BY <1>1, <1>3, UnscoredIsRow
<1>6. stored \in SUBSET Row /\ Counts(stored)
  BY <1>2, <1>4, <1>5, FileAdds DEF ScoringTypeOK, NextId
<1>7. /\ ByTime(stored) \in Seq(Row) /\ ByAge(ByTime(stored))
      /\ Agrees(ByTime(stored), fileRows', Refused("import", stale', unlinked'))
      /\ Agrees(ByTime(stored), fileRows', stale' \cup unlinked')
  BY <1>3, <1>6, FileIsRead
<1>8. trouble' \in 0 .. MaxTrouble /\ contest \in Contests
  BY <1>3, <1>4, ScoringBounds DEF ScoringTypeOK
<1>9. CASE rescore
  <2>1. /\ ~Idle' /\ JobInv' /\ RescoreInv' /\ TableInv' /\ ScoredInOrder'
        /\ job'.kind \in {"window", "import"} /\ job'.rows \in Seq(Row)
        /\ job'.station \in Scorers
        /\ job'.next \in 1 .. Len(job'.rows) + 1
    <3>1. "import" \in {"window", "import"} /\ Home \in Scorers
      BY DEF Scorers
    <3> QED
      BY <1>3, <1>7, <1>8, <1>9, <3>1, StartInv
  <2>2. ScoringTypeOK'
    BY <1>3, <1>4, <1>6, <1>8, <1>9, <2>1 DEF ScoringTypeOK
  <2>3. UnlinkedInv'
    <3>1. job'.kind = "import" /\ unlinked' = unlinked
      BY <1>3, <1>9, JobIsNew
    <3> QED
      BY <1>2, <1>3, <1>4, <3>1 DEF UnlinkedInv
  <2> QED
    BY <1>3, <1>6, <2>1, <2>2, <2>3 DEF ScoringInv
<1>10. CASE ~rescore
  <2>1. Idle'
    BY <1>3, <1>10 DEF Idle
  <2>2. ScoringTypeOK'
    BY <1>3, <1>4, <1>6, <1>7, <1>8, <1>10, <2>1 DEF ScoringTypeOK
  <2>3. TableInv' /\ JobInv' /\ RescoreInv' /\ ScoredInOrder'
    BY <1>3, <1>7, <1>10, <2>1 DEF TableInv, JobInv, RescoreInv, ScoredInOrder
  <2>4. UnlinkedInv'
    BY <1>3, <1>10 DEF UnlinkedInv, UnscoredIn
  <2> QED
    BY <1>3, <1>6, <2>2, <2>3, <2>4 DEF ScoringInv
<1> QED
  BY <1>9, <1>10

\* What a contact adds to the values a rescore remembers
ValuesOfContact(c) ==
  {w \in {<<m.type, Prefixed(c, m), Value(contest, c, m.type)>> :
            m \in MultTypes(contest, Home)} : w[3] # ""}

(* What a rescore remembers grows with each row.                           *)
LEMMA MemoryGrows ==
  ASSUME NEW n \in Nat, NEW s, NEW t, \A i \in 1 .. n + 1 : t[i].c = s[i].c
  PROVE  /\ KeysOf(t, n + 1) = KeysOf(s, n) \cup {DupeKey(s[n + 1].c)}
         /\ ValuesOf(t, n + 1) = ValuesOf(s, n) \cup ValuesOfContact(s[n + 1].c)
<1> DEFINE M == MultTypes(contest, Home)
           c == s[n + 1].c
           new == {<<m.type, Prefixed(c, m), Value(contest, c, m.type)>> : m \in M}
<1>1. 1 .. n + 1 = (1 .. n) \cup {n + 1}
  OBVIOUS
<1> HIDE DEF M
<1>2. KeysOf(t, n + 1) = KeysOf(s, n) \cup {DupeKey(c)}
  <2>1. KeysOf(t, n + 1) = {DupeKey(s[j].c) : j \in 1 .. n + 1}
    BY DEF KeysOf
  <2> QED
    BY <1>1, <2>1 DEF KeysOf
<1>3. MultsOf(t, n + 1) = MultsOf(s, n) \cup new
  <2>1. MultsOf(t, n + 1)
          = {<<m.type, Prefixed(s[j].c, m), Value(contest, s[j].c, m.type)>> :
               j \in 1 .. n + 1, m \in M}
    BY DEF MultsOf, M
  <2>2. MultsOf(s, n)
          = {<<m.type, Prefixed(s[j].c, m), Value(contest, s[j].c, m.type)>> :
               j \in 1 .. n, m \in M}
    BY DEF MultsOf, M
  <2> QED
    BY <1>1, <2>1, <2>2
<1>4. ValuesOfContact(c) = {w \in new : w[3] # ""}
  BY DEF ValuesOfContact, M
<1> HIDE DEF new, c
<1>5. ValuesOf(t, n + 1) = ValuesOf(s, n) \cup {w \in new : w[3] # ""}
  BY <1>3 DEF ValuesOf
<1> QED
  BY <1>2, <1>4, <1>5 DEF c

LEMMA RowIsTracked ==
  ASSUME ScoringTypeOK, JobInv, RescoreInv, ~Idle, job.next <= Len(job.rows),
         contest' = contest, job' = Track(job), NEW row, row = Rescored(job)
  PROVE  /\ ~Idle' /\ RescoreInv'
         /\ job' = [kind |-> job'.kind, rows |-> job'.rows, station |-> job'.station,
                    next |-> job'.next, keys |-> job'.keys, worked |-> job'.worked]
         /\ job'.kind = job.kind
         /\ job'.kind \in {"window", "import"} /\ job'.rows \in Seq(Row)
         /\ job'.station \in Scorers
         /\ job'.next \in 1 .. Len(job'.rows) + 1
         /\ job.next \in DOMAIN job.rows /\ DOMAIN job'.rows = DOMAIN job.rows
         /\ job'.rows[job.next] = row /\ row \in Row
         /\ row.id = job.rows[job.next].id
         /\ row.c = job.rows[job.next].c /\ row.at = job.rows[job.next].at
         /\ \A i \in DOMAIN job.rows \ {job.next} : job'.rows[i] = job.rows[i]
<1> DEFINE n == job.next - 1
           c == job.rows[job.next].c
           new == ValuesOfContact(c)
           t == [job.rows EXCEPT ![job.next] = row]
<1>1. /\ job = [kind |-> job.kind, rows |-> job.rows, station |-> job.station,
                next |-> job.next, keys |-> job.keys, worked |-> job.worked]
      /\ job.kind \in {"window", "import"} /\ job.rows \in Seq(Row)
      /\ job.station \in Scorers
      /\ Len(job.rows) \in Nat /\ DOMAIN job.rows = 1 .. Len(job.rows)
      /\ job.next \in 1 .. Len(job.rows)
      /\ n \in Nat /\ job.next = n + 1
  BY JobFacts
<1>2. /\ row \in Row
      /\ row.id = job.rows[job.next].id /\ row.at = job.rows[job.next].at
      /\ row.c = c
      /\ InTableOrder(t, job.next)
  BY RescoredRow
<1>3. job' = [job EXCEPT !.rows = t, !.next = job.next + 1,
                         !.keys = job.keys \cup {DupeKey(c)},
                         !.worked = job.worked \cup new]
  <2>1. job' = [job EXCEPT !.rows[job.next] = row, !.next = job.next + 1,
                          !.keys = job.keys \cup {DupeKey(c)},
                          !.worked = job.worked \cup new]
    BY DEF Track, ValuesOfContact
  <2> HIDE DEF new, c
  <2> QED
    BY <2>1
<1>4. /\ job' = [kind |-> job'.kind, rows |-> job'.rows, station |-> job'.station,
                 next |-> job'.next, keys |-> job'.keys, worked |-> job'.worked]
      /\ job'.kind = job.kind /\ job'.station = job.station
      /\ job'.rows = t /\ job'.next = job.next + 1
      /\ job'.keys = job.keys \cup {DupeKey(c)}
      /\ job'.worked = job.worked \cup new
  <2> HIDE DEF new, c, t
  <2> QED
    BY <1>1, <1>3
<1>5. /\ t \in Seq(Row) /\ DOMAIN t = DOMAIN job.rows /\ Len(t) = Len(job.rows)
      /\ t[job.next] = row /\ \A i \in DOMAIN job.rows \ {job.next} : t[i] = job.rows[i]
  BY <1>1, <1>2, ExceptSeq
<1>6. ~Idle'
  <2>1. NoJob.kind = "none"
    BY DEF NoJob
  <2> QED
    BY <1>1, <1>4, <2>1 DEF Idle
<1> HIDE DEF t, n
<1>7. \A i \in 1 .. n + 1 : t[i].c = job.rows[i].c
  BY <1>1, <1>2, <1>5 DEF c
<1>8. /\ KeysOf(t, n + 1) = KeysOf(job.rows, n) \cup {DupeKey(c)}
      /\ ValuesOf(t, n + 1) = ValuesOf(job.rows, n) \cup new
  <2>1. c = job.rows[n + 1].c
    BY <1>1
  <2> HIDE DEF c
  <2> QED
    BY <1>1, <1>7, <2>1, MemoryGrows
<1> HIDE DEF c, new
<1>9. /\ job'.keys = KeysOf(t, n + 1)
      /\ job'.worked = ValuesOf(t, n + 1)
  <2>1. job.keys = KeysOf(job.rows, n) /\ job.worked = ValuesOf(job.rows, n)
    BY DEF RescoreInv, n
  <2> QED
    BY <1>4, <1>8, <2>1
<1>10. /\ job'.keys = KeysOf(job.rows, job.next - 1)'
       /\ job'.worked = ValuesOf(job.rows, job.next - 1)'
  <2>1. (n + 2) - 1 = n + 1 /\ job'.next = n + 2
    BY <1>1, <1>4
  <2> QED
    BY <1>4, <1>9, <2>1, MemoryStays
<1>11. ASSUME NEW i \in 1 .. job'.next - 1 PROVE InTableOrder(job.rows, i)'
  <2>1. InTableOrder(t, i)
    <3>1. CASE i = job.next
      BY <1>2, <3>1 DEF t
    <3>2. CASE i # job.next
      <4>1. i \in 1 .. n
        BY <1>1, <1>4, <3>2
      <4>2. InTableOrder(job.rows, i)
        BY <4>1 DEF RescoreInv, n
      <4>3. \A j \in 1 .. i : j \in DOMAIN job.rows \ {job.next}
        BY <1>1, <4>1
      <4>4. i \in Nat \ {0} /\ i \in 1 .. i
        BY <4>1
      <4> QED
        BY <1>5, <4>2, <4>3, <4>4, OnlyEarlierCount
    <3> QED
      BY <3>1, <3>2
  <2> QED
    BY <1>4, <2>1, JobOrderStays
<1>12. job'.kind = "import" => ByAge(job'.rows)
  <2>1. ASSUME ByAge(job.rows) PROVE ByAge(t)
    <3>1. \A i \in DOMAIN job.rows : t[i].at = job.rows[i].at /\ t[i].id = job.rows[i].id
      BY <1>2, <1>5
    <3> QED
      BY <1>5, <2>1, <3>1 DEF ByAge, Before
  <2> QED
    BY <1>4, <2>1 DEF RescoreInv
<1>13. RescoreInv'
  <2>1. ByAge(job.rows)' <=> ByAge(job'.rows)
    BY DEF ByAge
  <2> QED
    BY <1>10, <1>11, <1>12, <2>1 DEF RescoreInv
<1>14. job'.next \in 1 .. Len(job'.rows) + 1
  BY <1>1, <1>4, <1>5
<1> QED
  BY <1>1, <1>2, <1>4, <1>5, <1>6, <1>13, <1>14 DEF c

LEMMA RescoreRowKeeps ==
  ASSUME ScoringInv, NEW stored \in BOOLEAN, RescoreRow(stored)
  PROVE  ScoringInv'
<1>1. PICK row : row = Rescored(job)
  OBVIOUS
<1>2. /\ ~Idle /\ job.next <= Len(job.rows) /\ job' = Track(job)
      /\ \/ /\ ~NoIdToStore(row) /\ fileRows' = Put(fileRows, row)
            /\ stale' = stale \ {row.id} /\ trouble' = trouble
         \/ /\ trouble < MaxTrouble /\ trouble' = trouble + 1
            /\ stale' = stale \cup {row.id} /\ fileRows' = fileRows
         \/ /\ NoIdToStore(row)
            /\ stale' = stale /\ fileRows' = fileRows /\ trouble' = trouble
      /\ contest' = contest /\ table' = table /\ unlinked' = unlinked /\ clean' = clean
  BY <1>1 DEF RescoreRow, Written, Put
<1>3. ScoringTypeOK /\ Counts(fileRows) /\ JobInv /\ RescoreInv /\ UnlinkedInv
  BY DEF ScoringInv
<1>4. /\ ~Idle' /\ RescoreInv'
      /\ job' = [kind |-> job'.kind, rows |-> job'.rows, station |-> job'.station,
                 next |-> job'.next, keys |-> job'.keys, worked |-> job'.worked]
      /\ job'.kind = job.kind
      /\ job'.kind \in {"window", "import"} /\ job'.rows \in Seq(Row)
      /\ job'.station \in Scorers
      /\ job'.next \in 1 .. Len(job'.rows) + 1
      /\ job.next \in DOMAIN job.rows /\ DOMAIN job'.rows = DOMAIN job.rows
      /\ job'.rows[job.next] = row /\ row \in Row
      /\ row.id = job.rows[job.next].id
      /\ row.c = job.rows[job.next].c /\ row.at = job.rows[job.next].at
      /\ \A i \in DOMAIN job.rows \ {job.next} : job'.rows[i] = job.rows[i]
  BY <1>1, <1>2, <1>3, RowIsTracked
<1>0. PICK refused : refused = Refused(job.kind, stale, unlinked)
  OBVIOUS
<1>5. Agrees(job.rows, fileRows, refused)
  BY <1>0, <1>2, <1>3 DEF JobInv
<1>6. /\ row.id \in {r.id : r \in fileRows}
      /\ Agrees(job'.rows, Put(fileRows, row), refused \ {row.id})
      /\ Agrees(job'.rows, fileRows, refused \cup {row.id})
  <2>1. PICK s : s = job.rows
    OBVIOUS
  <2>2. PICK t : t = job'.rows
    OBVIOUS
  <2>3. PICK k : k = job.next
    OBVIOUS
  <2>4. /\ k \in DOMAIN s /\ row.id = s[k].id /\ row.c = s[k].c /\ row.at = s[k].at
        /\ DOMAIN t = DOMAIN s /\ t[k] = row
        /\ \A i \in DOMAIN s \ {k} : t[i] = s[i]
    BY <1>4, <2>1, <2>2, <2>3
  <2>5. Agrees(s, fileRows, refused)
    BY <1>5, <2>1
  <2>6. /\ row.id \in {r.id : r \in fileRows}
        /\ Agrees(t, Put(fileRows, row), refused \ {row.id})
        /\ Agrees(t, fileRows, refused \cup {row.id})
    BY <1>3, <2>4, <2>5, AgreesPuts
  <2> QED
    BY <2>2, <2>6
<1>7. Agrees(job'.rows, fileRows', Refused(job'.kind, stale', unlinked')) /\ Counts(fileRows')
  <2>1. Counts(Put(fileRows, row))
    BY <1>3, <1>6, FilePuts
  <2>2. PICK t : t = job'.rows
    OBVIOUS
  <2>3. PICK more : more = Refused(job'.kind, stale', unlinked')
    OBVIOUS
  <2>4. /\ Agrees(t, Put(fileRows, row), refused \ {row.id})
        /\ Agrees(t, fileRows, refused \cup {row.id})
    BY <1>6, <2>2
  <2>5. CASE ~NoIdToStore(row) /\ fileRows' = Put(fileRows, row) /\ stale' = stale \ {row.id}
    <3>1. refused \ {row.id} \subseteq more
      BY <1>0, <1>2, <1>4, <2>3, <2>5 DEF Refused
    <3>2. Agrees(t, Put(fileRows, row), more)
      BY <2>4, <3>1, AgreesMore
    <3> QED
      BY <2>1, <2>2, <2>3, <2>5, <3>2
  <2>6. CASE /\ fileRows' = fileRows
             /\ stale' = stale \cup {row.id} \/ (NoIdToStore(row) /\ stale' = stale)
    <3>1. refused \cup {row.id} \subseteq more
      BY <1>0, <1>2, <1>4, <2>3, <2>6 DEF Refused, NoIdToStore
    <3>2. Agrees(t, fileRows, more)
      BY <2>4, <3>1, AgreesMore
    <3> QED
      BY <1>3, <2>2, <2>3, <2>6, <3>2
  <2> QED
    BY <1>2, <2>5, <2>6
<1>10. UnlinkedInv'
  <2>1. CASE ~NoIdToStore(row) /\ fileRows' = Put(fileRows, row)
    <3>1. unlinked' \subseteq {r.id : r \in fileRows'}
      BY <1>2, <1>3, <1>6, <2>1, FilePuts DEF UnlinkedInv
    <3>2. ASSUME job'.kind # "import" PROVE UnscoredIn(fileRows', unlinked')
      <4>1. job.kind = "window" /\ row.id \notin unlinked
        BY <1>4, <2>1, <3>2 DEF NoIdToStore
      <4> QED
        BY <1>2, <1>3, <2>1, <4>1 DEF UnlinkedInv, UnscoredIn, Put
    <3> QED
      BY <3>1, <3>2 DEF UnlinkedInv, UnscoredIn
  <2>2. CASE fileRows' = fileRows
    BY <1>2, <1>3, <1>4, <2>2 DEF UnlinkedInv, UnscoredIn
  <2> QED
    BY <1>2, <2>1, <2>2
<1>8. JobInv' /\ TableInv' /\ ScoredInOrder' /\ Counts(fileRows)'
  BY <1>4, <1>7 DEF JobInv, TableInv, ScoredInOrder
<1>9. ScoringTypeOK'
  <2>1. fileRows' \subseteq Row /\ stale' \subseteq Ids
    <3>1. row.id \in Ids
      BY <1>4 DEF Row
    <3> QED
      BY <1>2, <1>3, <1>4, <3>1 DEF ScoringTypeOK, Put
  <2>2. trouble' \in 0 .. MaxTrouble
    BY <1>2, <1>3, ScoringBounds DEF ScoringTypeOK
  <2> QED
    BY <1>2, <1>3, <1>4, <2>1, <2>2 DEF ScoringTypeOK
<1> QED
  BY <1>4, <1>8, <1>9, <1>10 DEF ScoringInv

(* With nothing refused the rows of a table are the rows of the file.      *)
LEMMA AgreesFully ==
  ASSUME NEW s, NEW rows, Distinct(rows), Agrees(s, rows, {})
  PROVE  RowsOf(s) = rows
<1>1. RowsOf(s) \subseteq rows
  BY DEF Agrees
<1>2. ASSUME NEW r \in rows PROVE r \in RowsOf(s)
  <2>1. PICK q \in RowsOf(s) : q.id = r.id
    BY DEF Agrees
  <2> QED
    BY <1>1, <2>1 DEF Distinct
<1> QED
  BY <1>1, <1>2

LEMMA EndRescoreKeeps ==
  ASSUME ScoringInv, EndRescore
  PROVE  ScoringInv'
<1>1. /\ ~Idle /\ job.next > Len(job.rows) /\ job' = NoJob
      /\ job.kind = "window" => /\ table' = job.rows /\ clean' = TRUE
                                /\ stale' = stale /\ unlinked' = unlinked
      /\ job.kind # "window" => /\ table' = ByTime(fileRows) /\ clean' = (stale = {})
                                /\ stale' = {} /\ unlinked' = {}
      /\ contest' = contest /\ fileRows' = fileRows /\ trouble' = trouble
  BY DEF EndRescore
<1>2. ScoringTypeOK /\ Counts(fileRows) /\ JobInv /\ RescoreInv /\ UnlinkedInv
  BY DEF ScoringInv
<1>3. /\ job.kind \in {"window", "import"} /\ job.rows \in Seq(Row)
      /\ Len(job.rows) \in Nat /\ DOMAIN job.rows = 1 .. Len(job.rows)
      /\ job.next - 1 = Len(job.rows)
  BY <1>1, <1>2, JobFacts
<1>4. /\ job.kind = "window" => Agrees(job.rows, fileRows, stale \cup unlinked)
      /\ job.kind = "import" => Agrees(job.rows, fileRows, stale)
      /\ \A i \in DOMAIN job.rows : InTableOrder(job.rows, i)
      /\ job.kind = "import" => ByAge(job.rows)
  BY <1>1, <1>2, <1>3 DEF JobInv, RescoreInv, Refused
<1>5. Idle'
  BY <1>1 DEF Idle
<1>6. JobInv' /\ RescoreInv'
  BY <1>5 DEF JobInv, RescoreInv
<1>7. /\ table' \in Seq(Row) /\ Agrees(table', fileRows', stale' \cup unlinked')
      /\ clean' \in BOOLEAN /\ stale' \in SUBSET Ids /\ unlinked' \in SUBSET Ids
      /\ clean' => table' = job.rows
  <2>1. CASE job.kind = "window"
    BY <1>1, <1>2, <1>3, <1>4, <2>1 DEF ScoringTypeOK
  <2>2. CASE job.kind = "import"
    <3>1. job.kind # "window"
      BY <2>2
    <3>2. ByTime(fileRows) \in Seq(Row) /\ Agrees(ByTime(fileRows), fileRows, {})
      BY <1>2, FileIsRead DEF ScoringTypeOK
    <3>3. ASSUME stale = {} PROVE ByTime(fileRows) = job.rows
      <4>1. RowsOf(job.rows) = fileRows
        BY <1>2, <1>4, <2>2, <3>3, AgreesFully DEF Counts
      <4>2. Distinct(RowsOf(job.rows)) /\ Stamped(RowsOf(job.rows))
        BY <1>2, <4>1, RowsAreStamped DEF Counts, ScoringTypeOK
      <4>3. job.rows = [i \in 1 .. Len(job.rows) |-> job.rows[i]]
        BY <1>3
      <4> QED
        BY <1>3, <1>4, <2>2, <4>1, <4>2, <4>3, SortedIsByTime
    <3>4. clean' \in BOOLEAN /\ (clean' => stale = {})
      BY <1>1, <3>1
    <3>5. stale' = {} /\ unlinked' = {} /\ stale' \cup unlinked' = {}
      BY <1>1, <3>1
    <3> QED
      BY <1>1, <3>1, <3>2, <3>3, <3>4, <3>5
  <2> QED
    BY <1>3, <2>1, <2>2
<1>8. ScoredInOrder'
  BY <1>1, <1>4, <1>7, OrderStays DEF ScoredInOrder
<1>9. ScoringTypeOK'
  BY <1>1, <1>2, <1>5, <1>7 DEF ScoringTypeOK
<1>10. UnlinkedInv'
  <2>1. job'.kind # "import" /\ (job.kind = "window" => job.kind # "import")
    BY <1>1 DEF NoJob
  <2>2. unlinked' = {} \/ (job.kind = "window" /\ unlinked' = unlinked)
    BY <1>1, <1>3
  <2> QED
    BY <1>1, <1>2, <2>1, <2>2 DEF UnlinkedInv, UnscoredIn
<1> QED
  BY <1>1, <1>2, <1>6, <1>7, <1>8, <1>9, <1>10 DEF ScoringInv, TableInv

LEMMA IdlingKeeps ==
  ASSUME ScoringInv, UNCHANGED scoringVars
  PROVE  ScoringInv'
<1>1. /\ contest' = contest /\ table' = table /\ fileRows' = fileRows /\ job' = job
      /\ clean' = clean /\ stale' = stale /\ unlinked' = unlinked /\ trouble' = trouble
  BY DEF scoringVars
<1>2. Idle' <=> Idle
  BY <1>1 DEF Idle
<1>3. ScoringTypeOK' /\ Counts(fileRows)' /\ TableInv' /\ JobInv' /\ UnlinkedInv'
  BY <1>1, <1>2 DEF ScoringInv, ScoringTypeOK, TableInv, JobInv, UnlinkedInv
<1>4. RescoreInv'
  <2>1. \A i : InTableOrder(job.rows, i)' <=> InTableOrder(job.rows, i)
    BY <1>1, JobOrderStays
  <2>2. /\ KeysOf(job.rows, job.next - 1)' = KeysOf(job.rows, job.next - 1)
        /\ ValuesOf(job.rows, job.next - 1)' = ValuesOf(job.rows, job.next - 1)
    BY <1>1, MemoryStays
  <2> QED
    BY <1>1, <1>2, <2>1, <2>2 DEF ScoringInv, RescoreInv, ByAge
<1>5. ScoredInOrder'
  <2>1. \A i : InTableOrder(table, i)' <=> InTableOrder(table, i)
    BY <1>1, OrderStays
  <2> QED
    BY <1>1, <1>2, <2>1 DEF ScoringInv, ScoredInOrder
<1> QED
  BY <1>3, <1>4, <1>5 DEF ScoringInv

LEMMA NextKeepsScores ==
  ASSUME ScoringInv, [ScoringNext]_scoringVars
  PROVE  ScoringInv'
<1>1. CASE \E c \in Contacts, at \in Times : LogQSO(c, at)
  BY <1>1, LogQSOKeeps
<1>2. CASE \E c \in Contacts, at \in Times : WsjtxQSO(c, at)
  BY <1>2, WsjtxQSOKeeps
<1>3. CASE \E c \in Contacts, at \in Times, points \in {0, 9}, rescore \in BOOLEAN :
             Import(c, at, points, rescore)
  BY <1>3, ImportKeeps
<1>4. CASE \E i \in DOMAIN table, c \in Contacts, at \in Times : EditQSO(i, c, at)
  BY <1>4, EditQSOKeeps
<1>5. CASE \E cont \in SettingConts : Rescore(cont)
  BY <1>5, RescoreKeeps
<1>6. CASE \E cont \in SettingConts : Activate(cont)
  BY <1>6, ActivateKeeps
<1>7. CASE \E stored \in BOOLEAN : RescoreRow(stored)
  BY <1>7, RescoreRowKeeps
<1>8. CASE EndRescore
  BY <1>8, EndRescoreKeeps
<1>9. CASE UNCHANGED scoringVars
  BY <1>9, IdlingKeeps
<1> QED
  BY <1>1, <1>2, <1>3, <1>4, <1>5, <1>6, <1>7, <1>8, <1>9 DEF ScoringNext

(* The invariant holds of every behaviour.                                 *)
THEOREM ScoringInvariance == ScoringSpec => []ScoringInv
<1>1. ScoringInit => ScoringInv
  BY InitScores
<1>2. ScoringInv /\ [ScoringNext]_scoringVars => ScoringInv'
  BY NextKeepsScores
<1> QED
  BY <1>1, <1>2, PTL DEF ScoringSpec

-----------------------------------------------------------------------------
(* What the invariant gives.                                               *)

(* Contacts, scores and the running rescore keep their types: a contest    *)
(* awards no negative points and claims only the types of multiplier there *)
(* are, whichever of the two ways a row was scored.                        *)
THEOREM ScoringTypes == ScoringSpec => []ScoringTypeOK
<1>1. ScoringInv => ScoringTypeOK
  BY DEF ScoringInv
<1> QED
  BY <1>1, ScoringInvariance, PTL

(* A row on the screen is the row in the file: QSOLogger, the edit dialog, *)
(* importADIF and rescoreContestSilent write what they show.  The scores   *)
(* differ on the rows the database refused to update and on the contacts   *)
(* from WSJT-X, whose rows have no id to be updated by.                    *)
THEOREM TableIsTheFile == ScoringSpec => []FileFollowsTable
<1>1. ASSUME ScoringInv PROVE FileFollowsTable
  <2> SUFFICES ASSUME Idle PROVE FileFollowsTable
    BY DEF FileFollowsTable
  <2>1. /\ Agrees(table, fileRows, stale \cup unlinked) /\ Distinct(fileRows)
        /\ UnscoredIn(fileRows, unlinked)
    BY <1>1 DEF ScoringInv, TableInv, UnlinkedInv, Counts, Idle, NoJob
  <2>2. ASSUME NEW r \in RowsOf(table), NEW q \in fileRows, q.id = r.id
        PROVE  /\ q.c = r.c /\ q.at = r.at
               /\ IF r.id \in unlinked THEN q = Unscored(q.id, q.at, q.c, 0)
                  ELSE r.id \in stale \/ q = r
    <3>1. q.c = r.c /\ q.at = r.at
      BY <2>1, <2>2 DEF Agrees, SameContact
    <3>2. CASE r.id \in unlinked
      BY <2>1, <2>2, <3>1, <3>2 DEF UnscoredIn
    <3>3. CASE r.id \notin unlinked
      BY <2>1, <2>2, <3>1, <3>3 DEF Agrees, Distinct
    <3> QED
      BY <3>1, <3>2, <3>3
  <2> QED
    BY <2>1, <2>2 DEF Agrees, FileFollowsTable
<1> QED
  BY <1>1, ScoringInvariance, PTL

(* Logging contact by contact (QSOLogger) and rescoring the whole log      *)
(* (DataIntegrityManager) agree on duplicates and claims, for every log of *)
(* every contest, and each row has the points of a station that scores:    *)
(* the one cty.dat knows or one of those the settings describe.            *)
THEOREM BothScoringsAgree == ScoringSpec => []ScoredInOrder
<1>1. ScoringInv => ScoredInOrder
  BY DEF ScoringInv
<1> QED
  BY <1>1, ScoringInvariance, PTL

LEMMA LeastExists ==
  ASSUME NEW S \in SUBSET Nat, S # {}
  PROVE  \E i \in S : \A j \in S : i <= j
<1> DEFINE R == OpToRel(<, Nat)
<1>1. IsWellFoundedOn(R, Nat)
  BY NatLessThanWellFounded
<1>2. \A i, j \in Nat : <<i, j>> \in R <=> i < j
  BY DEF OpToRel
<1> HIDE DEF R
<1>3. PICK i \in S : \A j \in S : <<j, i>> \notin R
  BY <1>1, WFMin
<1>4. ASSUME NEW j \in S PROVE i <= j
  <2>1. i \in Nat /\ j \in Nat
    OBVIOUS
  <2>2. ~(j < i)
    BY <1>2, <1>3, <2>1
  <2> QED
    BY <2>1, <2>2
<1> QED
  BY <1>4

(* Outside Sweepstakes the first rows of a type are as many as its         *)
(* distinct values: each value has one first row.                          *)
LEMMA FirstsAreCounted ==
  ASSUME contest \notin Sweepstakes, NEW s, NEW n \in Nat, DOMAIN s = 1 .. n,
         Counted(s) = DOMAIN s, NEW m
  PROVE  Cardinality({i \in DOMAIN s : IsFirst(s, i, m)}) = MultCount(s, m)
<1> DEFINE v(i) == Value(contest, s[i].c, m.type)
           b(i) == Prefixed(s[i].c, m)
           I == {i \in 1 .. n : IsFirst(s, i, m)}
           D == {<<b(i), v(i)>> : i \in {j \in 1 .. n : v(j) # ""}}
           f == [i \in I |-> <<b(i), v(i)>>]
<1>0. /\ 1 .. n \subseteq Nat
      /\ \A i \in 1 .. n : \A j \in 1 .. i - 1 : j \in 1 .. n /\ ~(i <= j)
  OBVIOUS
<1>1. MultCount(s, m) = Cardinality(D)
  BY DEF MultCount
<1>2. \A i \in 1 .. n : i \in I <=>
        v(i) # "" /\ \A j \in 1 .. i - 1 : v(j) = v(i) => b(j) # b(i)
  BY DEF IsFirst
<1> HIDE DEF v, b
<1>3. I \subseteq 1 .. n /\ f \in [I -> D]
  <2>1. \A i \in I : i \in 1 .. n /\ v(i) # ""
    BY <1>2
  <2> HIDE DEF I
  <2> QED
    BY <2>1
<1> HIDE DEF I
<1>4. ASSUME NEW i \in I, NEW j \in I, f[i] = f[j] PROVE i = j
  <2>1. b(i) = b(j) /\ v(i) = v(j)
    BY <1>4
  <2>2. i \in 1 .. n /\ j \in 1 .. n
    BY <1>3
  <2>3. ~(i < j) /\ ~(j < i)
    <3>1. i < j => i \in 1 .. j - 1
      BY <2>2
    <3>2. j < i => j \in 1 .. i - 1
      BY <2>2
    <3> QED
      BY <1>2, <2>1, <2>2, <3>1, <3>2
  <2> QED
    BY <2>2, <2>3
<1>5. ASSUME NEW d \in D PROVE \E i \in I : f[i] = d
  <2>1. PICK k \in 1 .. n : v(k) # "" /\ d = <<b(k), v(k)>>
    OBVIOUS
  <2> DEFINE J == {i \in 1 .. n : v(i) = v(k) /\ b(i) = b(k)}
  <2>2. J \in SUBSET Nat /\ k \in J
    <3>1. \A i \in J : i \in 1 .. n
      OBVIOUS
    <3>2. k \in J
      OBVIOUS
    <3> HIDE DEF J, D, f
    <3> QED
      BY <1>0, <3>1, <3>2
  <2>3. PICK i \in J : \A j \in J : i <= j
    BY <2>2, LeastExists
  <2>4. i \in 1 .. n /\ v(i) = v(k) /\ b(i) = b(k)
    OBVIOUS
  <2>5. ASSUME NEW j \in 1 .. i - 1 PROVE ~(v(j) = v(i) /\ b(j) = b(i))
    <3>1. j \in 1 .. n /\ ~(i <= j)
      <4> HIDE DEF J, D, f
      <4> QED
        BY <1>0, <2>4
    <3>2. j \notin J
      BY <2>3, <3>1
    <3> QED
      BY <2>4, <3>1, <3>2
  <2>6. i \in I
    BY <1>2, <2>1, <2>4, <2>5
  <2> QED
    BY <2>1, <2>4, <2>6
<1>6. f \in Bijection(I, D)
  BY <1>3, <1>4, <1>5, Fun_IsBij, Fun_IsSurj
<1>7. IsFiniteSet(I)
  <2>1. IsFiniteSet(1 .. n)
    BY FS_Interval
  <2> QED
    BY <1>3, <2>1, FS_Subset
<1>8. Cardinality(I) = Cardinality(D)
  <2> HIDE DEF D, f
  <2> QED
    BY <1>6, <1>7, FS_Bijection DEF ExistsBijection
<1> QED
  BY <1>1, <1>8 DEF I

(* The claims marked on the rows are the multipliers that                  *)
(* ScoreCalculationService counts, so the marks and the score tell one     *)
(* story, in every contest but Sweepstakes.                                *)
THEOREM ClaimsAreCounted == ScoringSpec => []ClaimsMakeTheScore
<1>1. ASSUME ScoringInv PROVE ClaimsMakeTheScore
  <2> SUFFICES ASSUME Idle, clean, contest \notin Sweepstakes,
                      Counted(table) = DOMAIN table,
                      NEW m \in MultTypes(contest, Home)
               PROVE  Cardinality({i \in DOMAIN table : \E x \in table[i].mults : x[1] = m.type})
                        = MultCount(table, m)
    BY DEF ClaimsMakeTheScore
  <2>1. ScoringTypeOK /\ ScoredInOrder
    BY <1>1 DEF ScoringInv
  <2>2. contest \in Registered /\ Len(table) \in Nat /\ DOMAIN table = 1 .. Len(table)
    BY <2>1, TableFacts
  <2>3. ASSUME NEW i \in DOMAIN table
        PROVE  (\E x \in table[i].mults : x[1] = m.type) <=> IsFirst(table, i, m)
    <3>1. table[i].mults = FirstClaims(table, i)
      BY <2>1 DEF ScoredInOrder, InTableOrder
    <3>2. ASSUME NEW x \in FirstClaims(table, i), x[1] = m.type PROVE IsFirst(table, i, m)
      <4>1. PICK t \in MultTypes(contest, Home) :
              IsFirst(table, i, t) /\ x = <<t.type, Value(contest, table[i].c, t.type)>>
        BY DEF FirstClaims
      <4>2. t = m
        BY <2>2, <3>2, <4>1, TypesAreDistinct
      <4> QED
        BY <4>1, <4>2
    <3>3. ASSUME IsFirst(table, i, m)
          PROVE  \E x \in FirstClaims(table, i) : x[1] = m.type
      <4>1. <<m.type, Value(contest, table[i].c, m.type)>> \in FirstClaims(table, i)
        BY <3>3 DEF FirstClaims
      <4> QED
        BY <4>1
    <3> QED
      BY <3>1, <3>2, <3>3
  <2>4. {i \in DOMAIN table : \E x \in table[i].mults : x[1] = m.type}
          = {i \in DOMAIN table : IsFirst(table, i, m)}
    BY <2>3
  <2> QED
    BY <2>2, <2>4, FirstsAreCounted
<1> QED
  BY <1>1, ScoringInvariance, PTL

-----------------------------------------------------------------------------
(* Sums.                                                                   *)

\* As many pairs with each x of t as F[x] says
Units(F, t) == {p \in t \X Nat : p[2] \in 1 .. F[p[1]]}
OneOf(t) == CHOOSE x \in t : TRUE

\* g sums F over the subsets of S, taking out one element after another
Sums(g, F, S) ==
  g = [t \in SUBSET S |-> IF t = {} THEN 0 ELSE F[OneOf(t)] + g[t \ {OneOf(t)}]]

LEMMA UnitsOfOne ==
  ASSUME NEW F, NEW x, F[x] \in Nat
  PROVE  IsFiniteSet(Units(F, {x})) /\ Cardinality(Units(F, {x})) = F[x]
<1> DEFINE n == F[x]
           f == [k \in 1 .. n |-> <<x, k>>]
<1>1. Units(F, {x}) = {<<x, k>> : k \in 1 .. n}
  BY DEF Units
<1>2. f \in Bijection(1 .. n, Units(F, {x}))
  <2>1. /\ f \in [1 .. n -> Units(F, {x})]
        /\ \A u \in Units(F, {x}) : \E k \in 1 .. n : f[k] = u
    BY <1>1
  <2>2. \A j, k \in 1 .. n : f[j] = f[k] => j = k
    OBVIOUS
  <2> QED
    BY <2>1, <2>2, Fun_IsBij, Fun_IsSurj
<1>3. IsFiniteSet(1 .. n) /\ Cardinality(1 .. n) = n
  <2> HIDE DEF f, n
  <2>1. n \in Nat
    BY DEF n
  <2> QED
    BY <2>1, FS_Interval
<1> QED
  BY <1>2, <1>3, FS_Bijection DEF ExistsBijection

LEMMA UnitsAdd ==
  ASSUME NEW F, NEW t, NEW x \in t, F[x] \in Nat, IsFiniteSet(Units(F, t \ {x}))
  PROVE  /\ IsFiniteSet(Units(F, t))
         /\ Cardinality(Units(F, t)) = F[x] + Cardinality(Units(F, t \ {x}))
<1>1. /\ Units(F, t) = Units(F, {x}) \cup Units(F, t \ {x})
      /\ Units(F, {x}) \cap Units(F, t \ {x}) = {}
  <2>1. \A r : \A p : p \in Units(F, r) <=> p \in r \X Nat /\ p[2] \in 1 .. F[p[1]]
    BY DEF Units
  <2>2. \A p : p \in Units(F, t) <=> p \in Units(F, {x}) \/ p \in Units(F, t \ {x})
    BY <2>1
  <2>3. \A p : ~(p \in Units(F, {x}) /\ p \in Units(F, t \ {x}))
    BY <2>1
  <2> QED
    BY <2>2, <2>3
<1>2. IsFiniteSet(Units(F, {x})) /\ Cardinality(Units(F, {x})) = F[x]
  BY UnitsOfOne
<1>3. Cardinality({}) = 0 /\ Cardinality(Units(F, t \ {x})) \in Nat
  BY FS_EmptySet, FS_CardinalityType
<1>4. /\ IsFiniteSet(Units(F, {x}) \cup Units(F, t \ {x}))
      /\ Cardinality(Units(F, {x}) \cup Units(F, t \ {x}))
           = F[x] + Cardinality(Units(F, t \ {x})) - 0
  <2>1. PICK a : a = Units(F, {x})
    OBVIOUS
  <2>2. PICK b : b = Units(F, t \ {x})
    OBVIOUS
  <2>3. IsFiniteSet(a) /\ IsFiniteSet(b)
    BY <1>2, <2>1, <2>2
  <2>4. /\ IsFiniteSet(a \cup b)
        /\ Cardinality(a \cup b) = Cardinality(a) + Cardinality(b) - Cardinality(a \cap b)
    BY <2>3, FS_Union
  <2>5. Cardinality(a) = F[x] /\ Cardinality(a \cap b) = 0
    BY <1>1, <1>2, <1>3, <2>1, <2>2
  <2> QED
    BY <2>1, <2>2, <2>4, <2>5
<1> QED
  BY <1>1, <1>3, <1>4

\* A property of the empty set that passes from a set without one element to
\* the set holds of every finite set
Inherits(S, P) ==
  /\ {} \in P
  /\ \A t \in SUBSET S : t # {} /\ t \ {OneOf(t)} \in P => t \in P

LEMMA InheritedByAll ==
  ASSUME NEW S, IsFiniteSet(S), NEW P, Inherits(S, P)
  PROVE  S \in P
<1> DEFINE Bad == {t \in SUBSET S : t \notin P}
           N == {Cardinality(t) : t \in Bad}
<1> SUFFICES ASSUME S \notin P PROVE FALSE
  OBVIOUS
<1>1. \A t \in SUBSET S : IsFiniteSet(t) /\ Cardinality(t) \in Nat
  BY FS_Subset, FS_CardinalityType
<1>2. N \in SUBSET Nat /\ N # {}
  BY <1>1
<1>3. PICK n \in N : \A k \in N : n <= k
  BY <1>2, LeastExists
<1>4. PICK t \in Bad : Cardinality(t) = n
  OBVIOUS
<1>5. t \in SUBSET S /\ t \notin P /\ t # {}
  BY DEF Inherits
<1>6. OneOf(t) \in t
  BY <1>5 DEF OneOf
<1>7. t \ {OneOf(t)} \in Bad
  BY <1>5 DEF Inherits
<1>8. Cardinality(t \ {OneOf(t)}) \in N
  BY <1>7
<1>9. Cardinality(t \ {OneOf(t)}) = Cardinality(t) - 1
  BY <1>1, <1>5, <1>6, FS_RemoveElement
<1>10. n \in Nat
  BY <1>1, <1>4, <1>5
<1>11. n <= n - 1
  BY <1>3, <1>4, <1>8, <1>9
<1> QED
  BY <1>10, <1>11

LEMMA UnitsAreFinite ==
  ASSUME NEW S, IsFiniteSet(S), NEW F, \A x \in S : F[x] \in Nat
  PROVE  IsFiniteSet(Units(F, S))
<1> DEFINE P == {t \in SUBSET S : IsFiniteSet(Units(F, t))}
<1>1. Units(F, {}) = {} /\ IsFiniteSet(Units(F, {}))
  BY FS_EmptySet DEF Units
<1>2. \A t \in SUBSET S : t # {} => OneOf(t) \in t /\ F[OneOf(t)] \in Nat
  BY DEF OneOf
<1>3. Inherits(S, P)
  BY <1>1, <1>2, UnitsAdd DEF Inherits
<1>4. S \in P
  BY <1>3, InheritedByAll
<1> QED
  BY <1>4

(* A sum counts the units of its terms, in whatever order they are taken.  *)
LEMMA SumsAreUnits ==
  ASSUME NEW S, IsFiniteSet(S), NEW F, \A x \in S : F[x] \in Nat,
         NEW g, Sums(g, F, S)
  PROVE  g[S] = Cardinality(Units(F, S))
<1> DEFINE P == {t \in SUBSET S : IsFiniteSet(Units(F, t)) /\ g[t] = Cardinality(Units(F, t))}
<1>1. {} \in P
  <2>1. Units(F, {}) = {}
    BY DEF Units
  <2>2. g[{}] = 0
    BY DEF Sums
  <2> QED
    BY <2>1, <2>2, FS_EmptySet
<1>2. ASSUME NEW t \in SUBSET S, t # {}, t \ {OneOf(t)} \in P
      PROVE  t \in P
  <2>1. OneOf(t) \in t
    BY <1>2 DEF OneOf
  <2>2. g[t] = F[OneOf(t)] + g[t \ {OneOf(t)}]
    BY <1>2 DEF Sums
  <2>3. /\ IsFiniteSet(Units(F, t \ {OneOf(t)}))
        /\ g[t \ {OneOf(t)}] = Cardinality(Units(F, t \ {OneOf(t)}))
    BY <1>2
  <2>4. F[OneOf(t)] \in Nat
    BY <2>1
  <2>5. /\ IsFiniteSet(Units(F, t))
        /\ Cardinality(Units(F, t)) = F[OneOf(t)] + Cardinality(Units(F, t \ {OneOf(t)}))
    BY <2>1, <2>3, <2>4, UnitsAdd
  <2> QED
    BY <2>2, <2>3, <2>5
<1>3. Inherits(S, P)
  BY <1>1, <1>2 DEF Inherits
<1>4. S \in P
  BY <1>3, InheritedByAll
<1> QED
  BY <1>4

(* A sum over a finite set exists.                                         *)
LEMMA SumsExist ==
  ASSUME NEW S, IsFiniteSet(S), NEW F, \A x \in S : F[x] \in Nat
  PROVE  \E g : Sums(g, F, S)
<1> DEFINE g == [t \in SUBSET S |-> Cardinality(Units(F, t))]
<1>1. Units(F, {}) = {} /\ Cardinality(Units(F, {})) = 0
  BY FS_EmptySet DEF Units
<1>2. \A t \in SUBSET S : t # {} => OneOf(t) \in t /\ F[OneOf(t)] \in Nat
  BY DEF OneOf
<1>3. \A t \in SUBSET S : IsFiniteSet(Units(F, t))
  BY FS_Subset, UnitsAreFinite
<1>4. ASSUME NEW t \in SUBSET S
      PROVE  g[t] = IF t = {} THEN 0 ELSE F[OneOf(t)] + g[t \ {OneOf(t)}]
  <2>1. CASE t = {}
    BY <1>1, <2>1
  <2>2. CASE t # {}
    <3>1. t \ {OneOf(t)} \in SUBSET S
      OBVIOUS
    <3>2. Cardinality(Units(F, t)) = F[OneOf(t)] + Cardinality(Units(F, t \ {OneOf(t)}))
      <4>1. /\ OneOf(t) \in t /\ F[OneOf(t)] \in Nat
            /\ IsFiniteSet(Units(F, t \ {OneOf(t)}))
        BY <1>2, <1>3, <2>2, <3>1
      <4> QED
        BY <4>1, UnitsAdd
    <3> QED
      BY <2>2, <3>1, <3>2
  <2> QED
    BY <2>1, <2>2
<1>5. g = [t \in SUBSET S |-> g[t]]
  OBVIOUS
<1> HIDE DEF g
<1>6. Sums(g, F, S)
  BY <1>4, <1>5 DEF Sums
<1> QED
  BY <1>6

(* The two sums of the score.                                              *)

PointsOf(s) == [i \in Counted(s) |-> s[i].points]
PointSum(s, S) ==
  CHOOSE g : g = [t \in SUBSET S |->
                    IF t = {} THEN 0
                    ELSE s[CHOOSE x \in t : TRUE].points + g[t \ {CHOOSE x \in t : TRUE}]]

LEMMA PointsSumUp ==
  ASSUME NEW s, IsFiniteSet(Counted(s)), \A i \in Counted(s) : s[i].points \in Nat
  PROVE  MapThenSumSet(LAMBDA i : s[i].points, Counted(s))
           = Cardinality(Units(PointsOf(s), Counted(s)))
<1> DEFINE S == Counted(s)
           sum == PointSum(s, S)
<1>1. MapThenSumSet(LAMBDA i : s[i].points, S) = sum[S]
  BY DEF MapThenSumSet, MapThenFoldSet, PointSum
<1> HIDE DEF S
<1>2. IsFiniteSet(S) /\ PointsOf(s) = [i \in S |-> s[i].points]
      /\ \A i \in S : PointsOf(s)[i] \in Nat
  BY DEF S, PointsOf
<1>3. PICK g : Sums(g, PointsOf(s), S)
  BY <1>2, SumsExist
<1>4. \A t \in SUBSET S : t # {} => OneOf(t) \in S
  BY DEF OneOf
<1>5. \A h : Sums(h, PointsOf(s), S)
        <=> h = [t \in SUBSET S |->
                    IF t = {} THEN 0
                    ELSE s[OneOf(t)].points + h[t \ {OneOf(t)}]]
  BY <1>2, <1>4 DEF Sums
<1>6. sum = CHOOSE h : h = [t \in SUBSET S |->
                    IF t = {} THEN 0
                    ELSE s[OneOf(t)].points + h[t \ {OneOf(t)}]]
  BY DEF PointSum, OneOf
<1>7. Sums(sum, PointsOf(s), S)
  BY <1>3, <1>5, <1>6
<1>8. sum[S] = Cardinality(Units(PointsOf(s), S))
  BY <1>2, <1>7, SumsAreUnits
<1> QED
  BY <1>1, <1>8 DEF S

CountsOf(s, T) == [m \in T |-> MultCount(s, m)]
CountSum(s, T) ==
  CHOOSE g : g = [t \in SUBSET T |->
                    IF t = {} THEN 0
                    ELSE MultCount(s, CHOOSE x \in t : TRUE) + g[t \ {CHOOSE x \in t : TRUE}]]

LEMMA CountsSumUp ==
  ASSUME NEW s, NEW T, IsFiniteSet(T), \A m \in T : MultCount(s, m) \in Nat
  PROVE  MapThenSumSet(LAMBDA m : MultCount(s, m), T)
           = Cardinality(Units(CountsOf(s, T), T))
<1> DEFINE sum == CountSum(s, T)
<1>1. MapThenSumSet(LAMBDA m : MultCount(s, m), T) = sum[T]
  BY DEF MapThenSumSet, MapThenFoldSet, CountSum
<1>2. \A m \in T : CountsOf(s, T)[m] = MultCount(s, m) /\ CountsOf(s, T)[m] \in Nat
  BY DEF CountsOf
<1>3. PICK g : Sums(g, CountsOf(s, T), T)
  BY <1>2, SumsExist
<1>4. \A t \in SUBSET T : t # {} => OneOf(t) \in T
  BY DEF OneOf
<1>5. \A h : Sums(h, CountsOf(s, T), T)
        <=> h = [t \in SUBSET T |->
                    IF t = {} THEN 0
                    ELSE MultCount(s, OneOf(t)) + h[t \ {OneOf(t)}]]
  BY <1>2, <1>4 DEF Sums
<1>6. sum = CHOOSE h : h = [t \in SUBSET T |->
                    IF t = {} THEN 0
                    ELSE MultCount(s, OneOf(t)) + h[t \ {OneOf(t)}]]
  BY DEF CountSum, OneOf
<1>7. Sums(sum, CountsOf(s, T), T)
  BY <1>3, <1>5, <1>6
<1>8. sum[T] = Cardinality(Units(CountsOf(s, T), T))
  BY <1>2, <1>7, SumsAreUnits
<1> QED
  BY <1>1, <1>8

LEMMA ContestTypesAreFinite ==
  ASSUME contest \in Registered
  PROVE  IsFiniteSet(MultTypes(contest, Home))
<1> DEFINE T == MultTypes(contest, Home)
           f == [m \in T |-> m.type]
<1>1. IsFiniteSet(ClaimTypes)
  <2> DEFINE g == [i \in 1 .. 8 |->
                     CASE i = 1 -> "Country" [] i = 2 -> "CQZone" [] i = 3 -> "ITUZone"
                       [] i = 4 -> "Custom" [] i = 5 -> "State" [] i = 6 -> "Section"
                       [] i = 7 -> "County" [] i = 8 -> "Prefix"]
  <2>1. /\ g[1] = "Country" /\ g[2] = "CQZone" /\ g[3] = "ITUZone" /\ g[4] = "Custom"
        /\ g[5] = "State" /\ g[6] = "Section" /\ g[7] = "County" /\ g[8] = "Prefix"
    OBVIOUS
  <2>2. DOMAIN g = 1 .. 8 /\ g = [i \in 1 .. 8 |-> g[i]]
    OBVIOUS
  <2> HIDE DEF g
  <2>3. \A i \in 1 .. 8 : i = 1 \/ i = 2 \/ i = 3 \/ i = 4 \/ i = 5 \/ i = 6 \/ i = 7 \/ i = 8
    OBVIOUS
  <2>4. \A i \in 1 .. 8 : g[i] \in ClaimTypes
    BY <2>1, <2>3 DEF ClaimTypes
  <2>5. g \in [1 .. 8 -> ClaimTypes]
    BY <2>2, <2>4
  <2>6. {1, 2, 3, 4, 5, 6, 7, 8} \subseteq 1 .. 8
    OBVIOUS
  <2>7. \A t \in ClaimTypes : \E i \in 1 .. 8 : g[i] = t
    <3> SUFFICES ASSUME NEW t \in ClaimTypes PROVE \E i \in 1 .. 8 : g[i] = t
      OBVIOUS
    <3>1. \/ t = g[1] \/ t = g[2] \/ t = g[3] \/ t = g[4]
          \/ t = g[5] \/ t = g[6] \/ t = g[7] \/ t = g[8]
      BY <2>1 DEF ClaimTypes
    <3> QED
      BY <2>6, <3>1
  <2>8. g \in Surjection(1 .. 8, ClaimTypes)
    BY <2>5, <2>7, Fun_IsSurj
  <2>9. IsFiniteSet(1 .. 8)
    <3>1. 1 \in Int /\ 8 \in Int
      OBVIOUS
    <3> QED
      BY <3>1, FS_Interval
  <2> QED
    BY <2>8, <2>9, FS_Surjection
<1>2. \A m \in T : m.type \in ClaimTypes
  BY TypesAreDistinct
<1>3. \A m, n \in T : m.type = n.type => m = n
  BY TypesAreDistinct
<1> HIDE DEF T
<1>4. f \in [T -> ClaimTypes] /\ \A m, n \in T : f[m] = f[n] => m = n
  BY <1>2, <1>3
<1>5. f \in Injection(T, ClaimTypes)
  BY <1>4 DEF Injection, IsInjective
<1>6. IsFiniteSet(T)
  BY <1>1, <1>5, FS_Injection
<1> QED
  BY <1>6 DEF T

-----------------------------------------------------------------------------
(* The score is made of the contacts with a band, whatever their order.    *)

ContactsOf(s) == {s[i].c : i \in Counted(s)}

\* Contacts that are duplicates of each other are worth the same
KeysPayAlike(C, me) ==
  \A c, d \in C : DupeKey(c) = DupeKey(d) => Points(contest, c, me) = Points(contest, d, me)

\* The points of the first contacts of all keys, one by one
Paid(C, me) ==
  {<<DupeKey(p[1]), p[2]>> : p \in {q \in C \X Nat : q[2] \in 1 .. Points(contest, q[1], me)}}
Multiplied(C, m) ==
  {<<Prefixed(c, m), Value(contest, c, m.type)>> :
     c \in {d \in C : Value(contest, d, m.type) # ""}}

LEMMA MultCountOfContacts ==
  ASSUME NEW s, NEW m
  PROVE  MultCount(s, m) = Cardinality(Multiplied(ContactsOf(s), m))
BY DEF MultCount, Multiplied, ContactsOf

LEMMA MultCountIsNat ==
  ASSUME NEW s, IsFiniteSet(Counted(s)), NEW m
  PROVE  MultCount(s, m) \in Nat
<1> DEFINE S == {j \in Counted(s) : Value(contest, s[j].c, m.type) # ""}
           pair(i) == <<Prefixed(s[i].c, m), Value(contest, s[i].c, m.type)>>
           D == {pair(i) : i \in S}
           f == [i \in S |-> pair(i)]
<1>1. S \in SUBSET Counted(s)
  OBVIOUS
<1>2. IsFiniteSet(S)
  BY <1>1, FS_Subset
<1>3. MultCount(s, m) = Cardinality(D)
  BY DEF MultCount
<1> HIDE DEF S, pair
<1>4. f \in [S -> D] /\ \A d \in D : \E i \in S : f[i] = d
  OBVIOUS
<1>5. f \in Surjection(S, D)
  BY <1>4, Fun_IsSurj
<1>6. IsFiniteSet(D)
  BY <1>2, <1>5, FS_Surjection
<1> QED
  BY <1>3, <1>6, FS_CardinalityType

LEMMA PointsByKey ==
  ASSUME contest \in Registered, NEW c, NEW d, NEW me, c.country = d.country,
         c.cont = d.cont, c.ituZone = d.ituZone, DupeKey(c) = DupeKey(d)
  PROVE  Points(contest, c, me) = Points(contest, d, me)
<1>1. c.mode = d.mode /\ (contest \in Sweepstakes \/ c.band = d.band)
  BY DEF DupeKey, DupeRule
<1>2. CASE contest \in Sweepstakes
  BY <1>2 DEF Points, CQWW, CQWPX, ARRLDX, Sweepstakes, NAQP, FieldDays
<1>3. CASE contest \notin Sweepstakes
  <2>1. /\ CQWWPoints(contest, c, me) = CQWWPoints(contest, d, me)
        /\ CQWPXPoints(contest, c, me) = CQWPXPoints(contest, d, me)
        /\ IARUPoints(c, me) = IARUPoints(d, me)
        /\ FieldDayPoints(c) = FieldDayPoints(d)
        /\ FloridaPoints(c) = FloridaPoints(d)
    BY <1>1, <1>3 DEF CQWWPoints, CQWPXPoints, IARUPoints,
       FieldDayPoints, FloridaPoints
  <2> QED
    BY <2>1 DEF Points, Registered, CQWW, CQWPX, ARRLDX, Sweepstakes, NAQP, FieldDays
<1> QED
  BY <1>2, <1>3

\* What a log whose duplicates have no points has for contacts
PaysFirsts(s, me) ==
  /\ \A i \in DOMAIN s : s[i].points = Worth(s, i, me)
  /\ contest \in Sweepstakes => Counted(s) = DOMAIN s
  /\ KeysPayAlike(ContactsOf(s), me)

(* Each key is paid once, for the first of its contacts, which has a band  *)
(* when any of them has: a key names its band, or no contact lacks one.     *)
LEMMA FirstsArePaid ==
  ASSUME contest \in Registered, NEW me, NEW s, NEW n \in Nat, DOMAIN s = 1 .. n,
         PaysFirsts(s, me)
  PROVE  /\ IsFiniteSet(Counted(s))
         /\ \A i \in Counted(s) : s[i].points \in Nat
         /\ Cardinality(Units(PointsOf(s), Counted(s))) = Cardinality(Paid(ContactsOf(s), me))
<1> DEFINE S == Counted(s)
           U == Units(PointsOf(s), S)
           C == ContactsOf(s)
           pays(c) == Points(contest, c, me)
           f == [u \in U |-> <<DupeKey(s[u[1]].c), u[2]>>]
<1>1. S \subseteq 1 .. n /\ 1 .. n \subseteq Nat /\ IsFiniteSet(S)
  <2>1. S \in SUBSET (1 .. n) /\ IsFiniteSet(1 .. n) /\ 1 .. n \subseteq Nat
    BY FS_Interval DEF Counted
  <2> QED
    BY <2>1, FS_Subset
<1>2. \A i \in S : s[i].points \in Nat /\ s[i].points = Worth(s, i, me)
  <2>1. \A i \in S : s[i].points = Worth(s, i, me)
    BY DEF PaysFirsts, Counted
  <2>2. \A i \in S : Worth(s, i, me) \in Nat
    BY PointsAreNat DEF Worth
  <2> QED
    BY <2>1, <2>2
<1>3. \A i \in S : s[i].c \in C
  BY DEF ContactsOf
<1>4. \A i \in S : ~IsDupe(s, i) => s[i].points = pays(s[i].c)
  BY <1>2 DEF Worth
<1>5. \A i \in S : IsDupe(s, i) => s[i].points = 0
  BY <1>2 DEF Worth
<1>6. \A u \in U : /\ u = <<u[1], u[2]>> /\ u[1] \in S /\ u[2] \in Nat
                   /\ u[2] \in 1 .. s[u[1]].points
  BY DEF Units, PointsOf
<1>7. \A u \in U : ~IsDupe(s, u[1]) /\ u[2] \in 1 .. pays(s[u[1]].c)
  <2> TAKE u \in U
  <2>1. u[1] \in S /\ u[2] \in 1 .. s[u[1]].points
    BY <1>6
  <2>2. ~IsDupe(s, u[1])
    <3> SUFFICES ASSUME IsDupe(s, u[1]) PROVE FALSE
      OBVIOUS
    <3>1. u[2] \in 1 .. 0
      BY <1>5, <2>1
    <3> QED
      BY <3>1
  <2> QED
    BY <1>4, <2>1, <2>2
<1>8. \A i \in S, k \in Nat : k \in 1 .. s[i].points => <<i, k>> \in U
  BY DEF Units, PointsOf
<1>9. \A c \in C, k \in Nat : k \in 1 .. pays(c) => <<DupeKey(c), k>> \in Paid(C, me)
  <2> TAKE c \in C, k \in Nat
  <2> HAVE k \in 1 .. pays(c)
  <2>1. <<c, k>> \in {q \in C \X Nat : q[2] \in 1 .. Points(contest, q[1], me)}
    OBVIOUS
  <2> QED
    BY <2>1 DEF Paid
<1>10. \A p \in Paid(C, me) : \E c \in C, k \in Nat :
         k \in 1 .. pays(c) /\ p = <<DupeKey(c), k>>
  BY DEF Paid
<1> HIDE DEF S, U, C, pays
<1>11. f \in [U -> Paid(C, me)]
  BY <1>3, <1>6, <1>7, <1>9
<1>12. ASSUME NEW u \in U, NEW w \in U, f[u] = f[w] PROVE u = w
  <2>1. DupeKey(s[u[1]].c) = DupeKey(s[w[1]].c) /\ u[2] = w[2]
    BY <1>12
  <2>2. u[1] \in 1 .. n /\ w[1] \in 1 .. n
    BY <1>1, <1>6
  <2>3. ~(u[1] < w[1]) /\ ~(w[1] < u[1])
    <3>1. u[1] < w[1] => u[1] \in 1 .. (w[1] - 1)
      BY <2>2
    <3>2. w[1] < u[1] => w[1] \in 1 .. (u[1] - 1)
      BY <2>2
    <3>3. ~IsDupe(s, u[1]) /\ ~IsDupe(s, w[1])
      BY <1>7
    <3> HIDE DEF f
    <3> QED
      BY <2>1, <3>1, <3>2, <3>3 DEF IsDupe
  <2>4. u[1] = w[1]
    BY <2>2, <2>3
  <2> QED
    BY <1>6, <2>1, <2>4
<1>13. ASSUME NEW p \in Paid(C, me) PROVE \E u \in U : f[u] = p
  <2>1. PICK c \in C, k \in Nat : k \in 1 .. pays(c) /\ p = <<DupeKey(c), k>>
    BY <1>10
  <2>2. PICK e \in S : s[e].c = c
    BY DEF C, S, ContactsOf
  <2> DEFINE J == {i \in 1 .. n : DupeKey(s[i].c) = DupeKey(c)}
  <2>3. J \in SUBSET Nat /\ e \in J
    <3>1. e \in J
      BY <1>1, <2>2
    <3>2. \A i \in J : i \in 1 .. n
      OBVIOUS
    <3> HIDE DEF J
    <3> QED
      BY <1>1, <3>1, <3>2
  <2>4. PICK i \in J : \A j \in J : i <= j
    BY <2>3, LeastExists
  <2>5. i \in 1 .. n /\ DupeKey(s[i].c) = DupeKey(c)
    OBVIOUS
  <2>6. i \in S
    <3>1. CASE contest \in Sweepstakes
      <4>1. S = 1 .. n
        BY <3>1 DEF S, PaysFirsts
      <4> QED
        BY <2>5, <4>1
    <3>2. CASE contest \notin Sweepstakes
      <4>1. s[i].c.band = c.band
        BY <2>5, <3>2 DEF DupeKey, DupeRule
      <4>2. c.band # NoBand
        BY <2>2 DEF S, Counted
      <4> QED
        BY <2>5, <4>1, <4>2 DEF S, Counted
    <3> QED
      BY <3>1, <3>2
  <2>7. ~IsDupe(s, i)
    <3> SUFFICES ASSUME NEW j \in 1 .. (i - 1), DupeKey(s[j].c) = DupeKey(s[i].c)
                 PROVE  FALSE
      BY DEF IsDupe
    <3>1. j \in 1 .. n /\ ~(i <= j)
      <4> HIDE DEF J, f
      <4> QED
        BY <2>5
    <3>2. j \in J
      BY <2>5, <3>1
    <3> QED
      BY <2>4, <3>1, <3>2
  <2>8. s[i].points = pays(c)
    <3>1. Points(contest, s[i].c, me) = Points(contest, c, me)
      BY <1>3, <2>5, <2>6 DEF PaysFirsts, KeysPayAlike, C
    <3> QED
      BY <1>4, <2>6, <2>7, <3>1 DEF pays
  <2>9. <<i, k>> \in U
    BY <1>8, <2>1, <2>6, <2>8
  <2>10. f[<<i, k>>] = p
    BY <2>1, <2>5, <2>9
  <2> QED
    BY <2>9, <2>10
<1>14. f \in Bijection(U, Paid(C, me))
  BY <1>11, <1>12, <1>13, Fun_IsBij, Fun_IsSurj
<1>15. IsFiniteSet(U)
  <2>1. \A i \in S : PointsOf(s)[i] \in Nat
    BY <1>2 DEF PointsOf, S
  <2> QED
    BY <1>1, <2>1, UnitsAreFinite DEF U
<1>16. Cardinality(U) = Cardinality(Paid(C, me))
  BY <1>14, <1>15, FS_Bijection DEF ExistsBijection
<1> QED
  BY <1>1, <1>2, <1>16 DEF S, U, C

(* Logs of the same contacts in different orders have the same score.      *)
LEMMA ScoreIsOfContacts ==
  ASSUME contest \in Registered, NEW me,
         NEW s, NEW n \in Nat, DOMAIN s = 1 .. n, PaysFirsts(s, me),
         NEW r, NEW k \in Nat, DOMAIN r = 1 .. k, PaysFirsts(r, me),
         ContactsOf(s) = ContactsOf(r)
  PROVE  Score(s) = Score(r)
<1> DEFINE T == MultTypes(contest, Home)
<1>1. /\ IsFiniteSet(Counted(s)) /\ \A i \in Counted(s) : s[i].points \in Nat
      /\ Cardinality(Units(PointsOf(s), Counted(s))) = Cardinality(Paid(ContactsOf(s), me))
  BY FirstsArePaid
<1>2. /\ IsFiniteSet(Counted(r)) /\ \A i \in Counted(r) : r[i].points \in Nat
      /\ Cardinality(Units(PointsOf(r), Counted(r))) = Cardinality(Paid(ContactsOf(r), me))
  BY FirstsArePaid
<1>3. MapThenSumSet(LAMBDA i : s[i].points, Counted(s)) = Cardinality(Paid(ContactsOf(s), me))
  BY <1>1, PointsSumUp
<1>4. MapThenSumSet(LAMBDA i : r[i].points, Counted(r)) = Cardinality(Paid(ContactsOf(s), me))
  BY <1>2, PointsSumUp
<1>5. IsFiniteSet(T)
  BY ContestTypesAreFinite
<1>6. \A m \in T : /\ MultCount(s, m) \in Nat /\ MultCount(r, m) \in Nat
                   /\ MultCount(s, m) = MultCount(r, m)
  BY <1>1, <1>2, MultCountIsNat, MultCountOfContacts
<1>7. CountsOf(s, T) = CountsOf(r, T)
  BY <1>6 DEF CountsOf
<1>8. MapThenSumSet(LAMBDA m : MultCount(s, m), T) = Cardinality(Units(CountsOf(s, T), T))
  BY <1>5, <1>6, CountsSumUp
<1>9. MapThenSumSet(LAMBDA m : MultCount(r, m), T) = Cardinality(Units(CountsOf(s, T), T))
  BY <1>5, <1>6, <1>7, CountsSumUp
<1> QED
  BY <1>3, <1>4, <1>8, <1>9 DEF Score

(* Reading the log by time and rescoring it, as an activation does, moves  *)
(* duplicates and claims to other rows and leaves the score as it was,     *)
(* for every log in which the contacts with one call have one country,     *)
(* continent and ITU zone and, in Sweepstakes, every contact has a band    *)
(* (calculateScore), as long as the settings pay each contact what it was  *)
(* paid.                                                                   *)
THEOREM RestartsKeepScore == ScoringSpec => []RestartKeepsScore
<1>1. ASSUME ScoringInv PROVE RestartKeepsScore
  <2> SUFFICES ASSUME NEW cont \in SettingConts, Idle, clean, OrderIsFree,
                      PaidAs(WindowStation(cont))
               PROVE  Score(Restarted(WindowStation(cont))) = Score(table)
    BY DEF RestartKeepsScore
  <2> DEFINE me == WindowStation(cont)
             after == Restarted(me)
             s == ByTime(fileRows)
             n == Cardinality(fileRows)
  <2>1. /\ ScoringTypeOK /\ Counts(fileRows) /\ ScoredInOrder
        /\ Agrees(table, fileRows, stale \cup unlinked)
    BY <1>1 DEF ScoringInv, TableInv
  <2>2. contest \in Registered /\ Len(table) \in Nat /\ DOMAIN table = 1 .. Len(table)
    BY <2>1, TableFacts
  <2>3. Stamped(fileRows)
    BY <2>1, RowsAreStamped DEF ScoringTypeOK
  <2>4. n \in Nat /\ s \in [1 .. n -> fileRows] /\ RowsOf(s) = fileRows
    BY <2>1, <2>3, ByTimeSorts DEF Counts
  <2>5. /\ DOMAIN after = 1 .. n
        /\ \A i \in 1 .. n : /\ after[i].c = s[i].c
                             /\ after[i].points = Worth(s, i, me)
    <3>1. \A i \in 1 .. n : s[i] \in Row
      BY <2>1, <2>4 DEF ScoringTypeOK
    <3> HIDE DEF n
    <3>2. after = [i \in 1 .. n |-> [s[i] EXCEPT !.points = Worth(s, i, me)]]
      BY <2>4 DEF Restarted
    <3> HIDE DEF s
    <3> QED
      BY <3>1, <3>2 DEF Row
  <2>6. \A i \in 1 .. n : 1 .. (i - 1) \subseteq 1 .. n
    BY <2>4
  <2> HIDE DEF n, s, after, me
  <2>7. \A i \in 1 .. n : Worth(after, i, me) = Worth(s, i, me)
    <3>1. \A i \in 1 .. n : IsDupe(after, i) = IsDupe(s, i)
      BY <2>5, <2>6 DEF IsDupe
    <3> QED
      BY <2>5, <3>1 DEF Worth
  <2>8. \A i \in DOMAIN table : table[i].points = Worth(table, i, me)
    <3> TAKE i \in DOMAIN table
    <3>1. table[i].dupe = IsDupe(table, i) /\ \E you : table[i].points = Worth(table, i, you)
      BY <2>1 DEF ScoredInOrder, InTableOrder
    <3>2. CASE table[i].dupe
      BY <3>1, <3>2 DEF Worth
    <3>3. CASE ~table[i].dupe
      BY <3>1, <3>3 DEF Worth, PaidAs, me
    <3> QED
      BY <3>2, <3>3
  <2>9. {table[i].c : i \in DOMAIN table} = {r.c : r \in fileRows}
    <3>1. ASSUME NEW i \in DOMAIN table PROVE \E r \in fileRows : table[i].c = r.c
      <4>1. table[i] \in RowsOf(table)
        BY DEF RowsOf
      <4>2. PICK r \in fileRows : table[i].id = r.id
        BY <2>1, <4>1 DEF Agrees
      <4> QED
        BY <2>1, <4>1, <4>2 DEF Agrees, SameContact
    <3>2. ASSUME NEW r \in fileRows PROVE \E i \in DOMAIN table : table[i].c = r.c
      <4>1. PICK q \in RowsOf(table) : q.id = r.id
        BY <2>1 DEF Agrees
      <4>2. q.c = r.c
        BY <2>1, <4>1 DEF Agrees, SameContact
      <4> QED
        BY <4>1, <4>2 DEF RowsOf
    <3> QED
      BY <3>1, <3>2
  <2>10. {after[i].c : i \in DOMAIN after} = {r.c : r \in fileRows}
    BY <2>4, <2>5 DEF RowsOf
  <2>11. /\ ContactsOf(table) = {c \in {r.c : r \in fileRows} : c.band # NoBand}
         /\ ContactsOf(after) = {c \in {r.c : r \in fileRows} : c.band # NoBand}
    BY <2>9, <2>10 DEF ContactsOf, Counted
  <2>12. KeysPayAlike(ContactsOf(table), me)
    <3> SUFFICES ASSUME NEW c \in ContactsOf(table), NEW d \in ContactsOf(table),
                        DupeKey(c) = DupeKey(d)
                 PROVE  Points(contest, c, me) = Points(contest, d, me)
      BY DEF KeysPayAlike
    <3>1. PICK q \in fileRows, r \in fileRows : c = q.c /\ d = r.c
      BY <2>11
    <3>2. c.call = d.call
      BY DEF DupeKey
    <3>3. c.country = d.country /\ c.cont = d.cont /\ c.ituZone = d.ituZone
      BY <3>1, <3>2 DEF OrderIsFree
    <3> QED
      BY <2>2, <3>3, PointsByKey
  <2>13. contest \in Sweepstakes =>
           Counted(table) = DOMAIN table /\ Counted(after) = DOMAIN after
    <3> SUFFICES ASSUME contest \in Sweepstakes
                 PROVE  Counted(table) = DOMAIN table /\ Counted(after) = DOMAIN after
      OBVIOUS
    <3>1. Counted(table) = DOMAIN table
      BY DEF OrderIsFree
    <3>2. \A c \in {r.c : r \in fileRows} : c.band # NoBand
      BY <2>9, <3>1 DEF Counted
    <3> QED
      BY <2>10, <3>1, <3>2 DEF Counted
  <2>14. PaysFirsts(table, me) /\ PaysFirsts(after, me)
    BY <2>5, <2>7, <2>8, <2>11, <2>12, <2>13 DEF PaysFirsts
  <2> QED
    BY <2>2, <2>4, <2>5, <2>11, <2>14, ScoreIsOfContacts DEF n, after, me
<1> QED
  BY <1>1, ScoringInvariance, PTL
=============================================================================
