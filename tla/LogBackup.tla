----------------------------- MODULE LogBackup -----------------------------
(***************************************************************************)
(* Backups of the log and their restoration: BackupManager, the counting   *)
(* that asks for a backup, the dialog that restores one, and the files     *)
(* they move.  restoreFromBackup runs to its end on the main thread, but   *)
(* the program may be killed between any two of its file operations, and   *)
(* a worker (SpotProcessorWorker, WSJTXHighlightWorker) may have, or open, *)
(* a connection of its own to the same file.                               *)
(*                                                                         *)
(* SQLite in WAL mode is external: a commit goes to the WAL beside the     *)
(* file; the last connection that closes moves it into the file; whoever   *)
(* opens the path finds the WAL that is there, whatever file it belongs    *)
(* to.  A worker's connection makes the file if there is none.             *)
(***************************************************************************)
EXTENDS Naturals, FiniteSets

CONSTANTS
  Interval,        \* m_autoBackupInterval
  MaxBackups,      \* m_maxBackups
  Absent, Empty,   \* no file; a file without a schema
  None,            \* no WAL, no .broken file, nothing being restored
  MaxQSOs, MaxTime, MaxFaults, MaxSetBacks   \* bounds

ASSUME IntervalAssumption == Interval \in Nat \ {0}
ASSUME MaxBackupsAssumption == MaxBackups \in Nat \ {0}
ASSUME BackupBoundsAssumption == {MaxQSOs, MaxTime, MaxFaults, MaxSetBacks} \subseteq Nat
ASSUME FilesAssumption ==
  /\ Absent # Empty /\ Absent # None /\ Empty # None
  /\ \A log \in SUBSET (1 .. MaxQSOs) : log \notin {Absent, Empty, None}

VARIABLES
  file, wal, broken,   \* the database, its WAL, the safety copy: their contacts
  dbOpen, worker,      \* Database::isOpen; a worker's connection
  backups,             \* backup files: the time in the name, the contacts
  now,                 \* local time, in seconds, when a name was last made of it
  last,                \* m_lastBackupQSOCount of this file
  shown,               \* QSOTableModel::count
  pc, source,          \* where restoreFromBackup is, and the backup's contacts
  logged, faults, setBacks,   \* counters for the bounds
  owed,                \* contacts the operator logged and did not clear (history)
  untouched,           \* nobody overwrote the only copy of them (history)
  steady,              \* the counts still tell the backlog (history)
  slack                \* contacts that asked for no backup, or got none (history)

files == <<file, wal, broken>>
disk == <<files, backups>>
bounds == <<logged, faults, setBacks>>
history == <<owed, untouched, steady, slack>>
vars == <<disk, dbOpen, worker, now, last, shown, pc, source, bounds, history>>

QSOs == 1 .. MaxQSOs

\* The contacts in a file
IsLog(f) == f \notin {Absent, Empty, None}
In(f) == IF IsLog(f) THEN f ELSE {}

Logs == SUBSET QSOs

TypeOK ==
  /\ file \in {Absent, Empty} \cup Logs /\ wal \in {None} \cup Logs
  /\ broken \in {None, Empty} \cup Logs /\ source \in {None, Empty} \cup Logs
  /\ backups \subseteq [at : 0 .. MaxTime, rows : {Empty} \cup Logs]
  /\ dbOpen \in BOOLEAN /\ worker \in {"none", "asked", "open"}
  /\ now \in 0 .. MaxTime /\ last \in 0 .. MaxQSOs /\ shown \in 0 .. MaxQSOs
  /\ pc \in {"ready", "closed", "cleared", "moved", "copied", "down"}
  /\ logged \in 0 .. MaxQSOs /\ faults \in 0 .. MaxFaults
  /\ setBacks \in 0 .. MaxSetBacks
  /\ owed \subseteq QSOs /\ untouched \in BOOLEAN /\ steady \in BOOLEAN
  /\ slack \in 0 .. MaxQSOs

\* A contest was created and opened
Init ==
  /\ file = {} /\ wal = None /\ broken = None
  /\ dbOpen = TRUE /\ worker = "none"
  /\ backups = {} /\ now = 0 /\ last = 0 /\ shown = 0
  /\ pc = "ready" /\ source = None
  /\ logged = 0 /\ faults = 0 /\ setBacks = 0
  /\ owed = {} /\ untouched = TRUE /\ steady = TRUE /\ slack = 0

\* The contacts of the log; the WAL, if there is one, has the last word
Rows == IF wal # None THEN wal ELSE In(file)

Fault == faults < MaxFaults /\ faults' = faults + 1

-----------------------------------------------------------------------------
(* Taking backups                                                           *)

\* rotateBackups: by the time in the name, the newest stay
Newest(bs) ==
  {b \in bs : Cardinality({c \in bs : c.at > b.at}) < MaxBackups}

\* generateBackupFileName reads the clock.  Local time may have been set
\* back: by hand, or at the end of daylight saving.
ReadClock ==
  /\ now' \in 0 .. MaxTime
  /\ IF now' < now THEN setBacks < MaxSetBacks /\ setBacks' = setBacks + 1
                   ELSE UNCHANGED setBacks

NameIsFree == \A b \in backups : b.at # now'

\* No backup is dated after the present, so a new one is the newest
InOrder == \A b \in backups : b.at <= now'

\* createBackup: VACUUM INTO a name made of the time, then rotation
Take(rows) ==
  /\ dbOpen /\ ReadClock /\ NameIsFree
  /\ backups' = Newest(backups \cup {[at |-> now', rows |-> rows]})
  /\ slack' = 0
  /\ UNCHANGED faults

\* The database is closed, the name is taken, or the disk is full, which
\* leaves an empty file under the name
TakeFails ==
  \/ ~dbOpen /\ UNCHANGED <<backups, now, setBacks, faults>>
  \/ dbOpen /\ ReadClock /\ ~NameIsFree /\ UNCHANGED <<backups, faults>>
  \/ /\ dbOpen /\ ReadClock /\ NameIsFree /\ Fault
     /\ backups' = backups \cup {[at |-> now', rows |-> Empty]}

\* Slip: what was tried counts as done
AutoBackupOnce(rows, count) ==
  IF count < last + Interval
    THEN UNCHANGED <<backups, now, setBacks, last, faults, steady, slack>>
    ELSE /\ \/ Take(rows) /\ steady' = InOrder
            \/ TakeFails /\ slack' = slack + 1 /\ UNCHANGED steady
         /\ last' = count

\* autoBackupIfNeeded, with the count of the contacts on the screen
AutoBackup(rows, count) ==
  IF count < last + Interval
    THEN UNCHANGED <<backups, now, setBacks, last, faults, steady, slack>>
    ELSE \/ Take(rows) /\ last' = count /\ steady' = InOrder
         \/ TakeFails /\ slack' = slack + 1 /\ UNCHANGED <<last, steady>>

-----------------------------------------------------------------------------
(* The log                                                                  *)

NextQSO == logged + 1

\* A save with an open database commits; otherwise the contact is refused
Store ==
  /\ pc = "ready" /\ logged < MaxQSOs
  /\ logged' = NextQSO /\ shown' = shown + 1
  /\ IF dbOpen THEN wal' = Rows \cup {NextQSO} /\ owed' = owed \cup {NextQSO}
               ELSE UNCHANGED <<wal, owed>>
  /\ UNCHANGED <<file, broken, dbOpen, worker, pc, source, untouched>>

\* The entry line or the web: the contact is saved, then counted
Log == Store /\ AutoBackup(Rows', shown + 1)

\* onWSJTXQSOReady: a contact that asks for no backup
LogQuietly ==
  /\ dbOpen /\ Store
  /\ slack' = slack + 1
  /\ UNCHANGED <<backups, now, setBacks, last, faults, steady>>

\* onCreateBackup of the dialog; the count of the automatic backup stays
ManualBackup ==
  /\ pc = "ready"
  /\ \/ Take(Rows) /\ steady' = (InOrder /\ last <= shown)
     \/ TakeFails /\ UNCHANGED <<steady, slack>>
  /\ UNCHANGED <<files, dbOpen, worker, last, shown, pc, source, logged, owed,
                 untouched>>

\* onClearLog: a backup if the operator wants one and it can be had, then
\* every contact is deleted; the count of the automatic backup stays
Clear ==
  /\ pc = "ready" /\ dbOpen /\ shown > 0
  /\ \/ Take(Rows)
     \/ TakeFails /\ UNCHANGED slack
     \/ UNCHANGED <<backups, now, setBacks, faults, slack>>
  /\ wal' = {} /\ owed' = {} /\ shown' = 0
  /\ steady' = (steady /\ last = 0)
  /\ UNCHANGED <<file, broken, dbOpen, worker, last, pc, source, logged, untouched>>

-----------------------------------------------------------------------------
(* Opening and closing                                                      *)

\* Slip: the log's file is moved under its open connection
CloseFilesNot == UNCHANGED <<file, wal>>

\* Database::close: the last connection moves the WAL into the file
CloseFiles ==
  IF dbOpen /\ worker # "open" THEN file' = Rows /\ wal' = None
                               ELSE UNCHANGED <<file, wal>>

\* The spot window or WSJT-X starts a worker on the open contest
AskWorker ==
  /\ pc = "ready" /\ dbOpen /\ worker = "none"
  /\ worker' = "asked"
  /\ UNCHANGED <<disk, dbOpen, now, last, shown, pc, source, bounds, history>>

\* The worker opens its connection, whatever the main thread is doing
OpenWorker ==
  /\ worker = "asked" /\ worker' = "open"
  /\ file' = IF file = Absent THEN Empty ELSE file
  /\ UNCHANGED <<wal, broken, backups, dbOpen, now, last, shown, pc, source, bounds, history>>

\* The operator opens the same contest again: close, open, load the table
OpenContest ==
  /\ pc = "ready" /\ IsLog(file)
  /\ CloseFiles
  /\ dbOpen' = TRUE /\ shown' = Cardinality(Rows)
  /\ steady' = (steady /\ (last = 0 \/ shown' = shown))
  /\ UNCHANGED <<broken, backups, worker, now, last, pc, source, bounds, owed,
                 untouched, slack>>

\* The program ends in order, or is killed: between two steps of a restore too
Quit ==
  /\ pc # "down" /\ pc' = "down"
  /\ dbOpen' = FALSE /\ worker' = "none" /\ source' = None
  /\ \/ pc = "ready" /\ (IF dbOpen THEN file' = Rows /\ wal' = None
                                   ELSE UNCHANGED <<file, wal>>)
     \/ UNCHANGED <<file, wal>>
  /\ UNCHANGED <<broken, backups, now, last, shown, bounds, history>>

\* reopenLastContest, if the file is there and has a schema
Restart ==
  /\ pc = "down" /\ IsLog(file)
  /\ pc' = "ready" /\ dbOpen' = TRUE
  /\ shown' = Cardinality(Rows) /\ last' = 0
  /\ UNCHANGED <<disk, worker, now, source, bounds, history>>

-----------------------------------------------------------------------------
(* restoreFromBackup, one file operation at a time                          *)

RestoreFails == pc' = "ready" /\ source' = None

\* The dialog offers every backup SQLite finds intact, and an empty file is;
\* the database is closed.  From here on the log is promised in the file or
\* in the safety copy.
BeginRestore ==
  /\ pc = "ready"
  /\ \E b \in backups : source' = b.rows
  /\ pc' = "closed" /\ CloseFiles /\ dbOpen' = FALSE
  /\ owed' = IF dbOpen THEN Rows ELSE owed
  /\ untouched' = (untouched /\ worker # "open")
  /\ UNCHANGED <<broken, backups, worker, now, last, shown, bounds, steady, slack>>

\* Slip: the old safety copy goes whether or not there is a file to keep
RemoveBrokenAlways ==
  /\ pc = "closed"
  /\ broken' = None /\ UNCHANGED faults
  /\ pc' = (IF file = Absent THEN "moved" ELSE "cleared") /\ UNCHANGED source
  /\ untouched' = (untouched /\ (file = Absent \/ owed \subseteq Rows))
  /\ UNCHANGED <<file, wal, backups, dbOpen, worker, now, last, shown, logged, setBacks,
                 owed, steady, slack>>

\* The old safety copy is removed, if there is a file to take its place
RemoveBroken ==
  /\ pc = "closed"
  /\ \/ /\ file = Absent
        /\ pc' = "moved" /\ UNCHANGED <<broken, source, faults>>
     \/ /\ file # Absent
        /\ broken' = None /\ pc' = "cleared" /\ UNCHANGED <<source, faults>>
     \/ /\ file # Absent /\ broken # None
        /\ Fault /\ RestoreFails /\ UNCHANGED broken
  /\ untouched' = (untouched /\ (broken' = broken \/ owed \subseteq Rows))
  /\ UNCHANGED <<file, wal, backups, dbOpen, worker, now, last, shown, logged, setBacks,
                 owed, steady, slack>>

\* The file becomes the safety copy
MoveAway ==
  /\ pc = "cleared"
  /\ \/ /\ broken' = file /\ file' = Absent
        /\ pc' = "moved" /\ UNCHANGED <<source, faults>>
     \/ Fault /\ RestoreFails /\ UNCHANGED <<file, broken>>
  /\ UNCHANGED <<wal, backups, dbOpen, worker, now, last, shown, logged, setBacks, history>>

\* The backup is copied to the path, unless something is there
Copy ==
  /\ pc = "moved" /\ file = Absent
  /\ file' = source /\ pc' = "copied"
  /\ UNCHANGED <<wal, broken, backups, dbOpen, worker, now, last, shown, source, bounds,
                 history>>

\* The copy fails and the safety copy is renamed back, which fails in turn
\* if something is at the path; nobody looks, and the database stays closed
CopyFails ==
  /\ pc = "moved"
  /\ IF file = Absent THEN Fault ELSE UNCHANGED faults
  /\ \/ broken # None /\ file = Absent /\ file' = broken /\ broken' = None
     \/ UNCHANGED <<file, broken>>
  /\ RestoreFails
  /\ UNCHANGED <<wal, backups, dbOpen, worker, now, last, shown, logged, setBacks, history>>

\* Database::open refuses a file without a schema; it may fail otherwise
Reopen ==
  /\ pc = "copied"
  /\ \/ IsLog(file) /\ dbOpen' = TRUE /\ UNCHANGED faults
     \/ file = Empty /\ UNCHANGED <<dbOpen, faults>>
     \/ Fault /\ UNCHANGED dbOpen
  /\ pc' = "ready" /\ source' = None
  /\ UNCHANGED <<disk, worker, now, last, shown, logged, setBacks, history>>

RestoreStep == RemoveBroken \/ MoveAway \/ Copy \/ CopyFails \/ Reopen

Next ==
  \/ Log \/ LogQuietly \/ ManualBackup \/ Clear
  \/ AskWorker \/ OpenWorker \/ OpenContest \/ Quit \/ Restart
  \/ BeginRestore \/ RestoreStep

Spec == Init /\ [][Next]_vars

-----------------------------------------------------------------------------
(* While a restore runs, fails, is killed half-way or succeeds, every       *)
(* contact of the log is in the database or in the .broken file ("Creates   *)
(* a safety backup (.broken) of the existing database", BackupManager.h).   *)
(* Not once a worker had the file open when the restore closed it, or a     *)
(* second restore began while the log was only in the safety copy: then     *)
(* the code itself loses contacts (LogIsKept, SafetyCopyIsWhole).           *)
LogSurvivesRestore == untouched => owed \subseteq Rows \cup In(broken)

(* A restore that reports success leaves the database with the contacts of  *)
(* the chosen backup, no fewer and no more: no WAL of the log before it is  *)
(* applied to the restored file (restoreFromBackup closes before it moves). *)
RestoredIsTheBackup ==
  [][pc = "copied" /\ dbOpen' /\ untouched => Rows' = source]_vars

(* If the program is killed now and the disk lost, the backups lack fewer   *)
(* contacts than the interval, besides those logged without a backup check  *)
(* or whose backup failed (autoBackupIfNeeded compares a count of the       *)
(* screen with one remembered; rotation keeps the newest by name).          *)
Lacks(rows) == Cardinality(Rows \ In(rows))
Backlog == \E rows \in {b.rows : b \in backups} \cup {Empty} :
             Lacks(rows) < Interval + slack
BackupsKeepUp == steady => Backlog

(* "Auto-backup every N QSOs" (BackupManager.h:45), whatever happened to    *)
(* the log meanwhile.                                                       *)
EveryNQSOs == setBacks = 0 => Backlog

(* "The current database will be saved as .broken for safety"               *)
(* (BackupRestoreDialog.cpp:408), whichever restore it is.                  *)
LogIsKept == owed \subseteq Rows \cup In(broken)

(* The safety copy is the log, also while a worker's connection is open.    *)
SafetyCopyIsWhole == pc = "moved" => owed \subseteq In(broken)
=============================================================================
