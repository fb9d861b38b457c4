------------------------------- MODULE QsoLog --------------------------------
(***************************************************************************)
(* The operating session of TR4QT: the log table on the screen, the        *)
(* contests' database files and the one connection to them, the next       *)
(* serial number, the active contest, and the modal dialogs in between.    *)
(* Everything runs on the main thread, but every modal dialog runs an      *)
(* event loop of its own, so contacts that arrive from the web API and     *)
(* from WSJT-X, and the five-minute integrity timer, are handled in the    *)
(* middle of the operation the dialog belongs to.                          *)
(* Dialogs are therefore a stack of frames: only the topmost can be        *)
(* answered, the operator's commands need an empty stack, and a frame      *)
(* keeps what its caller read before it opened the dialog.                 *)
(* Saving a contact is atomic here: that is what SaveTxn shows.            *)
(***************************************************************************)
EXTENDS Naturals, Sequences, FiniteSets

CONSTANTS Files,       \* the contests' database files, one contest in each
          Format,      \* the contest's sent exchange: "WPX" or "SS"
          CheckEvery,  \* contacts between two integrity checks (50 in the code)
          MaxQSOs,     \* bound: contacts logged in a behaviour
          MaxFrames,   \* bound: dialogs the modelled events stack up
          MaxLoads     \* bound: activations of the contest in a behaviour

ASSUME ConstantsAssumption ==
  /\ Format \in {"WPX", "SS"}
  /\ CheckEvery \in Nat \ {0} /\ MaxQSOs \in Nat
  /\ MaxFrames \in Nat \ {0} /\ MaxLoads \in Nat \ {0}

VARIABLES
  files,       \* what each file holds: its rows and its AUTOINCREMENT counter
  file,        \* the file Database opened last; in use while dbOpen
  dbOpen,      \* Database::isOpen
  path,        \* m_currentContest.databasePath, lastContestPath in the settings:
               \* the file of the last activation that succeeded
  mem,         \* QSOTableModel: the rows on the screen, in order
  nextSerial,  \* m_nextSerialNumber
  active,      \* m_hasActiveContest (m_currentContestDbId is -1 when FALSE)
  contest,     \* m_activeContest: which activation made it, 0 for null
  logger,      \* contest m_qsoLogger points to, 0 before m_loggingService exists
  sinceCheck,  \* m_qsosSinceLastIntegrityCheck
  frames,      \* modal dialogs, the topmost first
  born,        \* contacts made so far; also the clock
  loads,       \* activations so far
  spent,       \* history: the serial number each contact was sent
  refused,     \* history: contacts whose save ran out of retries
  lastClear,   \* history: what the last clearing of the log removed
  misuse       \* history: uses of a contest that was destroyed

connection == <<file, dbOpen>>
session == <<path, mem, nextSerial, active, contest, logger, sinceCheck>>
history == <<spent, refused, lastClear, misuse>>
vars == <<files, file, dbOpen, path, mem, nextSerial, active, contest, logger,
          sinceCheck, frames, born, loads, spent, refused, lastClear,
          misuse>>

NoId == 0                  \* QSO::id of a row that was never stored (-1)

\* A contact: its id, which contact it is, its timestamp, how often it was
\* edited, and the exchange that was sent
Row == [id : Nat, qso : Nat \ {0}, t : Nat, ed : 0 .. 1, sent : Seq(Nat)]

Store == [rows : SUBSET Row, last : Nat]

NoBackup == [taken |-> FALSE, qsos |-> {}]
Backup == [taken : BOOLEAN, qsos : SUBSET Nat]
Frame == [kind : {"askBackup", "backupFailed"}, valid : BOOLEAN, asked : Nat]
           \cup [kind : {"confirmClear"}, valid : BOOLEAN, asked : Nat, backup : Backup]
           \cup [kind : {"edit"}, row : Nat \ {0}, rec : Row, contest : Nat]
           \cup [kind : {"saveIssue"}, checked : BOOLEAN, mults : BOOLEAN]
           \cup [kind : {"choose", "mismatch", "error"}]

TypeOK ==
  /\ files \in [Files -> Store] /\ file \in Files /\ path \in Files
  /\ dbOpen \in BOOLEAN
  /\ mem \in Seq(Row)
  /\ nextSerial \in Nat \ {0}
  /\ active \in BOOLEAN
  /\ contest \in Nat /\ logger \in Nat /\ sinceCheck \in Nat
  /\ frames \in Seq(Frame)
  /\ born \in Nat /\ loads \in Nat
  /\ spent \in SUBSET [qso : Nat \ {0}, serial : Nat, load : Nat, file : Files]
  /\ refused \in SUBSET Nat
  /\ lastClear \in [deleted : SUBSET Nat, asked : Nat, backup : Backup]
  /\ misuse \in SUBSET {"log", "edit", "issue"}

Qsos(rows) == {r.qso : r \in rows}
MemRows == {mem[i] : i \in DOMAIN mem}

\* The rows of the contest whose log the table shows
db == files[path].rows

Init ==
  /\ files = [f \in Files |-> [rows |-> {}, last |-> 0]]
  /\ path \in Files /\ file = path /\ dbOpen = TRUE
  /\ mem = <<>> /\ nextSerial = 1
  /\ active = TRUE /\ contest = 1 /\ logger = 1 /\ loads = 1
  /\ sinceCheck = 0 /\ frames = <<>> /\ born = 0
  /\ spent = {} /\ refused = {} /\ misuse = {}
  /\ lastClear = [deleted |-> {}, asked |-> 0, backup |-> NoBackup]

-----------------------------------------------------------------------------
(* Sent exchanges.  Both serial-number contests send more than the number:  *)
(* "599 001" in CQ WPX, "1 M 62 WWA" in the Sweepstakes.                    *)

SentExchange(n) == IF Format = "WPX" THEN <<599, n>> ELSE <<n, 62>>

\* QString::toInt: 0 stands for "not a number", as in the caller
ToInt(sent) == IF Len(sent) = 1 THEN sent[1] ELSE 0

SerialsIn(rows) == {0} \cup {ToInt(r.sent) : r \in rows}
Greatest(numbers) == {m \in numbers : \A n \in numbers : n <= m}

\* ContestManager::calculateNextSerialNumber, as the set of its one value
NextSerialAfter(rows) == {m + 1 : m \in Greatest(SerialsIn(rows))}

-----------------------------------------------------------------------------
(* Dialogs                                                                  *)

Push(f) == frames' = <<f>> \o frames
Pop == frames' = Tail(frames)
Replace(f) == frames' = <<f>> \o Tail(frames)
Top(kind) == frames # <<>> /\ Head(frames).kind = kind
Room == Len(frames) < MaxFrames
Idle == frames = <<>>

-----------------------------------------------------------------------------
(* Logging a contact from the entry line or from the web API                *)

NewRow(id, t, sent) ==
  [id |-> id, qso |-> born + 1, t |-> t, ed |-> 0, sent |-> sent]

\* The counter after a contact: the coordinator checks every CheckEvery
\* contacts, but only when there is a contest
ChecksNow == active /\ sinceCheck + 1 >= CheckEvery
Counted(checked) == sinceCheck' = IF checked THEN 0 ELSE sinceCheck + 1

\* QSOPersistenceService::saveQSO can succeed only on an open database and
\* for a contest the file knows (foreign key)
CanSave == dbOpen /\ active

\* QSORepository::saveQSO: the row goes to the file that is open, under the
\* next id of that file
NextId == files[file].last + 1
Insert(r) ==
  files' = [files EXCEPT ![file] = [rows |-> @.rows \cup {r}, last |-> r.id]]

Sent == [qso |-> born + 1, serial |-> nextSerial, load |-> loads, file |-> path]

\* Slip: the serial number is not advanced after the contact
LoggedSameSerial ==
  /\ born' = born + 1 /\ spent' = spent \cup {Sent}
  /\ UNCHANGED nextSerial

\* The part of QSOLoggingService::logQSO and updateUIAfterQSOLogged that
\* does not depend on how saving went.  A QSOLogger whose contest was
\* destroyed reads freed memory: it may find either answer there.
Logged ==
  /\ born' = born + 1 /\ spent' = spent \cup {Sent}
  /\ nextSerial' \in IF logger = contest THEN {nextSerial + 1}
                                         ELSE {nextSerial, nextSerial + 1}

\* Slip: the row is shown with the id of the contact before it
LogSavedOldId ==
  /\ CanSave
  /\ Insert(NewRow(NextId, born + 1, SentExchange(nextSerial)))
  /\ mem' = Append(mem, NewRow(NextId - 1, born + 1, SentExchange(nextSerial)))
  /\ Counted(ChecksNow)
  /\ UNCHANGED <<frames, refused>>

\* Slip: the row is added to the database only
LogSavedUnseen ==
  /\ CanSave
  /\ Insert(NewRow(NextId, born + 1, SentExchange(nextSerial)))
  /\ Counted(ChecksNow)
  /\ UNCHANGED <<mem, frames, refused>>

LogSaved ==
  LET r == NewRow(NextId, born + 1, SentExchange(nextSerial))
  IN  /\ CanSave
      /\ Insert(r)
      /\ mem' = Append(mem, r)
      /\ Counted(ChecksNow)
      /\ UNCHANGED <<frames, refused>>

\* Slip: the failure is logged and the operator not told
LogRefusedSilently ==
  /\ mem' = Append(mem, NewRow(NoId, born + 1, SentExchange(nextSerial)))
  /\ Counted(ChecksNow)
  /\ UNCHANGED <<files, frames, refused>>

\* Three attempts failed: the row is shown without an id and a warning is
\* opened; the counter is updated after it is dismissed
LogRefused ==
  /\ mem' = Append(mem, NewRow(NoId, born + 1, SentExchange(nextSerial)))
  /\ refused' = refused \cup {born + 1}
  /\ Push([kind |-> "saveIssue", checked |-> ChecksNow, mults |-> contest # 0])
  /\ UNCHANGED <<files, sinceCheck>>

LogContact ==
  /\ born < MaxQSOs
  /\ Logged
  /\ LogSaved \/ LogRefused
  /\ UNCHANGED <<connection, path, active, contest, logger, loads, lastClear>>

\* onLogQSO looks at m_loggingService only
LogFromEntryLine ==
  /\ Idle /\ logger # 0
  /\ LogContact
  /\ misuse' = IF logger = contest THEN misuse ELSE misuse \cup {"log"}

\* onLogQSOFromWeb also looks at m_hasActiveContest
LogFromWeb ==
  /\ Room /\ logger # 0 /\ active
  /\ LogContact
  /\ misuse' = IF logger = contest THEN misuse ELSE misuse \cup {"log"}

\* onWSJTXQSOReady: no serial number, no dialog, the time WSJT-X started the
\* contact, and the copy that is shown never receives the id
LogFromWsjtx(t) ==
  /\ active /\ CanSave /\ born < MaxQSOs
  /\ born' = born + 1
  /\ Insert(NewRow(NextId, t, <<>>))
  /\ mem' = Append(mem, NewRow(NoId, t, <<>>))
  /\ UNCHANGED <<connection, path, nextSerial, active, contest, logger, sinceCheck, frames,
                 loads, history>>

\* The warning of LogRefused is dismissed; the rest of
\* updateUIAfterQSOLogged uses m_activeContest if it had multipliers before
DismissSaveIssue ==
  /\ Top("saveIssue")
  /\ Pop
  /\ Counted(Head(frames).checked)
  /\ misuse' = IF Head(frames).mults /\ contest = 0
                 THEN misuse \cup {"issue"} ELSE misuse
  /\ UNCHANGED <<files, connection, path, mem, nextSerial, active, contest, logger,
                 born, loads, spent, refused, lastClear>>

-----------------------------------------------------------------------------
(* Opening a contest                                                        *)

\* ORDER BY timestamp, rows of one second in id order
Before(r, s) == r.t < s.t \/ (r.t = s.t /\ r.id < s.id)
Ordered(seq) ==
  \A i, j \in DOMAIN seq : i < j => Before(seq[i], seq[j])

\* QSORepository::findByContest into QSOTableModel::setQSOs
Loaded(rows) == {seq \in [1 .. Cardinality(rows) -> rows] : Ordered(seq)}

\* activateContest succeeds: the old contest is destroyed, the connection is
\* on the new contest's file, the table is reloaded, the services are made anew
Activate(f) ==
  /\ loads < MaxLoads
  /\ loads' = loads + 1
  /\ file' = f /\ dbOpen' = TRUE /\ path' = f
  /\ active' = TRUE /\ contest' = loads + 1 /\ logger' = loads + 1
  /\ mem' \in Loaded(files[f].rows)
  /\ nextSerial' \in NextSerialAfter(files[f].rows)

\* resetContestState ran and the old file was closed, then
\* ContestManager::activateContest failed: on opening the new file, or with
\* that file open already.  The table keeps the old contest's rows.
ActivateFails(f) ==
  /\ file' = f /\ dbOpen' \in BOOLEAN
  /\ active' = FALSE /\ contest' = 0
  /\ UNCHANGED <<path, mem, nextSerial, logger, loads>>

\* reopenLastContest stops before activateContest, with the database closed
ReopenFails ==
  /\ dbOpen' = FALSE
  /\ UNCHANGED <<file, path, mem, nextSerial, active, contest, logger, loads>>

\* The operator asks for the contest chooser.  It lists the files by opening
\* each of them on the one connection, and leaves that closed.
ChooseContest ==
  /\ Idle /\ Push([kind |-> "choose"])
  /\ dbOpen' = FALSE
  /\ UNCHANGED <<files, file, session, born, loads, history>>

CancelChoice ==
  /\ Top("choose") /\ Pop
  /\ UNCHANGED <<files, connection, session, born, loads, history>>

\* A contest is chosen, the one that was open or another one
OpenContest(f) ==
  /\ Top("choose")
  /\ \/ Activate(f) /\ Pop
     \/ ActivateFails(f) /\ Replace([kind |-> "error"])
  /\ UNCHANGED <<files, sinceCheck, born, history>>

DismissError ==
  /\ Top("error") /\ Pop
  /\ UNCHANGED <<files, connection, session, born, loads, history>>

\* The program ends or is killed, and is started again: it opens the last
\* contest's file, or fails to at one of the same places
Restart ==
  /\ loads < MaxLoads
  /\ frames' = <<>> /\ sinceCheck' = 0
  /\ \/ Activate(path)
     \/ /\ file' = path /\ dbOpen' \in BOOLEAN
        /\ mem' = <<>> /\ nextSerial' = 1 /\ loads' = loads + 1
        /\ active' = FALSE /\ contest' = 0 /\ logger' = 0 /\ UNCHANGED path
  /\ UNCHANGED <<files, born, history>>

-----------------------------------------------------------------------------
(* The periodic integrity check.  Qt does not fire a timer again while its  *)
(* slot has not returned, so at most one mismatch dialog is open.           *)

CountsDiffer == Len(mem) # Cardinality(files[file].rows)

PeriodicCheck ==
  /\ \A i \in DOMAIN frames : frames[i].kind # "mismatch"
  /\ active /\ dbOpen /\ CountsDiffer
  /\ Push([kind |-> "mismatch"])
  /\ UNCHANGED <<files, connection, session, born, loads, history>>

\* "Reload contest now?"
AnswerMismatch ==
  /\ Top("mismatch")
  /\ \/ /\ Pop
        /\ UNCHANGED <<connection, path, mem, nextSerial, active, contest, logger, loads>>
     \/ Pop /\ (Activate(path) \/ ReopenFails)
     \/ Replace([kind |-> "error"]) /\ ActivateFails(path)
  /\ UNCHANGED <<files, sinceCheck, born, history>>

-----------------------------------------------------------------------------
(* Editing a row                                                            *)

StartEdit(i) ==
  /\ Idle /\ i \in DOMAIN mem
  /\ mem[i].id # NoId /\ mem[i].ed = 0
  /\ Push([kind |-> "edit", row |-> i, rec |-> mem[i], contest |-> contest])
  /\ UNCHANGED <<files, connection, session, born, loads, history>>

CancelEdit ==
  /\ Top("edit") /\ Pop
  /\ UNCHANGED <<files, connection, session, born, loads, history>>

\* updateQSO: UPDATE ... WHERE id = ? on the file that is open
Written(rows, edited) == {IF r.id = edited.id THEN edited ELSE r : r \in rows}

\* The dialog validates with the contest it was opened with, the row is
\* written to the database and then to the table position it was read from.
\* Nothing asks whether a contest is active.
AcceptEdit ==
  LET f == Head(frames)
      edited == [id |-> f.rec.id, qso |-> f.rec.qso, t |-> f.rec.t, ed |-> 1,
                 sent |-> f.rec.sent]
  IN  /\ Top("edit") /\ Pop
      /\ misuse' = IF f.contest \notin {0, contest} THEN misuse \cup {"edit"} ELSE misuse
      /\ \/ /\ dbOpen /\ \E r \in files[file].rows : r.id = edited.id
            /\ files' = [files EXCEPT ![file].rows = Written(@, edited)]
            /\ mem' = [i \in DOMAIN mem |-> IF i = f.row THEN edited ELSE mem[i]]
         \/ UNCHANGED <<files, mem>>
      /\ UNCHANGED <<connection, path, nextSerial, active, contest, logger, sinceCheck,
                     born, loads, spent, refused, lastClear>>

-----------------------------------------------------------------------------
(* Clearing the log: one question after the other                           *)

StartClear ==
  /\ Idle /\ mem # <<>>
  /\ Push([kind |-> "askBackup", valid |-> active, asked |-> born])
  /\ UNCHANGED <<files, connection, session, born, loads, history>>

Confirm(b) ==
  Replace([kind |-> "confirmClear", valid |-> Head(frames).valid,
           asked |-> Head(frames).asked, backup |-> b])

\* Slip: only rows of the table that have an id are backed up
BackupOfTable == Qsos({r \in MemRows : r.id # NoId})

\* BackupManager::createBackup: VACUUM INTO copies the file that is open,
\* whatever contest the backup is named after
BackupNow == Qsos(files[file].rows)

AnswerBackup ==
  /\ Top("askBackup")
  /\ \/ Pop
     \/ Confirm(NoBackup)
     \/ dbOpen /\ Confirm([taken |-> TRUE, qsos |-> BackupNow])
     \/ Replace([kind |-> "backupFailed", valid |-> Head(frames).valid,
                 asked |-> Head(frames).asked])
  /\ UNCHANGED <<files, connection, session, born, loads, history>>

AnswerBackupFailed ==
  /\ Top("backupFailed")
  /\ Pop \/ Confirm(NoBackup)
  /\ UNCHANGED <<files, connection, session, born, loads, history>>

DeclineClear ==
  /\ Top("confirmClear") /\ Pop
  /\ UNCHANGED <<files, connection, session, born, loads, history>>

\* deleteAllQSOs of the contest id read at the start, which matches no row
\* when there was no contest; then the table is emptied.  What it lost are the
\* rows deleted and the rows that were on the screen only.
ClearLog ==
  LET f == Head(frames)
  IN  /\ Top("confirmClear") /\ Pop
      /\ dbOpen
      /\ files' = IF f.valid THEN [files EXCEPT ![file].rows = {}] ELSE files
      /\ mem' = <<>>
      /\ lastClear' = [deleted |-> (IF f.valid THEN Qsos(files[file].rows) ELSE {})
                                     \cup (Qsos(MemRows) \ Qsos(db)),
                       asked |-> f.asked, backup |-> f.backup]
      /\ spent' = IF f.valid THEN {a \in spent : a.file # file} ELSE spent
      /\ UNCHANGED <<connection, path, nextSerial, active, contest, logger, sinceCheck,
                     born, loads, refused, misuse>>

\* The database refused; an error is shown
ClearFails ==
  /\ Top("confirmClear")
  /\ Replace([kind |-> "error"])
  /\ UNCHANGED <<files, connection, session, born, loads, history>>

-----------------------------------------------------------------------------
Next ==
  \/ LogFromEntryLine \/ LogFromWeb
  \/ \E t \in {0, born + 1} : LogFromWsjtx(t)
  \/ DismissSaveIssue \/ DismissError
  \/ ChooseContest \/ CancelChoice \/ \E f \in Files : OpenContest(f)
  \/ Restart
  \/ PeriodicCheck \/ AnswerMismatch
  \/ \E i \in DOMAIN mem : StartEdit(i)
  \/ CancelEdit \/ AcceptEdit
  \/ StartClear \/ AnswerBackup \/ AnswerBackupFailed \/ DeclineClear
  \/ ClearLog \/ ClearFails

Spec == Init /\ [][Next]_vars

-----------------------------------------------------------------------------
(* What holds                                                               *)

(* An id on the screen names the contact it names in the file of the        *)
(* contest that is shown, so as long as that file is the open one, editing  *)
(* a row can only change that contact (updateQSO's WHERE id = ?).  While a  *)
(* contest is active it is; a failed activation may leave another one open. *)
ShownIdsAreStored ==
  /\ \A i \in DOMAIN mem : mem[i].id # NoId =>
       \E r \in db : r.id = mem[i].id /\ r.qso = mem[i].qso
  /\ active => file = path

(* No edit dialog outlived the contest it was opened in.                    *)
NoStaleEdit == "edit" \notin misuse

(* Every stored contact is on the screen, and once, while a contest is      *)
(* active: what the operator checks for duplicates against is complete.     *)
StoredAreShown ==
  NoStaleEdit /\ active =>
    /\ Qsos(db) \subseteq Qsos(MemRows)
    /\ Cardinality(MemRows) = Cardinality(Qsos(MemRows))
    /\ Len(mem) = Cardinality(MemRows)

(* The integrity check compares two counts only.  They agree exactly when   *)
(* the table and the open file hold the same contacts: no loss and no       *)
(* surplus on one side can hide behind one on the other.                    *)
CountsTellTheTruth ==
  NoStaleEdit /\ active =>
    (~CountsDiffer <=> Qsos(MemRows) = Qsos(files[file].rows))

(* Between two activations a serial number is sent once, whatever is logged *)
(* from the web while a dialog of the entry line is open.                   *)
SerialsAdvance ==
  \A a, b \in spent :
    a.load = b.load /\ a.serial = b.serial /\ "log" \notin misuse => a = b

(* The web API never logs with a contest that was destroyed.                *)
ActiveIsWhole == active => contest # 0 /\ logger = contest

(* A backup taken while clearing holds every stored contact the clearing    *)
(* then deletes, except those logged after the question was asked.          *)
BackupCoversOlder ==
  lastClear.backup.taken =>
    \A q \in lastClear.deleted :
      q <= lastClear.asked => q \in lastClear.backup.qsos \/ q \in refused

(* A contact that is in memory only was refused by the database: the        *)
(* program has warned about it (the warning of updateUIAfterQSOLogged),     *)
(* whatever was edited, cleared, reloaded or opened since.                  *)
OnlyRefusedAreLost ==
  \A i \in DOMAIN mem : mem[i].qso \in Qsos(db) \cup refused

-----------------------------------------------------------------------------
(* What the documentation says and the code does not do                     *)

(* ContestManager.cpp: reopening a contest does not reuse serial numbers.   *)
SerialsNotReused ==
  \A a, b \in spent :
    a.serial = b.serial /\ a.file = b.file /\ misuse = {} => a = b

(* updateQSO: an edit changes the contact it was opened on.                 *)
EditsStayHome ==
  \A i \in DOMAIN mem : mem[i].id # NoId /\ dbOpen =>
    \A r \in files[file].rows : r.id = mem[i].id => r.qso = mem[i].qso

(* An accepted edit replaces the row it was opened on: no contact is shown  *)
(* twice, none disappears.                                                  *)
EditKeepsRows ==
  active => /\ Qsos(db) \subseteq Qsos(MemRows)
            /\ \A i, j \in DOMAIN mem : mem[i].qso = mem[j].qso => i = j
=============================================================================
