# TR4QT: specifications, checks and proofs

TR4QT is a contest logger for amateur radio, written in C++ with Qt. This directory holds TLA+
models of the parts of it in which state is shared between callbacks, threads, dialogs and a
database, the TLC configurations that check them on small instances, and TLAPS proofs of the main
safety properties for every value of the constants. Source paths below are relative to
`src/src/`.

`PROJECT.json` lists, for every definition, the lines it models; every run and its properties; one
mutation of the code per property that makes the property fail; the hazards found while reading;
and the theorems.

## 1. The system

### 1.1 Threads and event loops

Almost everything runs on Qt's main thread. Three things make that less sequential than it looks:

* **Nested event loops.** Every modal dialog (`exec`, `DialogHelper`), every reachability probe
  (`RadioPreflightHelper`) and every `processEvents` runs the event loop inside the function that
  called it. Timers, web requests, WSJT-X datagrams and signals of worker threads are handled in
  the middle of that function.
* **Worker threads.** Each radio (`HamlibRadio`), the keyer device, the iambic keyer, the CW
  senders, the spot processor and the WSJT-X highlighter live on threads of their own. Calls to
  them are queued; their signals are posted back.
* **Posted signals outlive their sender.** A signal that was posted is delivered even if the
  object that sent it has since been replaced.

### 1.2 Inventory

| Component | State | Operations | Interacts with | What is hard |
|---|---|---|---|---|
| QSO store: `data/QSORepository`, `DatabaseTransaction`, `Database`, `services/QSOPersistenceService` | table `qsos`, AUTOINCREMENT counter, open transaction, attempt counter | save with retries, update, delete all, open, close | SQLite; callers on the main thread | a ROLLBACK nobody checks, a retry after a late failure, a crash between COMMIT and answer |
| Logging session: `ui/MainWindow`, `services/QSOLoggingService`, `controllers/QSOLogger`, `ContestManager`, `ui/models/QSOTableModel` | rows on the screen, next serial number, active contest, service objects, open dialogs | log (entry line, web, WSJT-X), open and reopen a contest, edit | store, contest rules, broadcasts, web server | events inside dialogs; objects read before a dialog and used after it |
| Integrity and maintenance: `controllers/DataIntegrityManager`, `services/MaintenanceService` | counter since the last check, what a clear asked | compare counts, clear log with backup | table and store | two counts that change at different moments; two questions with a backup between |
| Backup and restore: `data/BackupManager`, `ui/dialogs/BackupRestoreDialog` | backup files, the contact count at the last one, the files a restore moves | automatic and manual backup, rotation, restore | session, SQLite's WAL, workers with connections of their own | counts that change without a backup; a restore that stops between two file operations |
| Radios: `controllers/RadioManager`, `radio/RadioController`, `utils/ReconnectionManager`, `radio/HamlibRadio` | active radio, auto-reconnect, per radio: shown, shutdown flag, timer, queue, link | connect, disconnect, switch, loss, retry | worker threads, window, broadcasts | a disconnect during a probe; stale signals; a retry that must not be forgotten |
| UDP broadcast: `network/UdpBroadcastManager`, `UdpBroadcaster` | per radio pending and last sent state, throttle and heartbeat timers | radio state, contact, settings, timers | RadioManager's signals, the network | throttling without losing news; a skipped heartbeat |
| Iambic keyer: `keyers/IambicKeyer` | element state, paddles, latches, snapshots | paddle change, two timers | paddle device, CW output | latches under snapshots of other moments |
| Keyer link: `keyers/KeyerController` and its devices | device, saved configuration, reconnect timer, flags | connect, disconnect, reconnect | worker thread, WinKeyer, paddles | a blocking cleanup; signals of a replaced device |
| CW sending: `services/CWService`, `cw/*` | output mode, the sender's state on the main thread, the worker's port, encoder and key line | send, Escape, paddle tones, change of profile | iambic keyer, radios, Preferences | three threads set one line; the main thread's copy of the state lags behind |
| Icom radio: `radio/icomnetwork`, `IcomRadio` | session state, tokens, two sockets, timers | search, login, request a stream, open CI-V, command, end | UDP, the radio's own session | lost, late and repeated answers that nothing recognises |
| Other network radios: `K4Radio`, `KenwoodRadio` | what was last read | commands | TCP | many commands, little control |
| DX cluster connection: `network/TelnetClient`, `ui/widgets/DXClusterWindow`, `utils/ReconnectionManager` | socket, login flag and timer, retry timer, button | connect, disconnect, log in, lose, retry | client on a thread of its own | queued commands against an asynchronous socket; stale signals |
| Spots: `services/SpotProcessorWorker`, `SpotCollectorService`, `ui/widgets/DXClusterWindow` | batches, what was worked, the start of the worker | start, context, contact, spot | worker thread, session, band map | a context that comes before the worker has its file; caches stale against the log |
| WSJT-X: `network/WSJTXUdpClient`, `controllers/WSJTXController`, `services/WSJTXHighlightWorker` | decode cache, what was worked, highlights | connect, decode, logged contact | session, worker thread | highlights computed from an old log |
| Web server and headless server: `network/WebServer`, `WebServerContext` | a second copy of the session state | HTTP requests | store, contest manager | the same invariants as the session without its window |
| Amplifiers and rotators: `amplifiers/*`, `controllers/KPA1500UdpPoller`, `AmplifierController`, `RotatorController` | poll state, followed band | poll, timeout, follow band | UDP, serial | a timeout racing a late answer |
| Scoring: `controllers/QSOLogger`, `DataIntegrityManager`, `services/ScoreCalculationService`, `contests/*`, the import of `controllers/ImportExportManager` | duplicate flag, points and claims of every row, in the table and in the file | score a contact, rescore the log, import, edit | session, store | two implementations of one rule; an order that changes at a restart; a rescore that stops in the middle |
| Exchange parsing and memory | per call, plus caches over tables | parse, predict | session | many rules |
| Reference data, downloads, import and export, settings, logging framework, dialogs, panadapter, audio | files and tables | look-up, download, format, render | all | little control; file rotation under a mutex |

Correctness, component by component, in one sentence each: the store keeps what it said it keeps;
the screen, the file and the serial number agree; the counts differ when, and only when,
the two drift apart; backups keep up with the log and a restore never loses it; a disconnect is
final and a loss is retried; listeners hear the last state and are not flooded; the key never stays
down and the elements are those that were keyed; the keyer controller's word agrees with its device;
Escape silences a message and nothing else keys the transmitter; a cluster connection is kept, ended
and logged in as the operator asked; workers remember as worked what the log says; a session with an
Icom radio is ended at the radio and nothing outlives it; scoring contact by contact and rescoring
the log come to the same.

### 1.3 What is modelled

Modelled in this directory: the store, the session, integrity and maintenance, backup and restore,
the radios, the UDP broadcast, the iambic keyer, the keyer link, CW over a serial line, the cluster
connection, what the two workers know of the log, the Icom session, the contests' rules and scoring.
Each of these is modelled in part: section 6 says what is left out of it. Every other component is
listed in `PROJECT.json` with the reason it is left out or its place in the plan (section 7).

## 2. Modules

| Module | Models | Extends or uses |
|---|---|---|
| `LogStore` | what the storage layer promises: three atomic operations and a refusal | – |
| `SaveTxn` | the statements, retries and failures of one write | `INSTANCE LogStore` as its abstract specification |
| `QsoLog` | the operating session above the store | takes a save as atomic, which `SaveTxn` justifies; `MCQsoLog` gives the symmetry |
| `RadioLink` | connect, loss, retry and disconnect of the radios | – |
| `UdpBroadcast` | what listeners hear about the radios | `MCUdpBroadcast` gives the dials for TLC |
| `IambicKeyer` | the software keyer | – |
| `KeyerLink` | the keyer controller and its worker thread | – |
| `ContestRules` | points, multipliers, duplicate key and score of the registered contests, as operators | – |
| `LogScoring` | scoring as contacts come against rescoring the log | extends `ContestRules`; `MCLogScoring` gives the station and the contacts for TLC |
| `ClusterLink` | the DX cluster connection, both threads | – |
| `CWSending` | messages and paddle tones over the serial line, three threads | the tones are those of `IambicKeyer`, abstracted to down and up |
| `LogBackup` | backups, rotation and restore, file by file | the session as contacts that are logged, counted and cleared |
| `WorkedMarks` | what the spot worker and the WSJT-X highlighter remember as worked | the session of `QsoLog`, abstracted to saved and refused contacts; `MCWorkedMarks` gives the symmetry |
| `IcomSession` | the session with an Icom radio over UDP | – |
| `SaveTxnProofs`, `QsoLogProofs`, `UdpBroadcastProofs`, `CWSendingProofs` | theorems and proofs | the module they are named after |
| `KeyerProofs` | theorems and proofs | `IambicKeyer` and `KeyerLink` |
| `RadioProofs` | theorems and proofs | `RadioLink` and `IcomSession` |
| `ClusterProofs` | theorems and proofs | `ClusterLink` and `WorkedMarks` |
| `LogFileProofs` | theorems and proofs | `LogBackup` and `LogScoring` |

An operator whose comment begins "Slip:" or "Mutant of" is not part of a model. It is the variant of the
operator below it that a plausible programming error would produce, and shows that a property
notices it.

### LogStore and SaveTxn

`SaveTxn` follows `QSORepository::saveQSO`, `updateQSO` and `deleteAllQSOs` statement by statement
(`Begin`, `Exec`, `Verify`, `Commit`, `Rollback`, each with its failure), inside the retry loop of
`QSOPersistenceService::saveQSO` (`GiveUp` ends it). SQLite is external: `work` is the
connection's private copy of the table `disk` while `inTxn`. `Crash` may come between any two
statements, `Close` and `Open` when no operation runs. A failing ROLLBACK leaves the transaction
open, as the destructor of `DatabaseTransaction` does, which reads no result. `owed`, `given` and
`refused` record what callers were told. A crash between COMMIT and the return kills the caller
with it, so "told" and "durable" are one step.

### QsoLog

The stack `frames` holds the modal dialogs, topmost first; a frame keeps what its caller read
before the dialog (the edited row and its number, the backup already taken). The operator's
commands need an empty stack (`Idle`); contacts from the web and WSJT-X and the integrity timer
need none. Every contest has a database file (`files`), and there is one connection: `file` is the
file it opened last, `dbOpen` whether it is open, `path` the file of the contest whose rows the table
shows. `Activate` is the whole of `MainWindow::activateContest` with the serial number recovered from
the stored exchanges (`NextSerialAfter`, with `ToInt` as `QString::toInt`: a text that is not a
number is 0). `ActivateFails` may leave the connection closed or on the other contest's file while the
table keeps its rows and can still be edited. The contest chooser lists contests over the same
connection and closes it (`ChooseContest`); deleting a contest in it is left out. Integrity is
compared by counts, as the code does. `misuse` records uses of a contest object after it was
destroyed: what such a use does is undefined, so two properties speak only of behaviours without it.

### RadioLink

`frames` holds main-thread handlers that are inside an event loop: `connectRadio` and
`disconnectRadio` at their `processEvents`, and `connectToRadio` in its probe. `jobs[r]` and `busy` are
the queue of radio r's worker and its `rig_open` in progress; `inbox` are the signals posted to the main
thread. `Recreate` is `recreateRadio`: the old radio's signals are cut, those already posted still
arrive. Assumed: the probe's two seconds are shorter than the retry timer's ten, so a timer does
not fire for a radio whose own probe is open (`Timeout`).

### UdpBroadcast

A radio's state is its dial, 0 standing for "no data yet". Time is counted in ticks; a timer that
is due fires before the clock advances. `RadioReports` does what `RadioManager` and the two slots
of the manager do together: the state is queued under the radio's number and, for the active
radio, once more under the number the manager believes active (`announcer`). `Send` may fail, in
which case the state stays unsent. `Slack` is the margin between the wall clock and the timer with which
`onHeartbeatTimeout` decides to skip a beat.

### IambicKeyer

Pairs of Booleans of the code are sets of paddles. `UpdatePaddleState` chooses by state, or takes
the watchdog's reset (`ResetStuck`), which the model allows at any time since durations are
left out. `NextTone` is `determineNextToneDuration`: alternate, else repeat, else the squeeze of
mode B. `moved` says whether the keyer was moved to another thread after its timers were
constructed; `Started` then starts nothing. It is chosen at the start: `CWService`, the class's only
user, always moves it, and the class itself is written for both. The properties of the runs and the
theorems are about which elements are sent and hold of both kinds; that an element ever ends is true
of the kind the program does not have only, and is neither a run's property nor a theorem (section 4,
`StuckKey`). The history variables `fresh`, `owed` and `extra` remember presses and elements for the
properties.

### KeyerLink

The device's open and close are jobs of the worker; `main` names the caller that waits in
`cleanupDevice` for the blocking call, and no slot of the main thread runs meanwhile. `OpenSucceeds` emits
"connected" before `ReadCaps` takes the mutex, as in the lambda of `connectKeyer`. A WinKeyer says
"disconnected" whenever it is closed, a HaliKey only if it was open. Only a WinKeyer's loss is
noticed (`Unplug`): the serial HaliKey would notice by polling, but its timer, a member without a
parent, stays on the main thread when the device is moved to the worker and never starts there; a MIDI
paddle has no such news. An unplugged HaliKey therefore goes on saying that it is open. `lost` remembers
which device went. A port name is taken to be configured; without one `attemptReconnect` only stops
its timer.

### ContestRules and LogScoring

`ContestRules` holds `calculateQSOPoints`, `getMultiplierTypes`, `getMultiplierValue`,
`getDuplicateCheckingRule` and `calculateTotalScore` of the seventeen contests the registry
offers, as functions of what they read of a contact and of the station. Fractions that the code
cuts to integers are cut (`ModeShare`).

In `LogScoring` a row has an id, a time, the contact, and the three fields scoring writes: `dupe`,
`points` and `mults`. `table` is in the order of the screen, `fileRows` is a set: `findByContest` sorts
by time, and rows of one time by id (`Before`, `ByTime`). The edit dialog may change everything of a
contact but its country (`Edited`). `LogQSO` is `QSOLogger::logQSO` over the rows of the table.
`WsjtxQSO` and `Import` store contacts unscored, and what `WsjtxQSO` shows is a copy without an id:
such rows are `unlinked`, and no rescore of the window can write them. A rescore is a `job` that takes
one row at a time (`RescoreRow`), each written in a transaction that may be refused, and `EndRescore`
hands the rows back. The station is not the same everywhere: logging and the import's rescore score
for `Home`, as cty.dat knows the operator's call; the window's rescore and an activation's take the
continent from the settings, which may name any of `SettingConts`, and have no ITU zone
(`WindowStation`). `Activate` may come in the middle of a rescore, which stands for the end of the
program and its restart: what was in memory is lost, the file stays as far as it was written. The
history variables `clean` and `stale` say when the rows were last scored in order, and which rows the
database refused.

### ClusterLink

`cmds` are the calls the window posts to the client, `posted` the signals it posts back. The
socket is external: `sock` has the four states in which `QTcpSocket` answers differently, a close
may be immediate or wait for bytes, and a close while connecting is remembered (`closeOnOpen`).
`ConnectToServer` has one disjunct for each way `connectToServer` can end; `OnTimeout` is
`ReconnectionManager::onTimeout` with the window's two handlers, the second of which is
`onConnectClicked` and resets the manager. The server goes away and comes back by itself. A call
sign for the automatic login is taken to be configured. `wanted`, `logins` and `tries` are history.

### CWSending

Three queues: `paddled` from the keyer's thread to the sender, `requests` from the sender to its
worker, `posted` back. `encoder` and `left` are the Morse encoder with a message of `left` more elements;
`line` is the DTR or RTS line, which both the encoder and the paddle set. `DestroySender` and
`ActivateCWProfile` are the two halves of a change of profile, between which the keyer's thread
may run. `ptt` is what a CAT profile does with the tones. `escaped` and `overlap` remember whether
Escape came after the last message and whether that message replaced another.

### LogBackup

`file` is the database, `wal` the write-ahead log beside it, `broken` the safety copy of the last
restore; each is a set of contacts or says that there is none. SQLite is external: a commit goes to
the WAL, the last connection that closes moves it into the file, and whoever opens the path reads
the WAL that lies there (`Rows`). `AutoBackup` compares the count on the screen with the one
remembered, as `autoBackupIfNeeded` does, `Take` rotates by the time in the name (`Newest`), and a
full disk leaves an empty file that the validation before a restore accepts. `restoreFromBackup` is
one action per file operation (`BeginRestore` to `Reopen`), so that `Quit` can stand for the end of the
program between any two; a worker's connection (`AskWorker`, `OpenWorker`) opens when it likes. One
directory is taken to hold all backups. `owed`, `untouched`, `steady` and `slack` are history: the
contacts that are promised, whether a worker or a second restore has spoilt the only copy of them,
whether the remembered count still says anything, and how many contacts came without a backup being
asked for. The properties hold under these conditions and, without them, not (section 4).

### WorkedMarks

Contacts are `Typed` at the entry line or on the web, or `Automatic` from WSJT-X; each contest has a file. A
contact stands for its duplicate key. `queue` of a worker is its thread's queue of calls,
`cache` what it remembers. `Received` is one such call; opening the file may fail, which is only
logged and leaves the worker without one. `Rebuilt` reads the log as it is when the worker gets to it,
not when it was asked. `stage` follows the start of the spot worker over its
four messages, and `pending` is the context that came too early. `Save` and `Post` are the two parts of
`updateUIAfterQSOLogged` between which the worker may run; `Refuse` and `Dismiss` have the warning's
event loop between them. `WsjtxConnects` stands for every first heartbeat, whatever the loss before
it. `spotsTold` and `highlightsTold` are history: the worker was told of the active contest and the
log has not been cleared, edited or imported into since. Duplicates are taken to be decided by an
equal key, which Sweepstakes (any mode) does not do, and the caches of multipliers are left out.

### IcomSession

Every datagram the program sent stays in the set `sent`, and the radio may answer any of them at any
time and again: loss, delay, repetition and reordering need no actions of their own. An answer
reaches only the socket that asked (`Asked`, `CivAsked`), since every socket has a port of its own, and a
token is named by the request it answers. The actions are the branches of `processControlPacket` and
`processCivPacket`, the timers, and `Cleanup` with what `disconnectFromRadio` says before it
(`Goodbyes`). A second grant of a stream makes a second CI-V socket and watchdog, and the code forgets
the first ones without closing them: `bound` and `leaked` keep them. Pings, idle packets and renewals
change nothing and are flags that say whether their timers run. The host name is taken to resolve,
and the radio's list to have one entry.

## 3. Runs

All runs are `tlc -workers 2 -config <cfg> <module>`.

| Run (`.cfg`) | Module | Question | Bounds |
|---|---|---|---|
| `SaveTxn` | SaveTxn | Is the durable table what callers were told, through failures and crashes, and do the statements implement `LogStore`? | 2 contacts, 2 contents, 3 attempts |
| `QsoLog` | MCQsoLog | Do table, file, serial number and services stay in step whatever arrives inside a dialog and whichever file is open, and does comparing counts find drift? | 2 files, 3 contacts, 2 dialogs, 2 activations, check after 2 contacts |
| `LogScoring` | MCLogScoring | Do logging and rescoring agree, and the table and the file? | 5 contests, 3 contacts of 4 kinds, 2 times, 2 continents in the settings, 1 edit, unscored arrival, refusal or restart |
| `LogBackup` | LogBackup | Does a restore keep the log somewhere and bring back what was chosen, and do the backups keep up? | 3 contacts, a backup every 2, 1 backup kept, 1 disk fault, 1 set-back of the clock |
| `RadioLink` | RadioLink | Does a disconnected controller stay down, is an open rig shown, is an announced retry made, and is there no deadlock? | 2 radios, one networked; 2 nested loops; 2 posted signals and jobs |
| `ClusterLink` | ClusterLink | Does a disconnect hold, do the buttons follow the socket, is the login always sent, does a lost connection come back? | 3 clicks, 2 outages, 2 queued calls or signals when a retry fires |
| `WorkedMarks` | MCWorkedMarks | Do the two workers remember what the log says? | 2 contests opened twice in all, 2 typed contacts, 1 of WSJT-X, which connects twice |
| `IcomSession` | IcomSession | Is the right CI-V port used, are tokens their login's, is every session ended at the radio and nothing said after it? | 2 sessions, 2 questions, 2 logins, 2 CI-V ports, 1 bind that fails |
| `UdpBroadcast` | MCUdpBroadcast | Is news throttled but never forgotten, is the heartbeat kept, do listeners end up with the true state? | 2 radios with one dial each, throttle 1, heartbeat 3, slack 1 |
| `IambicKeyer` | IambicKeyer | Are the elements those that were keyed, and is at most one sent after the paddles are up? | none: the state space is finite |
| `KeyerLink` | KeyerLink | Does the controller's word agree with the device, does a lost WinKeyer come back, does the blocking cleanup return? | 1 WinKeyer, 1 HaliKey, 2 posted signals |
| `CWSending` | CWSending | Is the line keyed only by elements and tones, does Escape silence a message, does the sender become idle? | messages of up to 2 elements, 4 acts of the operator, 2 queued tones |

All twelve pass. What they show:

* `SaveTxn.cfg`: `DiskIsWhatWasTold` for the store, and `StoreSpec`, the refinement of `LogStore`, which
  never gives an id twice.
* `QsoLog.cfg`: an id on the screen names the contact it names in the file of the contest that is
  shown, which is the open one while a contest is active (`ShownIdsAreStored`), every stored contact is
  then shown once (`StoredAreShown`), two counts agree only if table and file do
  (`CountsTellTheTruth`), serial numbers do not repeat between activations (`SerialsAdvance`), a backup
  holds what existed when it was offered (`BackupCoversOlder`), and only contacts the operator was
  warned about can be missing from the file (`OnlyRefusedAreLost`).
* `LogScoring.cfg`: duplicates and claims are those of a definition over the finished table, however
  the rows got there, and every row has the points of a station it may have been scored for
  (`ScoredInOrder`); the claims marked on the rows are the multipliers the score counts, when every
  contact has a band (`ClaimsMakeTheScore`, of every contest but Sweepstakes, which marks them all);
  sorting the log by time and rescoring it, as every restart does, moves claims but keeps the score
  (`RestartKeepsScore`), provided that the rows have the points of the station the restart scores for,
  that contacts with one call have one country and ITU zone, which an edit can spoil, and that in
  Sweepstakes every contact has a band (`OrderIsFree`); the screen and the file have the same contacts
  at the same times, and the same scores but for those the database refused to update and those of
  WSJT-X's contacts, which stay unscored in the file until the log is read again
  (`FileFollowsTable`).
* `LogBackup.cfg`: every contact is in the database or in the safety copy whatever becomes of a
  restore (`LogSurvivesRestore`), a restore that succeeds leaves the chosen backup's contacts and no
  others (`RestoredIsTheBackup`), and the best backup lacks fewer contacts than the interval, besides
  those the code asks no backup for (`BackupsKeepUp`).
* `RadioLink.cfg`: `StoppedStaysDown`, `LinkedIsShown`, `RetriesContinue`; with deadlock checking.
* `ClusterLink.cfg`: `DisconnectHolds`, `StatusCatchesUp`, and the liveness properties `LoggedIn` and
  `ConnectionReturns`.
* `WorkedMarks.cfg`: a worker that was told of the active contest and could open its file knows every
  contact of its kind, or the message is on its way, and the marks it adds are contacts
  (`SpotsShowTheLog`, `HighlightsShowTheLog`).
* `IcomSession.cfg`: the CI-V socket has a port the radio was told of in this session
  (`CivPortIsTold`), the radio gets the disconnect of every session and the close of every stream
  (`EndIsAnnounced`) and nothing after it (`NothingAfterEnd`), and tokens are not mixed up as long as
  there was one login (`TokensBelong`).
* `UdpBroadcast.cfg`: `NeverSilent`, the action property `Throttled`, and `ListenersCatchUp`
  (liveness), with two radios that the operator switches between. `ListenersCatchUp` is about a radio
  under whose number no other reports (`HasItsNumber`); after a profile was applied two may, and
  `BorrowedNumber.cfg` shows what listeners then keep.
* `IambicKeyer.cfg`: the action properties `SentIsAsked` and `OppositeIsNext`, and `OneMoreAtMost`.
* `KeyerLink.cfg`: `ConnectedIsOpen`, `LinkComesBack` (of a WinKeyer), `CleanupReturns`.
* `CWSending.cfg`: `KeyedIsMeant`, `EscapeStopsOne`, `ComesToIdle`.

Properties that are proved and not repeated in the runs: type correctness of all twelve components;
`StoredOnce`, `IdsMeanOneContact` and `RefusedLeavesNoTrace` (SaveTxn); `ActiveIsWhole` (QsoLog);
`PendingIsTimed` (UdpBroadcast); `HeldIsSent` (IambicKeyer); `LossIsRetried` (KeyerLink); `LoginOnce`
(ClusterLink). TLC was used on each of them before its proof.

Further instances are not among the runs of `PROJECT.json`. Two pass: `AttemptsEnd.cfg` (SaveTxn: every
operation is answered) and `RadioLinkLive.cfg` (RadioLink with one radio: a lost radio comes back).
The others show a violation each, twenty in all, and section 4 says of what: `SerialReuse.cfg`,
`StaleEdit.cfg` and `EditOther.cfg` (MCQsoLog), `OwnZone.cfg`, `CtyDat.cfg` and `RescoreStored.cfg`
(MCLogScoring), `EveryNQSOs.cfg`, `LogIsKept.cfg` and `SafetyCopyIsWhole.cfg` (LogBackup),
`DisconnectFinal.cfg` (RadioLink), `BorrowedNumber.cfg` (MCUdpBroadcast), `StuckKey.cfg`
(IambicKeyer), `PaddleComesBack.cfg` (KeyerLink), `RetriesEnd.cfg` (ClusterLink), `EscapeStops.cfg`
(CWSending), `SpotsFollow.cfg` and `HighlightsFollow.cfg` (MCWorkedMarks), and `IcomDisagreements.cfg`
(IcomSession), which holds three invariants to be tried one at a time: `PollsWait`,
`ConnectedHasSocket` and `FailedIsDisconnected`.

Why the bounds are enough: each of the races needs one event inside one dialog or probe, and the
bounds allow a second event inside that one; three contacts give one before, one inside and one
after a dialog; two activations give a contest before and after, and two files one that is shown and
one that is open; two posted signals give a stale one and a current one. In `LogScoring` three contacts are what a duplicate and a claim on another
band need, the five contests have every kind of claim and of points between them, two continents
give settings that are right and settings that are not, and one trouble gives each of an edit, an
unscored arrival, a refusal and a restart in every position. In `LogBackup` three contacts are one backup interval and one contact past it, a
single backup kept makes every rotation delete, and restores are not bounded: with one fault the
second may follow a failed first. In `WorkedMarks` two contests are one before and one after, and
two typed contacts give one saved and one refused under the other's warning. In `IcomSession` two
sessions make answers of the first late in the second; two logins and two ports are what a repeated
answer makes. In `ClusterLink` three clicks are connect, disconnect, connect, and two outages strike
both connections. In `CWSending` four acts are two messages, an Escape and a change of profile.

All guards that cut a behaviour off are named: `MaxQSOs`, `MaxRows`, `MaxStamp`, `MaxFrames`, `MaxLoads`, `MaxQueue`,
`MaxPosted`, `MaxTime`, `MaxTrouble`, `MaxFaults`, `MaxSetBacks`, `MaxClicks`, `MaxOutages`, `MaxElements`,
`MaxActs`, `MaxOpens`, `MaxConnects`, `MaxLogins`, `MaxPorts`. Clocks of `UdpBroadcast` stop counting at
`Quiet`, past which no comparison of the code changes. The proofs need none of these bounds to be
small.

### Fairness

* `SaveTxn`: a statement that was started returns; only `AttemptsEnd.cfg` uses it.
* `RadioLink`: both threads serve their queues, timers fire, a probe is answered or times out;
  strong fairness on a successful probe and a successful open says that the radio is there
  infinitely often, which is what "comes back" needs. Only `RadioLinkLive.cfg` uses it.
* `UdpBroadcast`: time passes and due timers fire; a connected radio is polled; of infinitely many
  sends some get through.
* `IambicKeyer`: a timer that was started fires; only `StuckKey.cfg` uses it. None is assumed for the
  operator's paddles.
* `KeyerLink`: both threads serve their queues, the timer fires, and of infinitely many
  reconnects one succeeds.
* `ClusterLink`: both threads serve their queues, the socket answers, due timers fire, and an
  outage ends. None is assumed for the operator.
* `CWSending`: the three threads serve their queues, the encoder's timer fires, and a change of
  profile that was begun is finished. None is assumed for messages, Escape or the paddle.
* `QsoLog`, `LogScoring`, `LogBackup`, `WorkedMarks` and `IcomSession` assume none: their properties are
  safety.

## 4. Disagreements

Statements of the repository that the code does not keep. Each has a `.cfg` of its name with which TLC
refutes it; none is among the runs of `PROJECT.json`, where every property holds of the code.

* `OwnZone`: `calculateQSOPoints` of the IARU contest compares ITU zones
  (`contests/IARUHFContest.cpp:245`), and the station that `rescoreContestSilent` builds has none
  (`ui/MainWindow.cpp:2968`): "1 point: Same ITU zone" (`contests/IARUHFContest.h:39`) becomes three
  after every rescore and every activation.
* `CtyDat`: "AppSettings may have stale values from a different callsign"
  (`controllers/ContestManager.cpp:215`), so logging asks cty.dat for the continent; the window's
  rescore and an activation's ask the settings all the same (`ui/MainWindow.cpp:2968`, `:2851`), and
  points change with them.
* `RescoreStored`: a rescore saves each row it changed (`controllers/DataIntegrityManager.cpp:505`), but
  `onWSJTXQSOReady` shows a copy of the contact that never gets its id (`ui/MainWindow.cpp:5590`):
  `updateQSO` refuses it, no window rescore is written, and an edit of that row changes no stored row.
* `EditOther`: a contest that cannot be activated may leave its file open under the table of the
  contest before (`controllers/ContestManager.cpp:57`, `ui/MainWindow.cpp:1777`), and `onEditQSO` does
  not ask whether a contest is active: the edit goes to the row of that id in the other contest.
* `BorrowedNumber`: "Queues state for throttled broadcast with correct radio number"
  (`network/UdpBroadcastManager.h:87`): the profile's default radio becomes active without the signals
  a toggle emits (`controllers/RadioManager.cpp:265`), so its state is also sent under the number of
  the radio that was active before.
* `PaddleComesBack`: the serial HaliKey is to close when reading its lines fails
  (`keyers/HaliKeySerialDevice.cpp:106`), which would start the reconnection; the timer that polls them
  does not follow the device to the worker thread (`keyers/HaliKeySerialDevice.h:70`,
  `keyers/KeyerController.cpp:92`, `:303`), so neither a loss nor a paddle is ever noticed.
* `EscapeStops`: a message sent while another is keyed makes the worker end the first, whose signal
  sets the sender to idle although the second is being keyed; `stop()` then returns at
  `cw/DtrRtsCWSender.cpp:344`, although `stopAllCW` is to "Stop all CW output"
  (`services/CWService.h:186`).
* `EveryNQSOs`: "Auto-backup every N QSOs" (`data/BackupManager.h:45`): the remembered count stays when
  the log is cleared or replaced by a smaller backup, so the next backup may be any number of contacts
  away; contacts of WSJT-X and of imports ask for none.
* `LogIsKept`: "The current database will be saved as .broken for safety"
  (`ui/dialogs/BackupRestoreDialog.cpp:408`): a second restore, after a first one whose copy failed,
  replaces the safety copy that alone had the log.
* `SafetyCopyIsWhole`: with a worker's connection open, closing the database leaves the WAL beside the
  path, and the file that is moved away lacks what was committed since (`data/BackupManager.h:96`).
* `SpotsFollow`: "The cache is rebuilt when the contest context changes"
  (`services/SpotProcessorWorker.h:110`): from the file that was open when its thread started.
* `HighlightsFollow`: "Caches are rebuilt on contest change and incrementally updated on QSO log."
  (`services/WSJTXHighlightWorker.h:54`): only when WSJT-X connects.
* `ConnectedHasSocket`: "Connected - CI-V socket ready for commands" (`docs/ICOM_NETWORK_README.md:179`):
  a repeated grant binds the port a second time, fails, and leaves the session connected without a
  CI-V socket.
* `FailedIsDisconnected`: `cleanup` resets the state so that a failed attempt does not prevent the next
  (`radio/icomnetwork.cpp:952`); when the control socket cannot be bound, `connectToRadio` then sets
  the state to `WaitingForHere` all the same, and further attempts are refused.
* `PollsWait`: "Don't poll yet - wait for civSocketReady signal from network"
  (`radio/IcomRadio.cpp:519`): the poll timer has run since `connect()`.
* `SerialReuse`: `calculateNextSerialNumber` applies `toInt` to the whole sent exchange
  (`controllers/ContestManager.cpp:194`); the exchange of Sweepstakes and of WPX is not a number.
* `StaleEdit`: `onEditQSO` reads the row number before the dialog and writes to it after
  (`ui/MainWindow.cpp:2731`).
* `DisconnectFinal`: `disconnectFromRadio` skips radios that are not yet shown as connected
  (`controllers/RadioManager.cpp:288`); one in its probe connects afterwards.
* `StuckKey`: `CWService` moves the keyer to a thread to which its member timers do not follow
  (`services/CWService.cpp:52`).
* `RetriesEnd`: "max 10 attempts" (`ui/widgets/DXClusterWindow.cpp:125`) never ends anything, since
  each retry calls `onConnectClicked`, which resets the count. `ClusterProofs!LimitOutOfReach`
  proves that the count stays below any limit.

Seen while modelling, and not recorded by an instance:

* A clock set back, also by the end of daylight saving, makes rotation delete the newest backup, whose
  name is then the oldest (`data/BackupManager.cpp:263`).
* A restore that fails half-way leaves the database closed, and the session goes on: the contacts
  that follow are refused until a contest is opened (`data/BackupManager.cpp:187`).
* Clearing, editing and importing tell neither worker; a refused contact is still marked as worked
  (`ui/MainWindow.cpp:2411`); under Sweepstakes' rule the key that the highlighter adds never
  matches the one it looks up; WSJT-X that connects before a contest is opened gets none.
* After the radio's first answer no step of an Icom session has a timeout or a retry: a lost datagram
  stalls the login, and a radio that falls silent stays connected, while
  `docs/ICOM_NETWORK_README.md` promises keep-alive and reconnection. `checkRetransmit` is empty
  (`radio/icomnetwork.cpp:836`), and the buffers of sent packets are never read. The watchdog does
  nothing before the first CI-V data, nor across midnight, since it compares times of day. Nobody
  calls `selectRadio` when the list has several radios.
* `saveToEmergencyFile` has no caller: a contact the database refuses for good is only on the
  screen, though `README.md:87` lists emergency ADIF logging.
* A contact that arrives between the backup and the confirmation of a clear is in neither
  (`services/MaintenanceService.cpp:94`); `BackupCoversOlder` states what does hold.
* After a failed activation the entry line logs into the previous contest's services
  (`ui/MainWindow.cpp:2238`).
* The contest chooser lists the contests over the session's own connection and closes it: opening and
  cancelling the chooser leaves the active contest without a database, and contacts are refused
  until a contest is opened (`ui/dialogs/ContestChooserDialog.cpp:256`,
  `data/ContestRepository.cpp:178`).
* `recreateRadio` cuts the old radio's signals; when the following probe fails the radio stays
  shown as connected (`radio/RadioController.cpp:207`).
* The profile's default radio becomes active without the signals a toggle emits
  (`controllers/RadioManager.cpp:265`): Connect and Disconnect follow the radio that was active before.
* A standby radio that is lost is not retried (`controllers/RadioManager.cpp:547`).
* A pending radio state is sent after announcements were switched off
  (`network/UdpBroadcastManager.cpp:119`), and heartbeats repeat a radio that is gone as connected
  (`:247`).
* A failed reconnect restarts the timer even if the operator disconnected meanwhile, and
  connecting over an open keyer posts a "disconnected" that starts the timer, which then tears
  the open keyer down every three seconds (`keyers/KeyerController.cpp:363`, `:113`).
* A squeeze of mode B is answered although only the opposite paddle was down when the tone began
  (`IambicKeyer.h:45` says both); and an opposite paddle that was down at that moment, released
  and pressed again within the tone, is not latched (`keyers/IambicKeyer.cpp:70`).
* A cluster that refuses the operator's own Connect is never tried again: `onTelnetError` starts no
  timer and `onTelnetDisconnected` does not follow (`ui/widgets/DXClusterWindow.cpp:626`).
* A change of profile disconnects the keyer under a pressed paddle; under CAT the release is not sent
  to the radio, and its PTT stays on (`services/CWService.cpp:125`).
* Sweepstakes marks every contact as a new multiplier (`contests/ARRLSSBase.cpp:149`); the score
  counts distinct sections all the same.
* A contact in an unknown mode is a duplicate of every mode when it is logged, and of its own mode
  only when the log is rescored (`controllers/QSOLogger.cpp`, `controllers/DataIntegrityManager.cpp`):
  a rescore takes such flags away. `clean` in `LogScoring` says when.
* An edited contact keeps the country of the call it was logged with, so its points and
  multipliers are the old call's until the country is looked up again.
* Contacts of WSJT-X are stored without points and multipliers until the next rescore, while
  `docs/USER_GUIDE_CONTEST_OPERATION.md:157` says "Instant feedback: Score updates after each QSO".
* The web API answers success with id -1 for a contact the database refused
  (`ui/MainWindow.cpp:4702`).

Further hazards seen, beyond those listed in `PROJECT.json`: the contest object is used again after the
warning about an unsaved contact (`ui/MainWindow.cpp:2424`), and through a raw pointer after the edit
dialog (`:2741`); an activation that fails half-way leaves some of the contest before it (`:3591`,
proved harmless in the part `ServicesMatchContest` states); auto-reconnect is set only after the
connects returned (`controllers/RadioManager.cpp:278`); worker threads must open database connections
of their own (`data/Database.cpp:40`); the headless server opens a database without naming its contest
(`network/WebServerContext.cpp:266`); a paddle that disappears while held is not noticed
(`keyers/HaliKeyMidiDevice.cpp:113`).

## 5. Proofs

For each of the twelve components an inductive invariant is proved from three facts: the initial
states have it, each action preserves it (one lemma per action), and temporal reasoning over the two.
It is called `IInv` under `Spec`, or, where one proof module holds two components, `LinkIInv` under
`LinkSpec` (KeyerLink), `IcomIInv` under `IcomSpec`, `MarksInv` under `MarksSpec` and `ScoringInv`
under `ScoringSpec`. Every safety property of the runs, invariant or action property, is a theorem that
follows from it, for every value of the constants. The theorems a reader should know of are listed in
`PROJECT.json`. Each `ASSUME` on constants is named in the module that declares them; nothing else is
assumed.

* **SaveTxnProofs**: any set of contacts and contents, any number of attempts. That the disk is
  what was told is not inductive by itself: `IInv` adds what the transaction in progress has done
  (`Begun`, `Executed`), that outside a transaction there is no private copy (`NoTxnNoCopy`), and
  that ids stay below the counter (`Counted`, `Receipted`). The last theorem, `Implements`, is
  `Spec => StoreSpec`: every statement is a stutter of `LogStore` except the COMMIT and the
  refusal.
* **QsoLogProofs**: any contest files, numbers of contacts, dialogs and activations, both exchange
  formats. There are two invariants. The first says that the ids on the screen mean the same contacts
  in the file of the contest shown, whichever file is open (`ShownIdsAreStored`, `IdsInUse`), that an open edit names a row whose id means no other contact
  (`EditsAreCurrent`), whatever was cleared or reopened behind it, and that numbers sent since the
  last activation are below the next (`SerialsBelow`). The second, `TableInv`, carries the first and
  says that a contact is stored once (`ContactsOnce`), that one on the screen is stored or was refused
  (`Accounted`), that the table shows the whole file while a contest is active (`TableWhole`), that a
  command of the operator is the lowest dialog (`CommandsLast`), that no contest becomes active over a
  dialog that was opened without one (`ContestStaysAway`), and that a backup taken for a clear holds what
  it is to hold (`BackupsHold`).
  `CountingFindsDrift` follows: equal counts mean equal contacts. Many actions change the table in one of a few ways; its lemmas are
  about these ways, and each action cites one.
* **RadioProofs**, RadioLink: any number of radios and any bounds. `StopInv` says that a stopped
  controller has its shutdown flag set and, if its rig is open or opening, a disconnect in the
  worker's queue. `LinkInv` relates the flags of the main thread to the last signal that is still
  posted. `RetryInv` says that an announced loss has a timer or an attempt's probe behind it whether
  auto-reconnect is on or not: without that the step that switches it on would not preserve it.
* **RadioProofs**, IcomSession: any number of sessions, logins, ports, retries and failing binds.
  Every answer may come again at any time, so the invariant speaks of what was ever sent.
  `SessionInv` says that without a control socket nothing is left that could write, and that the
  CI-V socket is bound and its stream open; `SentInv` that every datagram belongs to the present
  session or to one that was ended at the radio; `PortInv` that the CI-V port is one the radio was told
  in this session; `TokenInv` that the request's number and the token are those of logins of this
  session. The action property `NothingAfterEnd` follows from the same parts.
* **UdpBroadcastProofs**: any intervals. `ThrottleInv` compares the throttle timer with the age of
  the news, `BeatInv` the heartbeat timer with the silence.
* **KeyerProofs**, IambicKeyer: both modes, moved to a thread or not. `StateIsTimed` ties the timers to the
  state; `IdleIsClean`, `ExtraIsLast`, `LatchedIsFresh` and `OwedIsLatched` say what latches and
  snapshots can still ask for.
* **KeyerProofs**, KeyerLink: any devices. `SaidUp` is the last word of the posted signals; `Phases`
  says which device the worker can be busy with while the main thread waits; `Tried` names what
  will start the next attempt after the loss of a WinKeyer.
* **ClusterProofs**, ClusterLink: any numbers of clicks, outages and attempts. `FlagIsSocket` ties the client's
  flag to the socket; `LoginCounted` says what may have been sent; `LastWord` that the last signal
  under way agrees with the socket; `CutOff` that every connect queued before the operator's
  disconnect has a disconnect behind it, and that no retry can queue another; `NeverCounted` that
  the attempts are always reset.
* **ClusterProofs**, WorkedMarks: any contests and contacts. A worker is told that the contest was
  opened and what is logged afterwards by messages in one queue, so the invariant says where in it
  the context of the active contest is, or that it was the last one handled (`SpotsContextAt`,
  `HighlightsContextAt`): behind it come contacts of the contest only, and once it was handled, with the
  file open, the memory has the contest's contacts but for those still in the queue. `OpenInv` says that the spot
  worker opens a file once, before it is ready, and `PendingInv` that until then the context waits in
  the window.
* **CWSendingProofs**: messages of any length, any number of acts. `DownsEnd` says that every keyDown
  on its way has its keyUp behind it, in two queues; `Off` that nothing moves without a sender;
  `OneSend`, `Known` and `StopComes` follow one message from the main thread to the encoder, and say
  why the main thread cannot believe itself idle while it is sent.
* **LogFileProofs**, LogBackup: any interval, number of backups kept and numbers of contacts and
  faults. `RestoreInv` says what a restore may rely on at each of its steps, `WalInv` that no WAL
  lies beside a closed database, `CountInv` that contacts are numbered as they come, `CoverInv` that some
  backup lacks fewer contacts than the interval and no more than the screen grew since the last
  count, besides the contacts no backup was asked for. What makes the last inductive is that a
  rotation never deletes the newest backup while the clock was not set back.
* **LogFileProofs**, LogScoring: any registered contests, station, contacts and sizes of the log.
  `TableInv` and `JobInv` say that the rows in memory are those of the file but for refused scores
  (`Agrees`), `Counts` that ids number the file's rows, and `RescoreInv` that what a running rescore
  remembers (`KeysOf`, `ValuesOf`) is what the rows before the next one are, so that the two ways to
  score meet in `InTableOrder`. `ByTimeSorts` shows that the operator that picks rows by their rank
  is a sort. `ClaimsAreCounted` and `RestartsKeepScore` need counting and sums over sets: `LeastExists`
  gives the least element of a set of numbers and with it induction by the smallest counterexample
  (`InheritedByAll`), `SumsAreUnits` turns a sum into the size of a set of units, and `FirstsArePaid` maps
  the units of a log's points to its contacts, whatever order they are in.

Model-checked only: the liveness properties (`ComesBack`, `LoggedIn`, `ConnectionReturns`,
`ListenersCatchUp`, `LinkComesBack`, `CleanupReturns`, `ComesToIdle`, and `Answered` of the further instances), which are out of the prover's reach.

## 6. Left out of the modelled parts

`SaveTxn`: `deleteQSO` and `deleteQSOsByContest` (the same transaction path), searches,
migrations. `QsoLog`: contest settings, deleting a contest; ADIF import and rescoring, which are in
`LogScoring`. `RadioLink`: reconnecting with another
port or model, enabling SO2R while connected, frequency and CW commands. `UdpBroadcast`: the XML
text and the log rebroadcast on a pool thread. `IambicKeyer`: `setWpm`, which changes durations.
`KeyerLink`: the WinKeyer handshake inside `open()`, text and speed commands, debouncing.
`ContestRules`: exchange parsing and validation, Cabrillo headers, and the classes the registry does
not offer. `LogScoring`: exchange correction, and saving and deleting, which are `QsoLog`'s.
`ClusterLink`: what the cluster sends after the login, and the spots made of it. `CWSending`: text
sent by CAT or a WinKeyer, templates, the repeated CQ, and speed. `LogBackup`: separate directories for
manual and automatic backups, deleting a backup in the dialog, and backups of other contests' files.
`WorkedMarks`: the highlights sent and their limit, the memory of countries and multipliers, and the
spots. `IcomSession`: the layout of packets, sequence numbers and buffers of sent packets, ping
replies, host names, several radios in one list, what CI-V says, and the discovery of radios.

## 7. Plan

1. The composition of `IambicKeyer`, `KeyerLink` and `CWSending` into the path from a paddle to the
   transmitter, including a paddle device lost while it is held; `HamlibCWSender`, whose state on the
   main thread can diverge from its worker's as that of the DTR/RTS sender does.
2. `HeadlessSession`: `WebServerContext` as a second owner of the session, against an abstract
   session shared with `QsoLog`.
3. Exchange correction in `LogScoring`, and exchange parsing as operators.
4. Proofs: what the liveness properties rest on, as safety (each handler that must run is enabled
   while something waits for it), and the refinement of an abstract session by `QsoLog` once
   `HeadlessSession` shares it.

## 8. Not modelled

The rest of the program, component by component with its reason, is in `PROJECT.json`. In short: the
window classes, widgets, plots and dialogs (about half of the lines) show state and forward
commands, and their event loops are in the models where they interrupt something; the radio classes
for K4 and Kenwood, amplifiers and rotators translate commands to texts, with a poll that repeats
itself; import, export, look-up tables and settings are formats over files and tables; the vendored
code is not this program's. The headless server and exchange parsing have behaviour worth checking and
are in the plan.
