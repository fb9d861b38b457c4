---------------------------- MODULE WorkedMarks ----------------------------
(***************************************************************************)
(* Two worker threads that remember what was worked: SpotProcessorWorker   *)
(* marks the spots of the DX cluster, WSJTXHighlightWorker the stations    *)
(* WSJT-X decodes.  Each has a connection of its own and a set in memory   *)
(* that is read from the log when the contest changes and grows by a       *)
(* message for each contact.  The main thread saves, posts, opens contests *)
(* and starts the workers; what it posts waits in the worker's queue while *)
(* the log goes on, and the main thread's own dialogs run event loops.     *)
(*                                                                         *)
(* A contest has a file of its own, in which its id is 1, so the id a      *)
(* worker is given says only that there is a contest.  A contact stands    *)
(* for its key of call, band and mode: the rule of every contest but the   *)
(* Sweepstakes.  Typed contacts come by the entry line or the web, the     *)
(* Automatic ones from WSJT-X; no mode of these is looked up for a spot.   *)
(***************************************************************************)
EXTENDS Naturals, Sequences

CONSTANTS
  Contests,
  Typed, Automatic,    \* contacts that may be made
  None,                \* no contest, file, contact or pending context
  MaxOpens, MaxConnects   \* bounds

ASSUME KindsAssumption == Typed \cap Automatic = {}
ASSUME NoneAssumption == None \notin Contests \cup Typed \cup Automatic
ASSUME PendingAssumption == None \notin BOOLEAN
ASSUME MarksBoundsAssumption == MaxOpens \in Nat /\ MaxConnects \in Nat

VARIABLES
  active, dbFile,      \* m_activeContest; the file Database has open
  services,            \* the logging service was made
  rows,                \* the contacts in each contest's file
  saved,               \* a contact saved and not yet posted
  warnings,            \* refused contacts whose warning is open, newest first
  stage,               \* DXClusterWindow's spot worker: how far it is set up
  pending,             \* m_pendingContestContext: <<is there a contest?>>
  spots, highlights,   \* the workers: their files, memories and queues
  used, opens, connects,         \* contacts made; counters for the bounds
  refused,             \* contacts the operator was told are not saved (history)
  spotsTold, highlightsTold      \* only logging since the last context (history)

spotWindow == <<stage, pending>>
session == <<active, dbFile, services, rows>>
bounds == <<used, opens, connects>>
history == <<refused, spotsTold, highlightsTold>>
marksVars == <<session, saved, warnings, spotWindow, spots, highlights, bounds,
               history>>

Contacts == Typed \cup Automatic
Message == [kind : {"open"}, file : Contests \cup {None}]
             \cup [kind : {"context"}, on : BOOLEAN]
             \cup [kind : {"add"}, qso : Contacts]
Worker == [file : Contests \cup {None}, cache : SUBSET Contacts, queue : Seq(Message)]

MarksTypeOK ==
  /\ active \in Contests \cup {None} /\ dbFile \in Contests \cup {None}
  /\ services \in BOOLEAN /\ rows \in [Contests -> SUBSET Contacts]
  /\ saved \in Typed \cup {None} /\ warnings \in Seq(Typed)
  /\ stage \in {"none", "starting", "asked", "initialized", "ready"}
  /\ pending \in BOOLEAN \cup {None}
  /\ spots \in Worker /\ highlights \in Worker
  /\ used \subseteq Contacts /\ opens \in 0 .. MaxOpens /\ connects \in 0 .. MaxConnects
  /\ refused \subseteq Typed /\ spotsTold \in BOOLEAN /\ highlightsTold \in BOOLEAN

NewWorker == [file |-> None, cache |-> {}, queue |-> <<>>]

\* The program runs, no contest is open and no window but the main one
MarksInit ==
  /\ active = None /\ dbFile = None /\ services = FALSE
  /\ rows = [c \in Contests |-> {}]
  /\ saved = None /\ warnings = <<>>
  /\ stage = "none" /\ pending = None
  /\ spots = NewWorker /\ highlights = NewWorker
  /\ used = {} /\ opens = 0 /\ connects = 0
  /\ refused = {} /\ spotsTold = FALSE /\ highlightsTold = FALSE

Open(file) == [kind |-> "open", file |-> file]
Context(on) == [kind |-> "context", on |-> on]
Add(q) == [kind |-> "add", qso |-> q]
Posted(worker, messages) == [worker EXCEPT !.queue = @ \o messages]

\* The main thread is between two statements of updateUIAfterQSOLogged only
\* while a contact is saved and not posted
AtEventLoop == saved = None
Idle == AtEventLoop /\ warnings = <<>>

-----------------------------------------------------------------------------
(* The workers                                                              *)

\* rebuildDupeCache
Rebuilt(worker, on) == IF on /\ worker.file # None THEN rows[worker.file] ELSE {}

\* initDatabase, setContestContext, addWorkedCallsign: what the worker may be
\* after its next message; a file that cannot be opened is only logged
Received(worker) ==
  LET m == Head(worker.queue)
      w == [worker EXCEPT !.queue = Tail(@)]
  IN  CASE m.kind = "open"    -> {[w EXCEPT !.file = f] : f \in {m.file, None}}
        [] m.kind = "context" -> {[w EXCEPT !.cache = Rebuilt(worker, m.on)]}
        [] m.kind = "add"     -> {[w EXCEPT !.cache = @ \cup {m.qso}]}

\* The spot worker; done with opening its file it posts the news
SpotWorker ==
  /\ spots.queue # <<>>
  /\ spots' \in Received(spots)
  /\ stage' = IF Head(spots.queue).kind = "open" THEN "initialized" ELSE stage
  /\ UNCHANGED <<session, saved, warnings, pending, highlights, bounds, history>>

HighlightWorker ==
  /\ highlights.queue # <<>>
  /\ highlights' \in Received(highlights)
  /\ UNCHANGED <<session, saved, warnings, spotWindow, spots, bounds, history>>

-----------------------------------------------------------------------------
(* The DX cluster window                                                    *)

\* Slip: the context is posted whether or not the worker has its file
SetActiveContestAtOnce(on) ==
  IF stage = "none" THEN UNCHANGED <<pending, spots>>
  ELSE spots' = Posted(spots, <<Context(on)>>) /\ UNCHANGED pending

\* DXClusterWindow::setActiveContest, for a window that is there
SetActiveContest(on) ==
  \/ stage = "none" /\ UNCHANGED <<pending, spots>>
  \/ stage \in {"starting", "asked", "initialized"} /\ pending' = on /\ UNCHANGED spots
  \/ stage = "ready" /\ spots' = Posted(spots, <<Context(on)>>) /\ UNCHANGED pending

\* onShowDXCluster makes the window, which starts the thread
ShowCluster ==
  /\ Idle /\ stage = "none"
  /\ stage' = "starting"
  /\ pending' = IF active = None THEN None ELSE TRUE
  /\ spotsTold' = (active # None)
  /\ UNCHANGED <<session, saved, warnings, spots, highlights, bounds,
                 refused, highlightsTold>>

\* QThread::started arrives: the worker is to open the file open at present
WorkerStarted ==
  /\ AtEventLoop /\ stage = "starting"
  /\ stage' = "asked"
  /\ spots' = Posted(spots, <<Open(dbFile)>>)
  /\ UNCHANGED <<session, saved, warnings, pending, highlights, bounds, history>>

\* onWorkerInitialized: a context that came too early is applied now
OnWorkerInitialized ==
  /\ AtEventLoop /\ stage = "initialized"
  /\ stage' = "ready" /\ pending' = None
  /\ spots' = IF pending = None THEN spots ELSE Posted(spots, <<Context(pending)>>)
  /\ UNCHANGED <<session, saved, warnings, highlights, bounds, history>>

-----------------------------------------------------------------------------
(* Contests.  The window "Open contest" needs an idle main window; the      *)
(* integrity check offers to reload the contest from a timer.               *)

MayOpen(c) ==
  /\ AtEventLoop /\ opens < MaxOpens /\ opens' = opens + 1
  /\ warnings = <<>> \/ c = active

\* activateContest: resetContestState tells the window there is no contest,
\* configureUIForContest that there is one
OpenContest(c) ==
  /\ MayOpen(c)
  /\ active' = c /\ dbFile' = c /\ services' = TRUE
  /\ IF stage = "ready" /\ active # None
       THEN spots' = Posted(spots, <<Context(FALSE), Context(TRUE)>>) /\ UNCHANGED pending
       ELSE SetActiveContest(TRUE)
  /\ spotsTold' = (stage # "none") /\ highlightsTold' = FALSE
  /\ UNCHANGED <<rows, saved, warnings, stage, highlights, used, connects, refused>>

\* The contest cannot be opened: its file, or what is in it
ActivateFails(c) ==
  /\ MayOpen(c)
  /\ active' = None /\ dbFile' \in {c, None}
  /\ IF active = None THEN UNCHANGED <<pending, spots>> ELSE SetActiveContest(FALSE)
  /\ spotsTold' = FALSE /\ highlightsTold' = FALSE
  /\ UNCHANGED <<services, rows, saved, warnings, stage, highlights, used,
                 connects, refused>>

\* reopenLastContest closes the file, cannot read it and returns
ReopenFails ==
  /\ active # None /\ MayOpen(active)
  /\ dbFile' = None
  /\ UNCHANGED <<active, services, rows, saved, warnings, spotWindow, spots, highlights,
                 used, connects, history>>

-----------------------------------------------------------------------------
(* Logging and changing the log                                             *)

CanSave == active # None /\ dbFile # None

\* The entry line needs the service only, the web also a contest
MayLog(q) ==
  /\ AtEventLoop /\ services
  /\ warnings = <<>> \/ active # None
  /\ q \notin used /\ used' = used \cup {q}

\* logQSO commits; the worker hears of it later in the same call
Save(q) ==
  /\ MayLog(q) /\ CanSave
  /\ rows' = [rows EXCEPT ![dbFile] = @ \cup {q}]
  /\ saved' = q
  /\ UNCHANGED <<active, dbFile, services, warnings, spotWindow, spots, highlights,
                 opens, connects, history>>

\* addWorkedCallsign is posted if there is a window
TellSpots(q) ==
  IF stage = "none" THEN UNCHANGED spots ELSE spots' = Posted(spots, <<Add(q)>>)

Post ==
  /\ saved # None
  /\ TellSpots(saved) /\ saved' = None
  /\ UNCHANGED <<session, warnings, spotWindow, highlights, bounds, history>>

\* The contact is not saved: a warning, and its event loop, come first
Refuse(q) ==
  /\ MayLog(q)
  /\ warnings' = <<q>> \o warnings /\ refused' = refused \cup {q}
  /\ UNCHANGED <<session, saved, spotWindow, spots, highlights, opens, connects,
                 spotsTold, highlightsTold>>

\* The worker is told of the contact as if it had been saved
Dismiss ==
  /\ AtEventLoop /\ warnings # <<>>
  /\ TellSpots(Head(warnings)) /\ warnings' = Tail(warnings)
  /\ UNCHANGED <<session, saved, spotWindow, highlights, bounds, history>>

\* onWSJTXQSOReady, also while a warning is open: the other worker is told
LogWsjtx(q) ==
  /\ AtEventLoop /\ CanSave
  /\ q \notin used /\ used' = used \cup {q}
  /\ rows' = [rows EXCEPT ![dbFile] = @ \cup {q}]
  /\ highlights' = Posted(highlights, <<Add(q)>>)
  /\ UNCHANGED <<active, dbFile, services, saved, warnings, spotWindow, spots, opens,
                 connects, history>>

\* onClearLog, onEditQSO and onImportADIF tell neither worker
ChangeLog ==
  /\ Idle /\ CanSave
  /\ \/ rows' = [rows EXCEPT ![dbFile] = {}] /\ UNCHANGED used
     \/ \E q \in Typed \ used :
          /\ used' = used \cup {q}
          /\ \E old \in {{}} \cup {{r} : r \in rows[dbFile]} :
               rows' = [rows EXCEPT ![dbFile] = (@ \ old) \cup {q}]
  /\ spotsTold' = FALSE /\ highlightsTold' = FALSE
  /\ UNCHANGED <<active, dbFile, services, saved, warnings, spotWindow, spots, highlights,
                 opens, connects, refused>>

-----------------------------------------------------------------------------
(* WSJT-X                                                                   *)

\* Slip: the set is read before the file is opened
SetContextSwapped(file) == Posted(highlights, <<Context(TRUE), Open(file)>>)

\* WSJTXController::setContestContext
SetContext(file) == Posted(highlights, <<Open(file), Context(TRUE)>>)

\* The first heartbeat, at the start or after a loss, which may come at any
\* time and leaves the worker alone; onWSJTXConnected passes the contest on,
\* if there is one
WsjtxConnects ==
  /\ AtEventLoop /\ connects < MaxConnects
  /\ connects' = connects + 1
  /\ IF CanSave THEN highlights' = SetContext(dbFile) /\ highlightsTold' = TRUE
                ELSE UNCHANGED <<highlights, highlightsTold>>
  /\ UNCHANGED <<session, saved, warnings, spotWindow, spots, used, opens, refused, spotsTold>>

MarksNext ==
  \/ SpotWorker \/ HighlightWorker
  \/ ShowCluster \/ WorkerStarted \/ OnWorkerInitialized
  \/ \E c \in Contests : OpenContest(c) \/ ActivateFails(c)
  \/ ReopenFails
  \/ \E q \in Typed : Save(q) \/ Refuse(q)
  \/ \E q \in Automatic : LogWsjtx(q)
  \/ Post \/ Dismiss \/ ChangeLog
  \/ WsjtxConnects

MarksSpec == MarksInit /\ [][MarksNext]_marksVars

-----------------------------------------------------------------------------
\* What the worker knows and what is on its way to it
Coming(worker) ==
  {q \in Contacts : \E i \in DOMAIN worker.queue : worker.queue[i] = Add(q)}
UpToDate(worker) ==
  \A i \in DOMAIN worker.queue : worker.queue[i].kind = "add"

SpotsAreMarked ==
  /\ rows[active] \cap Typed \subseteq spots.cache \cup Coming(spots) \cup {saved}
  /\ (spots.cache \cup Coming(spots)) \subseteq rows[active] \cup refused

(* However the window's start, the opening of contests and the logging fall *)
(* together, the spot worker that read the file of the active contest has   *)
(* every contact of it, or the message is on its way, and marks none that   *)
(* the operator was not at least told of as unsaved (the deferred context   *)
(* of DXClusterWindow::setActiveContest, the late addWorkedCallsign of      *)
(* updateUIAfterQSOLogged).  Not after the log was cleared, edited or       *)
(* imported into: nobody tells the worker.                                  *)
SpotsShowTheLog ==
  stage = "ready" /\ spotsTold /\ UpToDate(spots) /\ spots.file = active
    => SpotsAreMarked

HighlightsAreMarked ==
  /\ rows[active] \cap Automatic \subseteq highlights.cache \cup Coming(highlights)
  /\ highlights.cache \subseteq rows[active]

(* Once WSJT-X connected under the active contest, its worker marks only    *)
(* what is in that log; and if it could open the file, it knows every       *)
(* station worked with WSJT-X in it, before and since, or the message is on *)
(* its way; until another contest is opened or the log is cleared, edited   *)
(* or imported into (setContestContext, onQSOLogged).                       *)
HighlightsShowTheLog ==
  highlightsTold /\ UpToDate(highlights) =>
    /\ highlights.cache \subseteq rows[active]
    /\ highlights.file = active => HighlightsAreMarked

(* "The cache is rebuilt when the contest context changes"                  *)
(* (SpotProcessorWorker.h:110), whichever contest was open when the window  *)
(* was made.                                                                *)
SpotsFollowContest ==
  stage = "ready" /\ spotsTold /\ UpToDate(spots) /\ dbFile = active /\ spots.file # None
    => SpotsAreMarked

(* "Caches are rebuilt on contest change and incrementally updated on QSO   *)
(* log." (WSJTXHighlightWorker.h:54)                                        *)
HighlightsFollowContest ==
  active # None /\ UpToDate(highlights) /\ highlights.file # None => HighlightsAreMarked
=============================================================================
