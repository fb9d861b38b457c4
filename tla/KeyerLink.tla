----------------------------- MODULE KeyerLink ------------------------------
(***************************************************************************)
(* KeyerController and the keyer device it keeps on a worker thread.       *)
(* The device's signals are posted to the main thread ("inbox"); opening   *)
(* is a job of the worker; closing is a job the main thread waits for      *)
(* (Qt::BlockingQueuedConnection), so while "main" is not "free" no slot   *)
(* of the main thread runs.  A replaced device was closed before its       *)
(* successor is made: one device at a time is open or being opened.        *)
(***************************************************************************)
EXTENDS Naturals, Sequences

CONSTANTS WinKeyers,  \* devices that send text
          HaliKeys,   \* devices that report paddles
          None,       \* no device, no capabilities
          MaxPosted   \* bound: signals posted when a slot starts

Devices == WinKeyers \cup HaliKeys

ASSUME DevicesAssumption ==
  /\ Devices # {} /\ WinKeyers \cap HaliKeys = {} /\ None \notin Devices
  /\ MaxPosted \in Nat

VARIABLES
  config,     \* m_lastConfig
  device,     \* m_device
  worker,     \* the device the worker's jobs are about
  opening,    \* lambda that opens it: queued by connectKeyer or by
              \* attemptReconnect, or "opened" and about to take m_mutex
  isOpen,     \* ICWKeyerDevice::isConnected
  closing,    \* close() is queued behind the opening
  main,       \* caller of cleanupDevice that waits for close(), or "free"
  connected,  \* m_connected
  caps,       \* device m_canSendText and m_hasPaddleInput were read from
  timer,      \* m_reconnectTimer
  userDown,   \* m_userDisconnected
  inbox,      \* signals and calls posted to the main thread
  lost        \* history: device that went and was not opened again, or None

flags == <<config, timer, userDown>>
linkVars == <<config, device, worker, opening, isOpen, closing, main, connected,
              caps, timer, userDown, inbox, lost>>

LinkTypeOK ==
  /\ config \in Devices \cup {None} /\ device \in Devices \cup {None}
  /\ worker \in Devices \cup {None} /\ caps \in Devices \cup {None}
  /\ opening \in {"no", "connect", "reconnect", "opened"}
  /\ main \in {"free", "connect", "reconnect", "disconnect"}
  /\ isOpen \in BOOLEAN /\ closing \in BOOLEAN /\ connected \in BOOLEAN
  /\ timer \in BOOLEAN /\ userDown \in BOOLEAN
  /\ inbox \in Seq({"connected", "disconnected", "retry"})
  /\ lost \in Devices \cup {None}
  /\ opening # "no" \/ isOpen => worker # None

LinkInit ==
  /\ config = None /\ device = None /\ worker = None /\ caps = None
  /\ opening = "no" /\ isOpen = FALSE /\ closing = FALSE /\ main = "free"
  /\ connected = FALSE /\ timer = FALSE /\ userDown = FALSE
  /\ inbox = <<>> /\ lost = None

Post(s) == inbox' = Append(inbox, s)
Ready == main = "free" /\ Len(inbox) <= MaxPosted

-----------------------------------------------------------------------------
(* Main thread                                                              *)

\* cleanupDevice up to the wait; "caller" goes on in Resume
Cleanup(caller) ==
  /\ main' = caller /\ closing' = TRUE
  /\ device' = None /\ connected' = FALSE /\ caps' = None
  /\ UNCHANGED <<worker, opening, isOpen, inbox>>

\* The rest of connectKeyer and attemptReconnect: a new device is opened
NewDevice(d, how) ==
  /\ device' = d /\ worker' = d /\ caps' = None
  /\ opening' = how /\ isOpen' = FALSE
  /\ main' = "free"
  /\ UNCHANGED <<closing, connected, inbox>>

ConnectKeyer(d) ==
  /\ Ready
  /\ timer' = FALSE /\ userDown' = FALSE /\ config' = d
  /\ lost' = None
  /\ IF device # None THEN Cleanup("connect") ELSE NewDevice(d, "connect")

DisconnectKeyer ==
  /\ Ready
  /\ userDown' = TRUE /\ timer' = FALSE
  /\ lost' = None
  /\ IF device # None
       THEN Cleanup("disconnect")
       ELSE UNCHANGED <<device, worker, opening, isOpen, closing, main,
                        connected, caps, inbox>>
  /\ UNCHANGED config

\* Slip: a device that was lost is taken for one that is there
AttemptIfNoDevice ==
  /\ Ready /\ timer
  /\ timer' = FALSE /\ userDown' = FALSE
  /\ IF device = None
       THEN NewDevice(config, "reconnect")
       ELSE UNCHANGED <<device, worker, opening, isOpen, closing, main,
                        connected, caps, inbox>>
  /\ UNCHANGED <<config, lost>>

\* The timer fires every three seconds while it runs
AttemptReconnect ==
  /\ Ready /\ timer
  /\ timer' = FALSE /\ userDown' = FALSE
  /\ IF device # None THEN Cleanup("reconnect")
                      ELSE NewDevice(config, "reconnect")
  /\ UNCHANGED <<config, lost>>

\* close() returned to the waiting main thread
Resume ==
  /\ main # "free" /\ ~closing
  /\ IF main = "disconnect"
       THEN main' = "free" /\ UNCHANGED <<device, worker, opening, isOpen,
                                          closing, connected, caps, inbox>>
       ELSE NewDevice(config, main)
  /\ UNCHANGED <<flags, lost>>

\* The lambdas connected to the device, and the posted startReconnectTimer
Deliver ==
  /\ main = "free" /\ inbox # <<>>
  /\ inbox' = Tail(inbox)
  /\ connected' = IF Head(inbox) = "retry" THEN connected
                                           ELSE Head(inbox) = "connected"
  /\ timer' = (timer \/ Head(inbox) = "retry"
                     \/ (Head(inbox) = "disconnected" /\ ~userDown))
  /\ UNCHANGED <<config, device, worker, opening, isOpen, closing, main, caps,
                 userDown, lost>>

-----------------------------------------------------------------------------
(* Worker thread                                                            *)

\* open() says "connected" before the lambda goes on
OpenSucceeds ==
  /\ opening \in {"connect", "reconnect"}
  /\ opening' = "opened" /\ isOpen' = TRUE
  /\ Post("connected") /\ lost' = None
  /\ UNCHANGED <<device, worker, closing, main, connected, caps, flags>>

\* Slip: the main thread keeps m_mutex while it waits for close()
ReadCapsLocked ==
  /\ opening = "opened" /\ main = "free"
  /\ opening' = "no" /\ caps' = worker
  /\ UNCHANGED <<device, worker, isOpen, closing, main, connected, inbox,
                 flags, lost>>

\* The lambda takes m_mutex for the capabilities; cleanupDevice lets go of it
\* before it waits
ReadCaps ==
  /\ opening = "opened"
  /\ opening' = "no" /\ caps' = worker
  /\ UNCHANGED <<device, worker, isOpen, closing, main, connected, inbox,
                 flags, lost>>

\* Only the lambda of attemptReconnect asks for another attempt
OpenFails ==
  /\ opening \in {"connect", "reconnect"}
  /\ opening' = "no"
  /\ IF opening = "reconnect" THEN Post("retry") ELSE UNCHANGED inbox
  /\ UNCHANGED <<device, worker, isOpen, closing, main, connected, caps, flags,
                 lost>>

\* Slip: a device closed by its owner does not say so
CloseSilent ==
  /\ closing /\ opening = "no"
  /\ closing' = FALSE /\ isOpen' = FALSE
  /\ UNCHANGED <<device, worker, opening, main, connected, caps, flags, lost,
                 inbox>>

\* A WinKeyer says "disconnected" even if it was not open
Close ==
  /\ closing /\ opening = "no"
  /\ closing' = FALSE /\ isOpen' = FALSE
  /\ IF isOpen \/ worker \in WinKeyers THEN Post("disconnected")
                                       ELSE UNCHANGED inbox
  /\ UNCHANGED <<device, worker, opening, main, connected, caps, flags, lost>>

\* The device is unplugged.  A WinKeyer's port says so (handleError).  A
\* paddle's does not: the serial HaliKey's poll timer, a member without a
\* parent, stays on the main thread when the device is moved to the worker
\* and so never starts; MIDI has no such news.  isOpen stays as it was.
Unplug ==
  /\ isOpen /\ opening = "no"
  /\ lost' = IF closing THEN lost ELSE worker
  /\ IF worker \in WinKeyers THEN isOpen' = FALSE /\ Post("disconnected")
                            ELSE UNCHANGED <<isOpen, inbox>>
  /\ UNCHANGED <<device, worker, opening, closing, main, connected, caps, flags>>

Work == OpenSucceeds \/ ReadCaps \/ OpenFails \/ Close

LinkNext ==
  \/ \E d \in Devices : ConnectKeyer(d)
  \/ DisconnectKeyer \/ AttemptReconnect \/ Resume \/ Deliver
  \/ Work \/ Unplug

LinkSpec == LinkInit /\ [][LinkNext]_linkVars

\* Both threads run their event loops, and of the attempts to reopen a
\* device some succeed
LinkFairSpec ==
  /\ LinkSpec
  /\ WF_linkVars(Work) /\ WF_linkVars(Deliver)
  /\ WF_linkVars(Resume) /\ WF_linkVars(AttemptReconnect)
  /\ SF_linkVars(opening = "reconnect" /\ OpenSucceeds)

-----------------------------------------------------------------------------
(* Properties                                                               *)

Quiet == main = "free" /\ inbox = <<>> /\ opening = "no"

(* When all is quiet the controller says connected exactly if the device    *)
(* says it is open (isConnected), and its capabilities are that device's: no *)
(* signal of a device that was replaced meanwhile has the last word.         *)
ConnectedIsOpen ==
  Quiet => (connected <=> isOpen) /\ (connected => device = worker /\ caps = device)

(* A WinKeyer that was unplugged is looked for until it is back, the        *)
(* operator disconnects or connects another: every way out of an attempt    *)
(* leaves the timer running, by startReconnectTimer or by the news that the *)
(* device before was closed.                                                *)
LossIsRetried == lost \in WinKeyers /\ Quiet => timer

(* The link to a WinKeyer that broke is re-established or given up by the   *)
(* operator.                                                                *)
LinkComesBack == lost \in WinKeyers ~> lost \notin WinKeyers

(* The same of a paddle: the serial HaliKey closes the port when reading    *)
(* its lines fails ("Check for read error", HaliKeySerialDevice.cpp:106),   *)
(* which would start the timer; but its polling never runs.                 *)
PaddleComesBack == lost \in HaliKeys ~> lost \notin HaliKeys

(* The main thread never waits for ever on the worker (cleanupDevice's      *)
(* blocking call against the open() lambda that takes the mutex).           *)
CleanupReturns == main # "free" ~> main = "free"
=============================================================================
