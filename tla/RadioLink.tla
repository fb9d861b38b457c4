------------------------------ MODULE RadioLink ------------------------------
(***************************************************************************)
(* Connecting, losing and reconnecting the radios: RadioManager and its    *)
(* ReconnectionManagers on the main thread, one RadioController per radio, *)
(* and the HamlibRadio each controller keeps on a worker thread.           *)
(*                                                                         *)
(* Main-thread handlers are atomic except where they run an event loop:    *)
(* the pre-flight probe of a network radio and the processEvents calls of  *)
(* connectRadio and disconnectRadio.  A handler waiting there is a frame   *)
(* of the stack "frames" (the running one first), and every other handler  *)
(* may run meanwhile.  Worker jobs and the signals workers post back to    *)
(* the main thread are queues; a signal already posted is still delivered  *)
(* after its sender was disconnected and deleted.                          *)
(***************************************************************************)
EXTENDS Naturals, Sequences

CONSTANTS N,              \* MAX_RADIOS, or 1 without SO2R
          Networked,      \* radios configured as host:port
          DefaultActive,  \* active radio of the station profile
          MaxFrames,      \* bound: nested event loops
          MaxQueue        \* bound: posted signals, and jobs of one worker

Radios == 1 .. N

ASSUME RadiosAssumption ==
  /\ N \in Nat \ {0}
  /\ Networked \subseteq Radios
  /\ DefaultActive \in Radios
  /\ MaxFrames \in Nat /\ MaxQueue \in Nat

VARIABLES
  active,    \* m_activeRadioIndex
  auto,      \* m_radioAutoReconnect
  shown,     \* radios with m_radioConnected
  online,    \* MainWindow's connected state: Connect or Disconnect enabled
  ctl,       \* RadioController::m_connected
  timer,     \* radios whose ReconnectionManager timer runs
  frames,    \* main-thread handlers inside an event loop
  shutdown,  \* RadioController::m_shutdownRequested
  jobs,      \* calls queued to each worker
  busy,      \* workers inside rig_open
  link,      \* radios open and answering polls
  inbox,     \* signals posted to the main thread
  off,       \* the operator's last command was Disconnect (history)
  stopped,   \* controllers told to disconnect since they last connected (history)
  lost       \* losses under auto-reconnect and whether announced "will retry"
             \* (history; forgotten on a connect or disconnect command)

manager == <<active, auto, shown, online, timer>>
worker == <<jobs, busy, link>>
history == <<off, stopped, lost>>
vars == <<active, auto, shown, online, ctl, timer, frames, shutdown, jobs,
          busy, link, inbox, off, stopped, lost>>

Job == {"connect", "disconnect"}
Signal == [r : Radios, ev : {"up", "down", "error"}]
Frame == [kind : {"open"}, r : Radios]                       \* connectRadio
  \cup [kind : {"probe"}, r : Radios, of : {"open", "retry"}]  \* pre-flight
  \cup [kind : {"close"}, r : 1 .. N + 1, reopen : BOOLEAN]  \* disconnectRadio

TypeOK ==
  /\ active \in Radios /\ auto \in BOOLEAN /\ online \in BOOLEAN
  /\ off \in BOOLEAN
  /\ shown \subseteq Radios /\ ctl \subseteq Radios /\ timer \subseteq Radios
  /\ shutdown \subseteq Radios /\ busy \subseteq Radios /\ link \subseteq Radios
  /\ stopped \subseteq Radios
  /\ lost \in [Radios -> {"no", "announced", "silent"}]
  /\ jobs \in [Radios -> Seq(Job)]
  /\ inbox \in Seq(Signal)
  /\ frames \in Seq(Frame)

Init ==
  /\ active = 1 /\ auto = FALSE /\ online = FALSE /\ off = FALSE
  /\ shown = {} /\ ctl = {} /\ timer = {}
  /\ shutdown = {} /\ busy = {} /\ link = {} /\ stopped = {}
  /\ lost = [r \in Radios |-> "no"]
  /\ jobs = [r \in Radios |-> <<>>] /\ inbox = <<>> /\ frames = <<>>

-----------------------------------------------------------------------------
(* Connecting.                                                             *)

Below == Tail(frames)
Push(f, below) == frames' = <<f>> \o below
Running(k) == frames # <<>> /\ Head(frames).kind = k
Room == Len(frames) < MaxFrames
Forget(rs) == [r \in Radios |-> IF r \in rs THEN "no" ELSE lost[r]]

(* RadioManager::connectRadio up to its processEvents call.                *)
OpenRadio(r, below, timers) ==
  /\ timer' = timers \ {r}
  /\ lost' = Forget({r})
  /\ Push([kind |-> "open", r |-> r], below)

(* Mutant of Recreate: the old radio is deleted without closing its rig.   *)
RecreateLeavesRig(r, queue) ==
  /\ shutdown' = shutdown \ {r}
  /\ ctl' = ctl \ {r}
  /\ jobs' = [jobs EXCEPT ![r] = queue]
  /\ busy' = busy \ {r}
  /\ stopped' = stopped \ {r}
  /\ UNCHANGED link

(* RadioController::connectToRadio up to the probe.  recreateRadio waits   *)
(* for every job of the old radio and for its disconnect, with the old     *)
(* radio's signals already cut off.                                        *)
Recreate(r, queue) ==
  /\ shutdown' = shutdown \ {r}
  /\ ctl' = ctl \ {r}
  /\ jobs' = [jobs EXCEPT ![r] = queue]
  /\ busy' = busy \ {r}
  /\ link' = link \ {r}
  /\ stopped' = stopped \ {r}

(* Mutant of Resume: onTimeout leaves its single-shot timer off.           *)
ResumeNoRestart(of, r, below, timers) ==
  IF of = "open" /\ r < N
  THEN OpenRadio(r + 1, below, timers) /\ UNCHANGED <<active, auto>>
  ELSE /\ active' = (IF of = "retry" THEN active ELSE DefaultActive)
       /\ auto' = (auto \/ of = "open")
       /\ timer' = timers
       /\ frames' = below
       /\ UNCHANGED lost

(* What runs after connectToRadio returned for r: the next radio of the    *)
(* station profile and then its default active radio, or the restart of    *)
(* the retry timer at the end of ReconnectionManager::onTimeout.           *)
Resume(of, r, below, timers) ==
  IF of = "retry"
  THEN /\ timer' = timers \cup {r}
       /\ frames' = below
       /\ UNCHANGED <<active, auto, lost>>
  ELSE IF r < N
  THEN OpenRadio(r + 1, below, timers) /\ UNCHANGED <<active, auto>>
  ELSE /\ active' = DefaultActive
       /\ auto' = TRUE
       /\ timer' = timers
       /\ frames' = below
       /\ UNCHANGED lost

(* RadioController::connectToRadio called from "of" with r's frame below.  *)
ConnectToRadio(of, r, below) ==
  IF r \in Networked
  THEN /\ Recreate(r, <<>>)
       /\ Push([kind |-> "probe", r |-> r, of |-> of], below)
       /\ UNCHANGED <<active, auto, timer, lost>>
  ELSE /\ Recreate(r, <<"connect">>)
       /\ Resume(of, r, below, timer)

(* Radio > Connect (MainWindow::onRadioConnect).                           *)
OpConnect ==
  /\ ~online /\ Room
  /\ OpenRadio(1, frames, timer)
  /\ off' = FALSE
  /\ UNCHANGED <<active, auto, shown, online, ctl, shutdown, worker, inbox,
                 stopped>>

(* processEvents of connectRadio returns.                                  *)
OpenProceeds ==
  /\ Running("open")
  /\ ConnectToRadio("open", Head(frames).r, Below)
  /\ UNCHANGED <<shown, online, inbox, off>>

(* The retry timer fires while auto-reconnect is on (with it off the       *)
(* handler does nothing and the timer runs on).  The timer runs for 10 s:  *)
(* a probe takes 2 s, so no frame of this radio is waiting, and a worker   *)
(* that is not inside rig_open has taken up its jobs.                      *)
Timeout(r) ==
  /\ r \in timer /\ auto /\ Room
  /\ r \in busy \/ jobs[r] = <<>>
  /\ \A i \in DOMAIN frames : frames[i].kind = "close" \/ frames[i].r # r
  /\ IF r \in Networked
     THEN /\ Recreate(r, <<>>)
          /\ timer' = timer \ {r}
          /\ Push([kind |-> "probe", r |-> r, of |-> "retry"], frames)
          /\ UNCHANGED <<active, auto, lost>>
     ELSE ConnectToRadio("retry", r, frames)
  /\ UNCHANGED <<shown, online, inbox, off>>

(* The probe answered: the connect call is queued on whatever radio the    *)
(* controller holds now.                                                   *)
ProbeAnswers ==
  /\ Running("probe")
  /\ LET f == Head(frames) IN
       /\ Len(jobs[f.r]) < MaxQueue
       /\ jobs' = [jobs EXCEPT ![f.r] = Append(@, "connect")]
       /\ Resume(f.of, f.r, Below, timer)
  /\ UNCHANGED <<shown, online, ctl, shutdown, busy, link, inbox, off, stopped>>

(* RadioManager::onRadioErrorIndexed.                                      *)
TimersAfterError(r) ==
  IF auto /\ r \notin shown THEN timer \cup {r} ELSE timer

(* The probe failed or timed out: errorOccurred, and nothing is queued.    *)
ProbeFails ==
  /\ Running("probe")
  /\ LET f == Head(frames) IN
       Resume(f.of, f.r, Below, TimersAfterError(f.r))
  /\ UNCHANGED <<shown, online, ctl, shutdown, worker, inbox, off, stopped>>
-----------------------------------------------------------------------------
(* Disconnecting and switching.                                            *)

(* RadioManager::disconnectFromRadio from radio "from" on: the timers of   *)
(* the radios it passes are reset, and the first one shown connected is    *)
(* told to disconnect (disconnectRadio, up to its processEvents call).     *)
Reset(rs) == timer' = timer \ rs /\ lost' = Forget(rs)
Passed(from, last) == {r \in Radios : from - 1 <= r /\ r <= last}

TellDisconnect(r) ==
  /\ Len(jobs[r]) < MaxQueue
  /\ shutdown' = shutdown \cup {r}
  /\ stopped' = stopped \cup {r}
  /\ jobs' = [jobs EXCEPT ![r] = Append(@, "disconnect")]

CloseFrom(from, below, reopen) ==
  LET live == {r \in from .. N : r \in shown} IN
  \/ \E r \in live :
       /\ \A q \in live : r <= q
       /\ Reset(Passed(from, r))
       /\ TellDisconnect(r)
       /\ Push([kind |-> "close", r |-> r + 1, reopen |-> reopen], below)
  \/ /\ live = {}
     /\ IF reopen
        THEN /\ Reset({1} \cup Passed(from, N))
             /\ Push([kind |-> "open", r |-> 1], below)
        ELSE Reset(Passed(from, N)) /\ frames' = below
     /\ UNCHANGED <<shutdown, stopped, jobs>>

(* Radio > Disconnect, or "Reconnect with new settings?" answered yes,     *)
(* which connects again as soon as the disconnect call returns.            *)
OpDisconnect(reopen) ==
  /\ online /\ Room
  /\ auto' = FALSE
  /\ off' = ~reopen
  /\ CloseFrom(1, frames, reopen)
  /\ UNCHANGED <<active, shown, online, ctl, busy, link, inbox>>

(* processEvents of disconnectRadio returns.                               *)
CloseProceeds ==
  /\ Running("close")
  /\ CloseFrom(Head(frames).r, Below, Head(frames).reopen)
  /\ UNCHANGED <<active, auto, shown, online, ctl, busy, link, inbox, off>>

(* RadioManager::toggleActiveRadio.                                        *)
Toggle(r) ==
  /\ r # active /\ r \in shown
  /\ active' = r
  /\ online' = TRUE
  /\ UNCHANGED <<auto, shown, ctl, timer, frames, shutdown, worker, inbox,
                 history>>
-----------------------------------------------------------------------------
(* The worker threads.                                                     *)

Post(r, ev) ==
  /\ Len(inbox) < MaxQueue
  /\ inbox' = Append(inbox, [r |-> r, ev |-> ev])

NextJob(r, job) == r \notin busy /\ jobs[r] # <<>> /\ Head(jobs[r]) = job
Take(r) == jobs' = [jobs EXCEPT ![r] = Tail(@)]

(* Mutant of BeginConnect: the shutdown flag is not looked at.             *)
BeginConnectAnyway(r) ==
  /\ NextJob(r, "connect")
  /\ Take(r)
  /\ busy' = busy \cup {r} /\ link' = link \ {r}
  /\ UNCHANGED <<manager, ctl, frames, shutdown, inbox, history>>

(* The connect call starts: it gives up under the shutdown flag, and else  *)
(* closes a rig still open and enters rig_open.                            *)
BeginConnect(r) ==
  /\ NextJob(r, "connect")
  /\ Take(r)
  /\ IF r \in shutdown THEN UNCHANGED <<busy, link>>
     ELSE busy' = busy \cup {r} /\ link' = link \ {r}
  /\ UNCHANGED <<manager, ctl, frames, shutdown, inbox, history>>

ConnectSucceeds(r) ==
  /\ r \in busy
  /\ busy' = busy \ {r}
  /\ link' = link \cup {r}
  /\ Post(r, "up")
  /\ UNCHANGED <<manager, ctl, frames, shutdown, jobs, history>>

(* rig_open failed (down), or already rig_init did (error).                *)
ConnectFails(r) ==
  /\ r \in busy
  /\ busy' = busy \ {r}
  /\ \E ev \in {"down", "error"} : Post(r, ev)
  /\ UNCHANGED <<manager, ctl, frames, shutdown, jobs, link, history>>

RunDisconnect(r) ==
  /\ NextJob(r, "disconnect")
  /\ Take(r)
  /\ link' = link \ {r}
  /\ Post(r, "down")
  /\ UNCHANGED <<manager, ctl, frames, shutdown, busy, history>>

(* Too many polls in a row failed (handlePollError).                       *)
LinkLost(r) ==
  /\ r \in link /\ r \notin busy
  /\ link' = link \ {r}
  /\ Post(r, "down")
  /\ UNCHANGED <<manager, ctl, frames, shutdown, jobs, busy, history>>
-----------------------------------------------------------------------------
(* Signals reach RadioController's lambda and RadioManager's slot.         *)

DeliverUp(r) ==
  /\ ctl' = ctl \cup {r}
  /\ shown' = shown \cup {r}
  /\ timer' = timer \ {r}
  /\ lost' = Forget({r})
  /\ online' = (online \/ r = active)

DeliverDown(r) ==
  LET retry == r = active /\ auto IN
  /\ ctl' = ctl \ {r}
  /\ shown' = shown \ {r}
  /\ timer' = IF retry THEN timer \cup {r} ELSE timer
  /\ lost' = IF retry THEN [lost EXCEPT ![r] = "announced"]
             ELSE IF auto /\ r \in shown THEN [lost EXCEPT ![r] = "silent"]
             ELSE lost
  /\ online' = (online /\ r # active)

DeliverError(r) ==
  /\ timer' = TimersAfterError(r)
  /\ UNCHANGED <<ctl, shown, lost, online>>

Deliver ==
  /\ inbox # <<>>
  /\ inbox' = Tail(inbox)
  /\ LET s == Head(inbox) IN
       \/ s.ev = "up" /\ DeliverUp(s.r)
       \/ s.ev = "down" /\ DeliverDown(s.r)
       \/ s.ev = "error" /\ DeliverError(s.r)
  /\ UNCHANGED <<active, auto, frames, shutdown, worker, off, stopped>>

WorkerStep(r) ==
  \/ BeginConnect(r) \/ ConnectSucceeds(r) \/ ConnectFails(r)
  \/ RunDisconnect(r) \/ LinkLost(r)

Next ==
  \/ OpConnect \/ OpenProceeds \/ ProbeAnswers \/ ProbeFails
  \/ \E reopen \in BOOLEAN : OpDisconnect(reopen)
  \/ CloseProceeds
  \/ Deliver
  \/ \E r \in Radios : Timeout(r) \/ Toggle(r) \/ WorkerStep(r)

Spec == Init /\ [][Next]_vars

(* Both event loops keep running, a probe and rig_open end, and the radio  *)
(* is in reach: it answers some of the probes and some of the connects     *)
(* made again and again.                                                   *)
Fairness ==
  /\ WF_vars(Deliver) /\ WF_vars(OpenProceeds) /\ WF_vars(CloseProceeds)
  /\ WF_vars(ProbeAnswers \/ ProbeFails) /\ SF_vars(ProbeAnswers)
  /\ \A r \in Radios : WF_vars(Timeout(r)) /\ WF_vars(BeginConnect(r))
       /\ WF_vars(RunDisconnect(r)) /\ SF_vars(ConnectSucceeds(r))
       /\ WF_vars(ConnectSucceeds(r) \/ ConnectFails(r))

LiveSpec == Spec /\ Fairness
-----------------------------------------------------------------------------
(* Properties.                                                             *)

Told(r) == \E i \in DOMAIN inbox : inbox[i].r = r
Idle(r) == r \notin busy /\ jobs[r] = <<>> /\ ~Told(r)
Settled == frames = <<>> /\ \A r \in Radios : Idle(r)

(* A controller told to disconnect does not come up again: once its worker *)
(* has worked off its queue the rig is closed, whatever connect calls were *)
(* queued, running or waiting for a probe (RadioController).               *)
StoppedStaysDown ==
  \A r \in stopped : r \notin busy /\ jobs[r] = <<>> => r \notin link

(* A rig that is open is shown: when all its signals are delivered both    *)
(* the controller and RadioManager say connected, so the operator can      *)
(* always disconnect it.                                                   *)
LinkedIsShown ==
  \A r \in link : ~Told(r) => r \in ctl /\ r \in shown

(* A loss announced with "will retry" is retried: until the radio is back  *)
(* or auto-reconnect is off, its timer runs or an attempt is under way.    *)
RetriesContinue ==
  auto => \A r \in Radios : lost[r] = "announced" =>
    r \in timer \/ \E i \in DOMAIN frames :
                       frames[i] = [kind |-> "probe", r |-> r, of |-> "retry"]

(* A radio whose loss was announced comes back, however often the attempts *)
(* fail first, unless the operator takes over.                             *)
ComesBack ==
  \A r \in Radios : lost[r] = "announced" ~> (~auto \/ lost[r] # "announced")

(* Disconnect is final: nothing is linked when all is quiet after it.  It  *)
(* is not: an attempt in its probe or in rig_open is not told to stop.     *)
DisconnectIsFinal == off /\ Settled => link = {}
=============================================================================
