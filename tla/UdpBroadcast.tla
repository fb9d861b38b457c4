---------------------------- MODULE UdpBroadcast ----------------------------
(***************************************************************************)
(* What listeners on the network hear about the radios: RadioManager's     *)
(* state signals, MainWindow's slots that pass them on (each radio's under *)
(* its own number, the active radio's a second time), and the throttle and *)
(* heartbeat timers of UdpBroadcastManager.  A radio state is its dial; 0  *)
(* is the frequency of a state without data.  Time is counted in ticks,    *)
(* and a timer that is due fires before the clock goes on.                 *)
(***************************************************************************)
EXTENDS Naturals

CONSTANTS Radios,         \* radio numbers
          Dials,          \* frequencies each radio may report
          FirstActive,    \* active radio at start
          DefaultActive,  \* active radio of the station profile
          Throttle,       \* m_throttleInterval
          Heartbeat,      \* HEARTBEAT_INTERVAL_MS
          Slack,          \* how much earlier than a period a send still counts
          None            \* no pending state, or a timer that is off

ASSUME BroadcastAssumption ==
  /\ FirstActive \in Radios /\ DefaultActive \in Radios
  /\ Dials \in [Radios -> SUBSET (Nat \ {0})]
  /\ Throttle \in Nat \ {0} /\ Heartbeat \in Nat \ {0}
  /\ Slack \in Nat /\ Slack < Heartbeat
  /\ None \notin Nat

NoData == 0
StatesOf(r) == Dials[r] \cup {NoData}
States == UNION {StatesOf(r) : r \in Radios}
Quiet == 2 * Heartbeat     \* clocks of the past stop counting here

VARIABLES
  up,        \* radios that are connected
  rig,       \* state each radio reported last
  active,    \* RadioManager::m_activeRadioIndex
  announcer, \* UdpBroadcastManager::m_activeRadioIndex
  enabled,   \* m_enabled
  radioInfo, \* m_radioInfoEnabled
  pending,   \* m_pendingRadioState where m_hasPendingRadioState, else None
  lastSent,  \* m_lastSentRadioState
  throttle,  \* ticks until m_throttleTimer fires, None when it is off
  beat,      \* the same for m_heartbeatTimer
  sinceSend, \* age of m_lastSendTime
  heard,     \* what listeners last heard about each radio number
  sinceNews, \* ticks since heard changed (history)
  silence    \* ticks since a send was tried or the settings loaded (history)

settings == <<enabled, radioInfo>>
radio == <<up, rig, active>>
clocks == <<sinceSend, sinceNews, silence>>
vars == <<up, rig, active, announcer, enabled, radioInfo, pending, lastSent,
          throttle, beat, sinceSend, heard, sinceNews, silence>>

TypeOK ==
  /\ up \subseteq Radios
  /\ rig \in [Radios -> States]
  /\ active \in Radios /\ announcer \in Radios
  /\ enabled \in BOOLEAN /\ radioInfo \in BOOLEAN
  /\ pending \in [Radios -> States \cup {None}]
  /\ lastSent \in [Radios -> States] /\ heard \in [Radios -> States]
  /\ throttle \in 0 .. Throttle \cup {None}
  /\ beat \in 0 .. Heartbeat \cup {None}
  /\ sinceSend \in 0 .. Quiet /\ silence \in 0 .. Quiet
  /\ sinceNews \in [Radios -> 0 .. Throttle]

Init ==
  /\ up = {} /\ active = FirstActive /\ announcer = FirstActive
  /\ enabled \in BOOLEAN /\ radioInfo \in BOOLEAN
  /\ rig = [r \in Radios |-> NoData]
  /\ pending = [r \in Radios |-> None]
  /\ lastSent = [r \in Radios |-> NoData] /\ heard = [r \in Radios |-> NoData]
  /\ throttle = None
  /\ beat = IF enabled THEN Heartbeat ELSE None
  /\ sinceSend = Quiet /\ silence = 0
  /\ sinceNews = [r \in Radios |-> Throttle]

-----------------------------------------------------------------------------
(* Mutant of Queue: the first state after a pause goes out at once.        *)
QueueAtOnce(rs, state) ==
  IF enabled /\ radioInfo
  THEN /\ pending' = [q \in Radios |-> IF q \in rs THEN state ELSE pending[q]]
       /\ throttle' = IF throttle = None THEN 0 ELSE throttle
  ELSE UNCHANGED <<pending, throttle>>

(* UdpBroadcastManager::onRadioStateChangedIndexed for each radio number   *)
(* in rs, with the state of radio r.                                       *)
Queue(rs, state) ==
  IF enabled /\ radioInfo
  THEN /\ pending' = [q \in Radios |-> IF q \in rs THEN state ELSE pending[q]]
       /\ throttle' = IF throttle = None THEN Throttle ELSE throttle
  ELSE UNCHANGED <<pending, throttle>>

(* A radio reports its state, as it does at every poll: once under its own *)
(* number and, when it is the active one, once through the slot that uses  *)
(* the broadcast manager's idea of the active radio.                       *)
RadioReports(r, state) ==
  /\ up' = up \cup {r}
  /\ rig' = [rig EXCEPT ![r] = state]
  /\ Queue({r} \cup IF r = active THEN {announcer} ELSE {}, state)
  /\ UNCHANGED <<active, announcer, settings, lastSent, beat, clocks, heard>>

(* A radio is gone: no state is reported.                                  *)
RadioGone(r) ==
  /\ r \in up
  /\ up' = up \ {r}
  /\ UNCHANGED <<rig, active, announcer, settings, pending, lastSent,
                 throttle, beat, clocks, heard>>

(* RadioManager::setActiveRadio: the broadcast manager is told, and the    *)
(* state of the new active radio is reported again.                        *)
SetActiveRadio(r) ==
  /\ r # active /\ r \in up
  /\ active' = r
  /\ announcer' = r
  /\ Queue({r}, rig[r])
  /\ UNCHANGED <<up, rig, settings, lastSent, beat, clocks, heard>>

(* The end of RadioManager::connectWithStationProfile, which tells nobody. *)
ApplyProfile ==
  /\ active' = DefaultActive
  /\ UNCHANGED <<up, rig, announcer, settings, pending, lastSent,
                 throttle, beat, clocks, heard>>

(* MainWindow::loadUdpBroadcastSettings: setEnabled (re)starts or stops    *)
(* the timers, setRadioInfoEnabled only sets its flag.                     *)
LoadSettings(e, ri) ==
  /\ enabled' = e /\ radioInfo' = ri
  /\ beat' = IF e THEN Heartbeat ELSE None
  /\ throttle' = IF e THEN throttle ELSE None
  /\ pending' = IF e THEN pending ELSE [r \in Radios |-> None]
  /\ silence' = 0
  /\ UNCHANGED <<radio, announcer, lastSent, sinceSend, heard, sinceNews>>

(* UdpBroadcaster::sendRawData for the radios in tried; it succeeds for    *)
(* those in ok, where at least one destination took the message.           *)
Send(tried, ok, news) ==
  /\ ok \subseteq tried
  /\ heard' = [r \in Radios |-> IF r \in ok THEN news[r] ELSE heard[r]]
  /\ sinceNews' = [r \in Radios |->
                     IF r \in ok /\ news[r] # heard[r] THEN 0 ELSE sinceNews[r]]
  /\ sinceSend' = IF ok = {} THEN sinceSend ELSE 0
  /\ silence' = IF tried = {} THEN silence ELSE 0

(* Mutant of OnThrottleTimeout: a state counts as sent although the send   *)
(* failed.                                                                 *)
OnThrottleTimeoutForgets ==
  /\ throttle = 0
  /\ LET due == {r \in Radios : pending[r] \notin {None, NoData, lastSent[r]}} IN
       /\ \E ok \in SUBSET due : Send(due, ok, pending)
       /\ lastSent' = [r \in Radios |->
                         IF r \in due THEN pending[r] ELSE lastSent[r]]
  /\ pending' = [r \in Radios |-> None]
  /\ throttle' = None
  /\ UNCHANGED <<radio, announcer, settings, beat>>

(* onThrottleTimeout: one message per radio whose pending state has data   *)
(* and differs from the one last sent; sent or not, nothing stays pending. *)
OnThrottleTimeout ==
  /\ throttle = 0
  /\ LET due == {r \in Radios : pending[r] \notin {None, NoData, lastSent[r]}} IN
       \E ok \in SUBSET due :
         /\ Send(due, ok, pending)
         /\ lastSent' = [r \in Radios |->
                           IF r \in ok THEN pending[r] ELSE lastSent[r]]
  /\ pending' = [r \in Radios |-> None]
  /\ throttle' = None
  /\ UNCHANGED <<radio, announcer, settings, beat>>

(* onHeartbeatTimeout: unless something was sent within the last period,   *)
(* the last sent state of every radio that ever had one is repeated.       *)
HeartbeatLate == enabled /\ radioInfo /\ sinceSend > Heartbeat   \* mutant
HeartbeatDue == enabled /\ radioInfo /\ sinceSend >= Heartbeat - Slack
Repeated == {r \in Radios : lastSent[r] # NoData}

OnHeartbeatTimeout ==
  /\ beat = 0
  /\ beat' = Heartbeat
  /\ IF HeartbeatDue
     THEN \E ok \in SUBSET Repeated : Send(Repeated, ok, lastSent)
     ELSE UNCHANGED <<heard, clocks>>
  /\ UNCHANGED <<radio, announcer, settings, pending, lastSent, throttle>>

(* onQSOLogged: a contact is broadcast at once and counts as a send.       *)
OnQSOLogged ==
  /\ enabled
  /\ sinceSend' \in {0, sinceSend}
  /\ silence' = 0
  /\ UNCHANGED <<radio, announcer, settings, pending, lastSent, throttle, beat,
                 heard, sinceNews>>

Later(t) == IF t = None THEN None ELSE t - 1
Older(t, most) == IF t = most THEN most ELSE t + 1

Tick ==
  /\ throttle # 0 /\ beat # 0
  /\ throttle' = Later(throttle) /\ beat' = Later(beat)
  /\ sinceSend' = Older(sinceSend, Quiet) /\ silence' = Older(silence, Quiet)
  /\ sinceNews' = [r \in Radios |-> Older(sinceNews[r], Throttle)]
  /\ UNCHANGED <<radio, announcer, settings, pending, lastSent, heard>>

Next ==
  \/ \E r \in Radios : \/ \E s \in StatesOf(r) : RadioReports(r, s)
                       \/ RadioGone(r) \/ SetActiveRadio(r)
  \/ ApplyProfile
  \/ \E e, ri \in BOOLEAN : LoadSettings(e, ri)
  \/ OnThrottleTimeout \/ OnHeartbeatTimeout \/ OnQSOLogged
  \/ Tick

Spec == Init /\ [][Next]_vars

(* The event loop runs and connected radios are polled; the network takes  *)
(* some of the messages tried again and again.                             *)
Fairness ==
  /\ WF_vars(Tick) /\ WF_vars(OnThrottleTimeout) /\ WF_vars(OnHeartbeatTimeout)
  /\ \A r \in Radios :
       /\ WF_vars(r \in up /\ RadioReports(r, rig[r]))
       /\ SF_vars(OnThrottleTimeout /\ heard'[r] = pending[r])

LiveSpec == Spec /\ Fairness
-----------------------------------------------------------------------------
(* Properties.                                                             *)

(* No state is left pending without the timer that will announce it, and   *)
(* none survives switching the broadcasts off.                             *)
PendingIsTimed ==
  \A r \in Radios : pending[r] # None => enabled /\ throttle # None

(* RadioInfo is throttled: listeners hear two different states of a radio  *)
(* at least the throttle interval apart, however the dial is turned and    *)
(* the broadcasts are switched meanwhile.                                  *)
Throttled ==
  [][\A r \in Radios : heard'[r] # heard[r] => sinceNews[r] >= Throttle]_vars

(* With a radio to tell about, the broadcaster never falls silent for two  *)
(* heartbeats: at most one beat in a row is skipped.                       *)
NeverSilent ==
  enabled /\ radioInfo /\ Repeated # {} => silence <= 2 * Heartbeat - Slack

(* Listeners catch up: once a connected radio keeps its dial and the       *)
(* settings stay on, its true state is what listeners go on hearing, even  *)
(* if some sends failed.  Left out is a radio under whose number another   *)
(* one, which is active and connected, reports as well: after ApplyProfile *)
(* nobody told the broadcast manager which radio is active.                *)
Stable(r, d) ==
  /\ r \in up /\ rig[r] = d /\ d # NoData
  /\ enabled /\ radioInfo
HasItsNumber(r) == announcer = r => active = r \/ active \notin up
ListenersCatchUp ==
  \A r \in Radios : \A d \in Dials[r] :
    <>[](Stable(r, d) /\ HasItsNumber(r)) => <>[](heard[r] = d)

(* The same of every radio: "Queues state for throttled broadcast with     *)
(* correct radio number" (UdpBroadcastManager.h:87).  Not after            *)
(* ApplyProfile, while a radio that is not announced as active reports.    *)
EachRadioIsHeard ==
  \A r \in Radios : \A d \in Dials[r] :
    <>[]Stable(r, d) => <>[](heard[r] = d)
=============================================================================
