-------------------------- MODULE UdpBroadcastProofs --------------------------
(***************************************************************************)
(* Proofs about UdpBroadcast for any radios, dials, intervals and slack:   *)
(* no state is left pending without a timer, states of a radio are         *)
(* announced at least the throttle interval apart, and the broadcaster is  *)
(* never silent for two heartbeats.                                        *)
(***************************************************************************)
EXTENDS UdpBroadcast, TLAPS

USE BroadcastAssumption

(* What listeners heard is what was sent last.                             *)
HeardIsSent == \A r \in Radios : heard[r] = lastSent[r]

(* A running throttle timer has at least as long to go as any radio's news *)
(* is short of the throttle interval.                                      *)
ThrottleInv ==
  throttle # None => \A r \in Radios : sinceNews[r] + throttle >= Throttle

(* The heartbeat timer runs while broadcasts are enabled; when it fires    *)
(* the silence will still be within its bound.  Every send ends a silence. *)
BeatInv ==
  /\ enabled <=> beat # None
  /\ silence <= sinceSend
  /\ enabled /\ radioInfo /\ Repeated # {} => silence + beat <= 2 * Heartbeat - Slack

IInv == TypeOK /\ PendingIsTimed /\ HeardIsSent /\ ThrottleInv /\ BeatInv

(* The clocks, with their bounds, as TypeOK gives them.                    *)
LEMMA ClockFacts ==
  ASSUME TypeOK
  PROVE  /\ Throttle \in Nat /\ Heartbeat \in Nat /\ Slack \in Nat
         /\ throttle # None => throttle \in 0 .. Throttle
         /\ beat # None => beat \in 0 .. Heartbeat
         /\ Quiet \in Nat /\ sinceSend \in 0 .. Quiet /\ silence \in 0 .. Quiet
         /\ sinceNews \in [Radios -> 0 .. Throttle]
         /\ None \notin Nat
BY DEF TypeOK, Quiet

(* A radio's states are states, and no data is one of them.                *)
LEMMA StateFacts ==
  /\ \A r \in Radios : StatesOf(r) \subseteq States /\ NoData \in StatesOf(r)
  /\ States \subseteq Nat
BY DEF States, StatesOf, NoData

(* Queuing a state keeps the types, PendingIsTimed and ThrottleInv.        *)
LEMMA QueueKeeps ==
  ASSUME IInv, NEW rs, NEW state \in States, Queue(rs, state),
         UNCHANGED <<enabled, radioInfo, sinceNews>>
  PROVE  /\ pending' \in [Radios -> States \cup {None}]
         /\ throttle' \in 0 .. Throttle \cup {None}
         /\ PendingIsTimed' /\ ThrottleInv'
<1>0. TypeOK /\ PendingIsTimed /\ ThrottleInv
  BY DEF IInv
<1>1. CASE enabled /\ radioInfo
  <2>1. /\ pending' = [q \in Radios |-> IF q \in rs THEN state ELSE pending[q]]
        /\ throttle' = IF throttle = None THEN Throttle ELSE throttle
    BY <1>1 DEF Queue
  <2>2. pending' \in [Radios -> States \cup {None}]
    BY <1>0, <2>1 DEF TypeOK
  <2>3. throttle' \in 0 .. Throttle /\ throttle' # None
    BY <1>0, <2>1, ClockFacts
  <2>4. ThrottleInv'
    BY <1>0, <2>1, <2>3, ClockFacts DEF ThrottleInv
  <2>5. PendingIsTimed'
    BY <1>1, <2>3 DEF PendingIsTimed
  <2> QED
    BY <2>2, <2>3, <2>4, <2>5
<1>2. CASE ~(enabled /\ radioInfo)
  BY <1>0, <1>2 DEF Queue, TypeOK, PendingIsTimed, ThrottleInv
<1> QED
  BY <1>1, <1>2

(* What a send does to the clocks and to what was heard.                   *)
LEMMA SendKeeps ==
  ASSUME TypeOK, NEW tried, NEW ok, NEW news, Send(tried, ok, news),
         \A r \in tried : r \in Radios => news[r] \in States
  PROVE  /\ heard' \in [Radios -> States]
         /\ sinceNews' \in [Radios -> 0 .. Throttle]
         /\ sinceSend' \in 0 .. Quiet /\ silence' \in 0 .. Quiet
         /\ silence <= sinceSend => silence' <= sinceSend'
         /\ tried # {} => silence' = 0
         /\ tried = {} => silence' = silence
         /\ \A r \in Radios : heard'[r] = IF r \in ok THEN news[r] ELSE heard[r]
<1>1. /\ ok \subseteq tried
      /\ heard' = [r \in Radios |-> IF r \in ok THEN news[r] ELSE heard[r]]
      /\ sinceNews' = [r \in Radios |->
                     IF r \in ok /\ news[r] # heard[r] THEN 0 ELSE sinceNews[r]]
      /\ sinceSend' = IF ok = {} THEN sinceSend ELSE 0
      /\ silence' = IF tried = {} THEN silence ELSE 0
  BY DEF Send
<1>2. heard' \in [Radios -> States]
  BY <1>1 DEF TypeOK
<1>3. sinceNews' \in [Radios -> 0 .. Throttle]
  BY <1>1, ClockFacts
<1>4. sinceSend' \in 0 .. Quiet /\ silence' \in 0 .. Quiet
  BY <1>1, ClockFacts
<1>5. silence <= sinceSend => silence' <= sinceSend'
  BY <1>1, ClockFacts
<1> QED
  BY <1>1, <1>2, <1>3, <1>4, <1>5

(* Sending every due state that is pending, in whole or in part.           *)
LEMMA ThrottleStep ==
  ASSUME IInv, OnThrottleTimeout
  PROVE  IInv'
<1>0. TypeOK /\ PendingIsTimed /\ HeardIsSent /\ BeatInv
  BY DEF IInv
<1> DEFINE due == {r \in Radios : pending[r] \notin {None, NoData, lastSent[r]}}
<1>1. PICK ok \in SUBSET due :
        /\ Send(due, ok, pending)
        /\ lastSent' = [r \in Radios |->
                          IF r \in ok THEN pending[r] ELSE lastSent[r]]
  BY DEF OnThrottleTimeout
<1>2. /\ pending' = [r \in Radios |-> None] /\ throttle' = None
      /\ UNCHANGED <<radio, announcer, settings, beat>>
  BY DEF OnThrottleTimeout
<1>3. \A r \in due : r \in Radios /\ pending[r] \in States
  BY <1>0 DEF TypeOK
<1>4. /\ heard' \in [Radios -> States]
      /\ sinceNews' \in [Radios -> 0 .. Throttle]
      /\ sinceSend' \in 0 .. Quiet /\ silence' \in 0 .. Quiet
      /\ silence <= sinceSend => silence' <= sinceSend'
      /\ due # {} => silence' = 0
      /\ due = {} => silence' = silence
      /\ \A r \in Radios : heard'[r] = IF r \in ok THEN pending[r] ELSE heard[r]
  <2> HIDE DEF due
  <2> QED
    BY <1>0, <1>1, <1>3, SendKeeps
<1>5. lastSent' \in [Radios -> States]
  BY <1>0, <1>1, <1>3 DEF TypeOK
<1>6. TypeOK'
  <2>1. pending' \in [Radios -> States \cup {None}]
    BY <1>2
  <2>2. enabled' \in BOOLEAN /\ radioInfo' \in BOOLEAN
    BY <1>0, <1>2, Zenon DEF TypeOK, settings
  <2> QED
    BY <1>0, <1>2, <1>4, <1>5, <2>1, <2>2 DEF TypeOK, radio
<1>7. PendingIsTimed' /\ ThrottleInv'
  BY <1>2 DEF PendingIsTimed, ThrottleInv
<1>8. HeardIsSent'
  BY <1>0, <1>1, <1>4 DEF HeardIsSent
<1>9. BeatInv'
  <2>1. (enabled <=> beat # None)' /\ UNCHANGED <<enabled, radioInfo, beat>>
    BY <1>0, <1>2 DEF BeatInv, settings
  <2>2. due = {} => Repeated' = Repeated
    <3>1. due = {} => ok = {}
      OBVIOUS
    <3>2. ok = {} => \A r \in Radios : lastSent'[r] = lastSent[r]
      BY <1>1
    <3> QED
      BY <3>1, <3>2 DEF Repeated
  <2>3. beat # None => beat <= Heartbeat /\ beat \in Nat
    BY <1>0, ClockFacts
  <2>4. due # {} /\ enabled => silence' + beat' <= 2 * Heartbeat - Slack
    <3>1. due # {} => silence' = 0
      BY <1>4
    <3> HIDE DEF due
    <3> QED
      BY <2>1, <2>3, <3>1
  <2>5. due = {} => silence' = silence
    BY <1>4
  <2> HIDE DEF due
  <2> QED
    BY <1>0, <1>4, <2>1, <2>2, <2>4, <2>5 DEF BeatInv
<1> QED
  BY <1>6, <1>7, <1>8, <1>9 DEF IInv

(* A beat repeats what was sent, or is skipped because something was sent. *)
LEMMA HeartbeatStep ==
  ASSUME IInv, OnHeartbeatTimeout
  PROVE  IInv'
<1>0. TypeOK /\ PendingIsTimed /\ HeardIsSent /\ BeatInv /\ ThrottleInv
  BY DEF IInv
<1>1. /\ beat = 0 /\ beat' = Heartbeat
      /\ UNCHANGED <<radio, announcer, settings, pending, lastSent, throttle>>
  BY DEF OnHeartbeatTimeout
<1>2. enabled' \in BOOLEAN /\ radioInfo' \in BOOLEAN
  BY <1>0, <1>1, Zenon DEF TypeOK, settings
<1>3. Repeated' = Repeated
  BY <1>1 DEF Repeated
<1>4. CASE ~HeartbeatDue
  <2>1. UNCHANGED <<heard, sinceSend, sinceNews, silence>>
    BY <1>4 DEF OnHeartbeatTimeout, clocks
  <2>2. TypeOK'
    BY <1>0, <1>1, <1>2, <2>1 DEF TypeOK, radio
  <2>3. PendingIsTimed' /\ ThrottleInv' /\ HeardIsSent'
    BY <1>0, <1>1, <2>1 DEF PendingIsTimed, ThrottleInv, HeardIsSent, settings
  <2>4. BeatInv'
    <3>1. enabled /\ radioInfo => sinceSend < Heartbeat - Slack
      BY <1>0, <1>4, ClockFacts DEF HeartbeatDue
    <3> QED
      BY <1>0, <1>1, <2>1, <3>1, ClockFacts DEF BeatInv, settings
  <2> QED
    BY <2>2, <2>3, <2>4 DEF IInv
<1>5. CASE HeartbeatDue
  <2>1. PICK ok \in SUBSET Repeated : Send(Repeated, ok, lastSent)
    BY <1>5 DEF OnHeartbeatTimeout
  <2>2. \A r \in Repeated : r \in Radios /\ lastSent[r] \in States
    BY <1>0 DEF Repeated, TypeOK
  <2>3. /\ heard' \in [Radios -> States]
        /\ sinceNews' \in [Radios -> 0 .. Throttle]
        /\ sinceSend' \in 0 .. Quiet /\ silence' \in 0 .. Quiet
        /\ silence <= sinceSend => silence' <= sinceSend'
        /\ Repeated # {} => silence' = 0
        /\ \A r \in Radios : heard'[r] = IF r \in ok THEN lastSent[r] ELSE heard[r]
    BY <1>0, <2>1, <2>2, SendKeeps
  <2>4. \A r \in Radios : sinceNews'[r] = sinceNews[r]
    BY <1>0, <2>1 DEF Send, HeardIsSent
  <2>5. TypeOK'
    BY <1>0, <1>1, <1>2, <2>3 DEF TypeOK, radio
  <2>6. PendingIsTimed'
    BY <1>0, <1>1 DEF PendingIsTimed, settings
  <2>7. ThrottleInv'
    BY <1>0, <1>1, <2>4 DEF ThrottleInv
  <2>8. HeardIsSent'
    BY <1>0, <1>1, <2>3 DEF HeardIsSent
  <2>9. BeatInv'
    BY <1>0, <1>1, <1>3, <2>3, ClockFacts DEF BeatInv, settings
  <2> QED
    BY <2>5, <2>6, <2>7, <2>8, <2>9 DEF IInv
<1> QED
  BY <1>4, <1>5

(* The clock goes on: what a timer loses, the ages gain.                   *)
LEMMA TickStep ==
  ASSUME IInv, Tick
  PROVE  IInv'
<1>0. TypeOK /\ PendingIsTimed /\ HeardIsSent /\ BeatInv /\ ThrottleInv
  BY DEF IInv
<1>1. /\ throttle # 0 /\ beat # 0
      /\ throttle' = IF throttle = None THEN None ELSE throttle - 1
      /\ beat' = IF beat = None THEN None ELSE beat - 1
      /\ sinceSend' = IF sinceSend = Quiet THEN Quiet ELSE sinceSend + 1
      /\ silence' = IF silence = Quiet THEN Quiet ELSE silence + 1
      /\ sinceNews' = [r \in Radios |-> IF sinceNews[r] = Throttle THEN Throttle
                                        ELSE sinceNews[r] + 1]
      /\ UNCHANGED <<radio, announcer, settings, pending, lastSent, heard>>
  BY DEF Tick, Later, Older
<1>2. enabled' \in BOOLEAN /\ radioInfo' \in BOOLEAN
  BY <1>0, <1>1, Zenon DEF TypeOK, settings
<1>3. throttle' \in 0 .. Throttle \cup {None} /\ (throttle' = None <=> throttle = None)
  BY <1>0, <1>1, ClockFacts
<1>4. beat' \in 0 .. Heartbeat \cup {None} /\ (beat' = None <=> beat = None)
  BY <1>0, <1>1, ClockFacts
<1>5. sinceSend' \in 0 .. Quiet /\ silence' \in 0 .. Quiet
        /\ sinceNews' \in [Radios -> 0 .. Throttle]
  BY <1>0, <1>1, ClockFacts
<1>6. TypeOK'
  BY <1>0, <1>1, <1>2, <1>3, <1>4, <1>5 DEF TypeOK, radio
<1>7. PendingIsTimed' /\ HeardIsSent'
  BY <1>0, <1>1, <1>3 DEF PendingIsTimed, HeardIsSent, settings
<1>8. ThrottleInv'
  BY <1>0, <1>1, <1>3, ClockFacts DEF ThrottleInv
<1>9. BeatInv'
  <2>1. Repeated' = Repeated /\ UNCHANGED <<enabled, radioInfo>>
    BY <1>1 DEF Repeated, settings
  <2>2. silence' <= sinceSend'
    BY <1>0, <1>1, ClockFacts DEF BeatInv
  <2>3. beat # None => silence' + beat' <= silence + beat
    BY <1>0, <1>1, ClockFacts
  <2>4. beat # None => silence' + beat' \in Nat /\ silence + beat \in Nat
    BY <1>0, <1>1, ClockFacts
  <2>5. enabled /\ radioInfo /\ Repeated # {} => silence' + beat' <= 2 * Heartbeat - Slack
    BY <1>0, <2>3, <2>4, ClockFacts DEF BeatInv
  <2> QED
    BY <1>0, <1>4, <2>1, <2>2, <2>5 DEF BeatInv
<1> QED
  BY <1>6, <1>7, <1>8, <1>9 DEF IInv

(* Every step keeps the inductive invariant.                               *)
LEMMA Step == IInv /\ [Next]_vars => IInv'
<1> SUFFICES ASSUME IInv, [Next]_vars PROVE IInv'
  OBVIOUS
<1>0. TypeOK /\ PendingIsTimed /\ HeardIsSent /\ BeatInv /\ ThrottleInv
  BY DEF IInv
<1>1. ASSUME NEW r \in Radios, NEW s \in StatesOf(r), RadioReports(r, s)
      PROVE  IInv'
  <2>1. /\ up' = up \cup {r} /\ rig' = [rig EXCEPT ![r] = s]
        /\ Queue({r} \cup IF r = active THEN {announcer} ELSE {}, s)
        /\ UNCHANGED <<active, announcer, enabled, radioInfo, lastSent, beat,
                       sinceSend, sinceNews, silence, heard>>
    BY <1>1 DEF RadioReports, settings, clocks
  <2>2. s \in States
    BY <1>1, StateFacts
  <2>3. /\ pending' \in [Radios -> States \cup {None}]
        /\ throttle' \in 0 .. Throttle \cup {None}
        /\ PendingIsTimed' /\ ThrottleInv'
    BY <2>1, <2>2, QueueKeeps
  <2>4. TypeOK'
    BY <1>0, <2>1, <2>2, <2>3 DEF TypeOK
  <2>5. HeardIsSent' /\ BeatInv'
    BY <1>0, <2>1 DEF HeardIsSent, BeatInv, Repeated
  <2> QED
    BY <2>3, <2>4, <2>5 DEF IInv
<1>2. ASSUME NEW r \in Radios, RadioGone(r) PROVE IInv'
  <2>1. /\ up' = up \ {r}
        /\ UNCHANGED <<rig, active, announcer, enabled, radioInfo, pending,
                lastSent, throttle, beat, sinceSend, sinceNews, silence, heard>>
    BY <1>2 DEF RadioGone, settings, clocks
  <2>2. TypeOK'
    BY <1>0, <2>1 DEF TypeOK
  <2> QED
    BY <1>0, <2>1, <2>2 DEF IInv, PendingIsTimed, HeardIsSent, ThrottleInv,
                            BeatInv, Repeated
<1>3. ASSUME NEW r \in Radios, SetActiveRadio(r) PROVE IInv'
  <2>1. /\ active' = r /\ announcer' = r /\ Queue({r}, rig[r])
        /\ UNCHANGED <<up, rig, enabled, radioInfo, lastSent, beat,
                       sinceSend, sinceNews, silence, heard>>
    BY <1>3 DEF SetActiveRadio, settings, clocks
  <2>2. rig[r] \in States
    BY <1>0, <1>3 DEF TypeOK
  <2>3. /\ pending' \in [Radios -> States \cup {None}]
        /\ throttle' \in 0 .. Throttle \cup {None}
        /\ PendingIsTimed' /\ ThrottleInv'
    BY <2>1, <2>2, QueueKeeps
  <2>4. TypeOK'
    BY <1>0, <1>3, <2>1, <2>3 DEF TypeOK
  <2>5. HeardIsSent' /\ BeatInv'
    BY <1>0, <2>1 DEF HeardIsSent, BeatInv, Repeated
  <2> QED
    BY <2>3, <2>4, <2>5 DEF IInv
<1>4. ASSUME ApplyProfile PROVE IInv'
  <2>1. /\ active' = DefaultActive
        /\ UNCHANGED <<up, rig, announcer, enabled, radioInfo, pending,
                lastSent, throttle, beat, sinceSend, sinceNews, silence, heard>>
    BY <1>4 DEF ApplyProfile, settings, clocks
  <2>2. TypeOK'
    BY <1>0, <2>1 DEF TypeOK
  <2> QED
    BY <1>0, <2>1, <2>2 DEF IInv, PendingIsTimed, HeardIsSent, ThrottleInv,
                            BeatInv, Repeated
<1>5. ASSUME NEW e \in BOOLEAN, NEW ri \in BOOLEAN, LoadSettings(e, ri)
      PROVE  IInv'
  <2>1. /\ enabled' = e /\ radioInfo' = ri
        /\ beat' = IF e THEN Heartbeat ELSE None
        /\ throttle' = IF e THEN throttle ELSE None
        /\ pending' = IF e THEN pending ELSE [r \in Radios |-> None]
        /\ silence' = 0
        /\ UNCHANGED <<up, rig, active, announcer, lastSent, sinceSend, heard,
                       sinceNews>>
    BY <1>5 DEF LoadSettings, radio
  <2>2. enabled' \in BOOLEAN /\ radioInfo' \in BOOLEAN
    BY <2>1, Zenon
  <2>3. pending' \in [Radios -> States \cup {None}]
    BY <1>0, <2>1 DEF TypeOK
  <2>4. /\ beat' \in 0 .. Heartbeat \cup {None}
        /\ throttle' \in 0 .. Throttle \cup {None}
        /\ silence' \in 0 .. Quiet
    BY <1>0, <2>1, ClockFacts DEF TypeOK
  <2>5. TypeOK'
    BY <1>0, <2>1, <2>2, <2>3, <2>4 DEF TypeOK
  <2>6. PendingIsTimed' /\ ThrottleInv' /\ HeardIsSent'
    BY <1>0, <2>1 DEF TypeOK, PendingIsTimed, ThrottleInv, HeardIsSent
  <2>7. BeatInv'
    BY <1>0, <2>1, ClockFacts DEF BeatInv
  <2> QED
    BY <2>5, <2>6, <2>7 DEF IInv
<1>6. ASSUME OnQSOLogged PROVE IInv'
  <2>1. /\ sinceSend' \in {0, sinceSend} /\ silence' = 0
        /\ UNCHANGED <<up, rig, active, announcer, enabled, radioInfo, pending,
                       lastSent, throttle, beat, heard, sinceNews>>
    BY <1>6 DEF OnQSOLogged, radio, settings
  <2>2. sinceSend' \in 0 .. Quiet /\ silence' \in 0 .. Quiet
    BY <1>0, <2>1, ClockFacts
  <2>3. TypeOK'
    BY <1>0, <2>1, <2>2 DEF TypeOK
  <2>4. PendingIsTimed' /\ ThrottleInv' /\ HeardIsSent'
    BY <1>0, <2>1 DEF PendingIsTimed, ThrottleInv, HeardIsSent
  <2>5. BeatInv'
    BY <1>0, <2>1, <2>2, ClockFacts DEF BeatInv, Repeated
  <2> QED
    BY <2>3, <2>4, <2>5 DEF IInv
<1>7. CASE UNCHANGED vars
  BY <1>0, <1>7 DEF vars, IInv, TypeOK, PendingIsTimed, HeardIsSent, ThrottleInv,
                    BeatInv, Repeated
<1> QED
  BY <1>1, <1>2, <1>3, <1>4, <1>5, <1>6, <1>7, ThrottleStep, HeartbeatStep,
     TickStep DEF Next

-----------------------------------------------------------------------------
(* The inductive invariant holds in every state.                           *)
THEOREM BroadcastInvariance == Spec => []IInv
<1>1. Init => IInv
  <2> SUFFICES ASSUME Init PROVE IInv
    OBVIOUS
  <2>1. enabled \in BOOLEAN /\ radioInfo \in BOOLEAN
    BY Zenon DEF Init
  <2>2. NoData \in States
    BY StateFacts
  <2>3. beat \in 0 .. Heartbeat \cup {None} /\ sinceSend \in 0 .. Quiet
          /\ silence \in 0 .. Quiet
    BY DEF Init, Quiet
  <2>4. TypeOK
    BY <2>1, <2>2, <2>3 DEF Init, TypeOK
  <2>5. PendingIsTimed /\ HeardIsSent /\ ThrottleInv
    BY DEF Init, PendingIsTimed, HeardIsSent, ThrottleInv
  <2>6. BeatInv
    BY DEF Init, BeatInv, Quiet
  <2> QED
    BY <2>4, <2>5, <2>6 DEF IInv
<1> QED
  BY <1>1, Step, PTL DEF Spec

(* Type correctness, for any radios, dials and intervals.                  *)
THEOREM BroadcastTypes == Spec => []TypeOK
<1>1. IInv => TypeOK
  BY DEF IInv
<1> QED
  BY <1>1, BroadcastInvariance, PTL

(* UdpBroadcastManager never holds a state back without the throttle timer *)
(* that will announce it, whatever order the switches are set in.          *)
THEOREM PendingIsAnnounced == Spec => []PendingIsTimed
<1>1. IInv => PendingIsTimed
  BY DEF IInv
<1> QED
  BY <1>1, BroadcastInvariance, PTL

(* While RadioInfo is on and a radio has been announced, a send is tried   *)
(* before two heartbeats have passed.                                      *)
THEOREM HeartGoesOn == Spec => []NeverSilent
<1>1. IInv => NeverSilent
  BY ClockFacts DEF IInv, BeatInv, NeverSilent
<1> QED
  BY <1>1, BroadcastInvariance, PTL

(* Two different states of a radio are announced at least the throttle     *)
(* interval apart: only the throttle timer announces news, and it has run  *)
(* its whole interval since the previous news.                             *)
THEOREM NewsIsThrottled == Spec => Throttled
<1> DEFINE A == \A r \in Radios : heard'[r] # heard[r] => sinceNews[r] >= Throttle
<1>1. IInv /\ Next => A
  <2> SUFFICES ASSUME IInv, Next PROVE A
    OBVIOUS
  <2>1. CASE OnThrottleTimeout
    <3>1. throttle = 0 /\ throttle # None
      BY <2>1 DEF OnThrottleTimeout
    <3> QED
      BY <3>1, ClockFacts DEF IInv, ThrottleInv
  <2>2. CASE OnHeartbeatTimeout
    <3>1. HeardIsSent /\ (HeartbeatDue \/ heard' = heard)
      BY <2>2 DEF OnHeartbeatTimeout, IInv
    <3>2. ASSUME HeartbeatDue PROVE \A r \in Radios : heard'[r] = heard[r]
      BY <2>2, <3>1, <3>2, SMT DEF OnHeartbeatTimeout, Send, HeardIsSent
    <3> QED
      BY <3>1, <3>2
  <2>3. CASE ~OnThrottleTimeout /\ ~OnHeartbeatTimeout
    <3>1. heard' = heard
      BY <2>3 DEF Next, RadioReports, RadioGone, SetActiveRadio, ApplyProfile,
                  LoadSettings, OnQSOLogged, Tick
    <3> QED
      BY <3>1
  <2> QED
    BY <2>1, <2>2, <2>3
<1>2. IInv /\ [Next]_vars => [A]_vars
  BY <1>1
<1>3. Throttled <=> [][A]_vars
  BY DEF Throttled
<1> QED
  BY <1>2, <1>3, BroadcastInvariance, PTL DEF Spec
=============================================================================
