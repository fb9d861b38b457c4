---------------------------- MODULE RadioProofs -----------------------------
(***************************************************************************)
(* Proofs about the two ways to a radio: the link every controller keeps up*)
(* (RadioLink), and the session of an Icom radio on the network            *)
(* (IcomSession).                                                          *)
(***************************************************************************)
EXTENDS RadioLink, IcomSession, TLAPS

-----------------------------------------------------------------------------
(***************************************************************************)
(* The radio link, for every number of radios, every choice of serial and  *)
(* network radios and every bound: types, that a controller told to        *)
(* disconnect stays down, that an open rig is shown, and that an announced *)
(* loss is retried.                                                        *)
(***************************************************************************)

USE RadiosAssumption DEF Radios

(* Frames of the three kinds are frames, and what a frame holds.           *)
LEMMA FrameFacts ==
  /\ \A r \in Radios : [kind |-> "open", r |-> r] \in Frame
  /\ \A r \in Radios, of \in {"open", "retry"} :
       [kind |-> "probe", r |-> r, of |-> of] \in Frame
  /\ \A r \in 1 .. N + 1, b \in BOOLEAN :
       [kind |-> "close", r |-> r, reopen |-> b] \in Frame
  /\ \A f \in Frame :
       /\ f.kind = "open" => f.r \in Radios
       /\ f.kind = "probe" => f.r \in Radios /\ f.of \in {"open", "retry"}
       /\ f.kind = "close" => f.r \in 1 .. N + 1 /\ f.reopen \in BOOLEAN
<1>1. \A r \in Radios : [kind |-> "open", r |-> r] \in [kind : {"open"}, r : Radios]
  OBVIOUS
<1>2. \A r \in Radios, of \in {"open", "retry"} :
        [kind |-> "probe", r |-> r, of |-> of]
          \in [kind : {"probe"}, r : Radios, of : {"open", "retry"}]
  OBVIOUS
<1>3. \A r \in 1 .. N + 1, b \in BOOLEAN :
        [kind |-> "close", r |-> r, reopen |-> b]
          \in [kind : {"close"}, r : 1 .. N + 1, reopen : BOOLEAN]
  OBVIOUS
<1>4. ASSUME NEW f \in Frame
      PROVE  /\ f.kind = "open" => f.r \in Radios
             /\ f.kind = "probe" => f.r \in Radios /\ f.of \in {"open", "retry"}
             /\ f.kind = "close" => f.r \in 1 .. N + 1 /\ f.reopen \in BOOLEAN
  BY DEF Frame
<1> QED
  BY <1>1, <1>2, <1>3, <1>4 DEF Frame

(* A stack of frames stays one when a frame is pushed or the top removed.  *)
LEMMA StackFacts ==
  ASSUME NEW s \in Seq(Frame), NEW f \in Frame
  PROVE  /\ <<f>> \o s \in Seq(Frame)
         /\ s # <<>> => Head(s) \in Frame /\ Tail(s) \in Seq(Frame)
<1>1. <<f>> \in Seq(Frame)
  OBVIOUS
<1> QED
  BY <1>1

(* What Resume changes keeps its type.                                     *)
LEMMA ResumeTypes ==
  ASSUME TypeOK, NEW of \in {"open", "retry"}, NEW r \in Radios,
         NEW below \in Seq(Frame), NEW timers \in SUBSET Radios,
         Resume(of, r, below, timers)
  PROVE  /\ timer' \subseteq Radios /\ frames' \in Seq(Frame)
         /\ active' \in Radios /\ auto' \in BOOLEAN
         /\ lost' \in [Radios -> {"no", "announced", "silent"}]
<1>0. /\ active \in Radios /\ auto \in BOOLEAN
      /\ lost \in [Radios -> {"no", "announced", "silent"}]
  BY DEF TypeOK
<1>1. CASE of = "retry"
  BY <1>0, <1>1 DEF Resume
<1>2. CASE of # "retry" /\ r < N
  <2>1. r + 1 \in Radios
    BY <1>2
  <2>2. [kind |-> "open", r |-> r + 1] \in Frame
    BY <2>1, FrameFacts
  <2>3. OpenRadio(r + 1, below, timers) /\ UNCHANGED <<active, auto>>
    BY <1>2 DEF Resume
  <2>4. frames' \in Seq(Frame)
    BY <2>2, <2>3, StackFacts DEF OpenRadio, Push
  <2> QED
    BY <1>0, <2>3, <2>4 DEF OpenRadio, Forget
<1>3. CASE of # "retry" /\ ~(r < N)
  <2>1. /\ active' = DefaultActive /\ auto' = TRUE /\ timer' = timers
        /\ frames' = below /\ lost' = lost
    BY <1>3 DEF Resume
  <2>2. auto' \in BOOLEAN
    BY <2>1, Zenon
  <2> QED
    BY <1>0, <2>1, <2>2
<1> QED
  BY <1>1, <1>2, <1>3

(* Recreating a radio keeps the types of the controller's state.           *)
LEMMA RecreateTypes ==
  ASSUME TypeOK, NEW r \in Radios, NEW queue \in Seq(Job), Recreate(r, queue)
  PROVE  /\ shutdown' \subseteq Radios /\ ctl' \subseteq Radios
         /\ busy' \subseteq Radios /\ link' \subseteq Radios
         /\ stopped' \subseteq Radios /\ jobs' \in [Radios -> Seq(Job)]
BY DEF TypeOK, Recreate

(* So does the whole connectToRadio.                                       *)
LEMMA ConnectTypes ==
  ASSUME TypeOK, NEW of \in {"open", "retry"}, NEW r \in Radios,
         NEW below \in Seq(Frame), ConnectToRadio(of, r, below)
  PROVE  /\ timer' \subseteq Radios /\ frames' \in Seq(Frame)
         /\ active' \in Radios /\ auto' \in BOOLEAN
         /\ lost' \in [Radios -> {"no", "announced", "silent"}]
         /\ shutdown' \subseteq Radios /\ ctl' \subseteq Radios
         /\ busy' \subseteq Radios /\ link' \subseteq Radios
         /\ stopped' \subseteq Radios /\ jobs' \in [Radios -> Seq(Job)]
<1>1. CASE r \in Networked
  <2>1. Recreate(r, <<>>) /\ Push([kind |-> "probe", r |-> r, of |-> of], below)
          /\ UNCHANGED <<active, auto, timer, lost>>
    BY <1>1 DEF ConnectToRadio
  <2>2. <<>> \in Seq(Job)
    OBVIOUS
  <2>3. [kind |-> "probe", r |-> r, of |-> of] \in Frame
    BY FrameFacts
  <2>4. frames' \in Seq(Frame)
    BY <2>1, <2>3, StackFacts DEF Push
  <2> QED
    BY <2>1, <2>2, <2>4, RecreateTypes DEF TypeOK
<1>2. CASE r \notin Networked
  <2>1. Recreate(r, <<"connect">>) /\ Resume(of, r, below, timer)
    BY <1>2 DEF ConnectToRadio
  <2>2. <<"connect">> \in Seq(Job)
    BY DEF Job
  <2>3. timer \in SUBSET Radios
    BY DEF TypeOK
  <2> QED
    BY <2>1, <2>2, <2>3, RecreateTypes, ResumeTypes
<1> QED
  BY <1>1, <1>2


(* Closing from radio "from" on keeps the types.                           *)
LEMMA CloseTypes ==
  ASSUME TypeOK, NEW from \in 1 .. N + 1, NEW below \in Seq(Frame),
         NEW reopen \in BOOLEAN, CloseFrom(from, below, reopen)
  PROVE  /\ shutdown' \subseteq Radios /\ stopped' \subseteq Radios
         /\ jobs' \in [Radios -> Seq(Job)] /\ timer' \subseteq Radios
         /\ lost' \in [Radios -> {"no", "announced", "silent"}]
         /\ frames' \in Seq(Frame)
<1> DEFINE live == {r \in from .. N : r \in shown}
           Goal == /\ shutdown' \subseteq Radios /\ stopped' \subseteq Radios
                   /\ jobs' \in [Radios -> Seq(Job)] /\ timer' \subseteq Radios
                   /\ lost' \in [Radios -> {"no", "announced", "silent"}]
                   /\ frames' \in Seq(Frame)
<1>0. ASSUME NEW rs, Reset(rs)
      PROVE  /\ timer' \subseteq Radios
             /\ lost' \in [Radios -> {"no", "announced", "silent"}]
  BY <1>0 DEF TypeOK, Reset, Forget
<1>1. ASSUME NEW r \in live, Reset(Passed(from, r)), TellDisconnect(r),
             Push([kind |-> "close", r |-> r + 1, reopen |-> reopen], below)
      PROVE  Goal
  <2>1. r \in Radios
    BY DEF TypeOK
  <2>2. r + 1 \in 1 .. N + 1
    BY <2>1
  <2>3. [kind |-> "close", r |-> r + 1, reopen |-> reopen] \in Frame
    BY <2>2, FrameFacts
  <2>4. frames' \in Seq(Frame)
    BY <1>1, <2>3, StackFacts DEF Push
  <2>5. /\ shutdown' \subseteq Radios /\ stopped' \subseteq Radios
        /\ jobs' \in [Radios -> Seq(Job)]
    BY <1>1, <2>1 DEF TypeOK, TellDisconnect, Job
  <2> QED
    BY <1>0, <1>1, <2>4, <2>5
<1>2. ASSUME Reset({1} \cup Passed(from, N)),
             Push([kind |-> "open", r |-> 1], below),
             UNCHANGED <<shutdown, stopped, jobs>>
      PROVE  Goal
  <2>1. [kind |-> "open", r |-> 1] \in Frame
    BY FrameFacts
  <2>2. frames' \in Seq(Frame)
    BY <1>2, <2>1, StackFacts DEF Push
  <2> QED
    BY <1>0, <1>2, <2>2 DEF TypeOK
<1>3. ASSUME Reset(Passed(from, N)), frames' = below,
             UNCHANGED <<shutdown, stopped, jobs>>
      PROVE  Goal
  BY <1>0, <1>3 DEF TypeOK
<1> QED
  BY <1>1, <1>2, <1>3 DEF CloseFrom

(* Every step keeps the types.                                             *)
LEMMA TypeStep == TypeOK /\ [Next]_vars => TypeOK'
<1> SUFFICES ASSUME TypeOK, [Next]_vars PROVE TypeOK'
  OBVIOUS
<1>0. CASE UNCHANGED vars
  BY <1>0 DEF TypeOK, vars
<1>1. CASE OpConnect
  <2>1. [kind |-> "open", r |-> 1] \in Frame
    BY FrameFacts
  <2>2. frames' \in Seq(Frame)
    BY <1>1, <2>1, StackFacts DEF OpConnect, OpenRadio, Push, TypeOK
  <2>3. off' \in BOOLEAN
    BY <1>1, Zenon DEF OpConnect
  <2>4. timer' \subseteq Radios /\ lost' \in [Radios -> {"no", "announced", "silent"}]
    BY <1>1 DEF OpConnect, OpenRadio, Forget, TypeOK
  <2> QED
    BY <1>1, <2>2, <2>3, <2>4 DEF OpConnect, OpenRadio, worker, TypeOK
<1>2. CASE OpenProceeds
  <2>1. frames # <<>> /\ Head(frames).kind = "open"
    BY <1>2 DEF OpenProceeds, Running
  <2>2. Head(frames) \in Frame /\ Below \in Seq(Frame)
    BY <2>1, StackFacts DEF TypeOK, Below
  <2>3. Head(frames).r \in Radios
    BY <2>1, <2>2, FrameFacts
  <2>4. ConnectToRadio("open", Head(frames).r, Below)
          /\ UNCHANGED <<shown, online, inbox, off>>
    BY <1>2 DEF OpenProceeds
  <2> HIDE DEF Below
  <2> QED
    BY <2>2, <2>3, <2>4, ConnectTypes DEF TypeOK
<1>3. ASSUME NEW r \in Radios, Timeout(r) PROVE TypeOK'
  <2>1. frames \in Seq(Frame)
    BY DEF TypeOK
  <2>2. CASE r \in Networked
    <3>1. [kind |-> "probe", r |-> r, of |-> "retry"] \in Frame
      BY FrameFacts
    <3>2. frames' \in Seq(Frame)
      BY <1>3, <2>1, <2>2, <3>1, StackFacts DEF Timeout, Push
    <3>3. <<>> \in Seq(Job) /\ Recreate(r, <<>>)
      BY <1>3, <2>2 DEF Timeout
    <3> QED
      BY <1>3, <2>2, <3>2, <3>3, RecreateTypes DEF Timeout, TypeOK
  <2>3. CASE r \notin Networked
    <3>1. ConnectToRadio("retry", r, frames) /\ UNCHANGED <<shown, online, inbox, off>>
      BY <1>3, <2>3 DEF Timeout
    <3> QED
      BY <2>1, <3>1, ConnectTypes DEF TypeOK
  <2> QED
    BY <2>2, <2>3
<1>4. CASE ProbeAnswers
  <2>1. frames # <<>> /\ Head(frames).kind = "probe"
    BY <1>4 DEF ProbeAnswers, Running
  <2>2. Head(frames) \in Frame /\ Below \in Seq(Frame)
    BY <2>1, StackFacts DEF TypeOK, Below
  <2>3. Head(frames).r \in Radios /\ Head(frames).of \in {"open", "retry"}
    BY <2>1, <2>2, FrameFacts
  <2>4. /\ Resume(Head(frames).of, Head(frames).r, Below, timer)
        /\ jobs' = [jobs EXCEPT ![Head(frames).r] = Append(@, "connect")]
        /\ UNCHANGED <<shown, online, ctl, shutdown, busy, link, inbox, off, stopped>>
    BY <1>4 DEF ProbeAnswers
  <2>5. jobs' \in [Radios -> Seq(Job)]
    BY <2>3, <2>4 DEF TypeOK, Job
  <2>6. timer \in SUBSET Radios
    BY DEF TypeOK
  <2> HIDE DEF Below
  <2>7. /\ timer' \subseteq Radios /\ frames' \in Seq(Frame)
        /\ active' \in Radios /\ auto' \in BOOLEAN
        /\ lost' \in [Radios -> {"no", "announced", "silent"}]
    BY <2>2, <2>3, <2>4, <2>6, ResumeTypes
  <2> QED
    BY <2>4, <2>5, <2>7 DEF TypeOK
<1>5. CASE ProbeFails
  <2>1. frames # <<>> /\ Head(frames).kind = "probe"
    BY <1>5 DEF ProbeFails, Running
  <2>2. Head(frames) \in Frame /\ Below \in Seq(Frame)
    BY <2>1, StackFacts DEF TypeOK, Below
  <2>3. Head(frames).r \in Radios /\ Head(frames).of \in {"open", "retry"}
    BY <2>1, <2>2, FrameFacts
  <2>4. /\ Resume(Head(frames).of, Head(frames).r, Below,
                  TimersAfterError(Head(frames).r))
        /\ UNCHANGED <<shown, online, ctl, shutdown, worker, inbox, off, stopped>>
    BY <1>5 DEF ProbeFails
  <2>5. TimersAfterError(Head(frames).r) \in SUBSET Radios
    BY <2>3 DEF TypeOK, TimersAfterError
  <2> HIDE DEF Below
  <2>6. /\ timer' \subseteq Radios /\ frames' \in Seq(Frame)
        /\ active' \in Radios /\ auto' \in BOOLEAN
        /\ lost' \in [Radios -> {"no", "announced", "silent"}]
    BY <2>2, <2>3, <2>4, <2>5, ResumeTypes
  <2> QED
    BY <2>4, <2>6 DEF TypeOK, worker
<1>6. ASSUME NEW reopen \in BOOLEAN, OpDisconnect(reopen) PROVE TypeOK'
  <2>1. frames \in Seq(Frame) /\ 1 \in 1 .. N + 1 /\ CloseFrom(1, frames, reopen)
    BY <1>6 DEF TypeOK, OpDisconnect
  <2>2. auto' \in BOOLEAN /\ off' \in BOOLEAN
    BY <1>6, Zenon DEF OpDisconnect
  <2> QED
    BY <1>6, <2>1, <2>2, CloseTypes DEF OpDisconnect, TypeOK
<1>7. CASE CloseProceeds
  <2>1. frames # <<>> /\ Head(frames).kind = "close"
    BY <1>7 DEF CloseProceeds, Running
  <2>2. Head(frames) \in Frame /\ Below \in Seq(Frame)
    BY <2>1, StackFacts DEF TypeOK, Below
  <2>3. Head(frames).r \in 1 .. N + 1 /\ Head(frames).reopen \in BOOLEAN
    BY <2>1, <2>2, FrameFacts
  <2>4. /\ CloseFrom(Head(frames).r, Below, Head(frames).reopen)
        /\ UNCHANGED <<active, auto, shown, online, ctl, busy, link, inbox, off>>
    BY <1>7 DEF CloseProceeds
  <2> HIDE DEF Below
  <2> QED
    BY <2>2, <2>3, <2>4, CloseTypes DEF TypeOK
<1>8. CASE Deliver
  <2>1. inbox # <<>> /\ inbox \in Seq(Signal)
    BY <1>8 DEF Deliver, TypeOK
  <2>2. Head(inbox) \in Signal /\ Tail(inbox) \in Seq(Signal)
    BY <2>1
  <2>3. Head(inbox).r \in Radios
    BY <2>2 DEF Signal
  <2>4. online' \in BOOLEAN
    BY <1>8, Zenon DEF Deliver, DeliverUp, DeliverDown, DeliverError, TypeOK
  <2>5. /\ ctl' \subseteq Radios /\ shown' \subseteq Radios /\ timer' \subseteq Radios
        /\ lost' \in [Radios -> {"no", "announced", "silent"}]
    BY <1>8, <2>3 DEF Deliver, DeliverUp, DeliverDown, DeliverError,
                      TimersAfterError, Forget, TypeOK
  <2> QED
    BY <1>8, <2>2, <2>4, <2>5 DEF Deliver, worker, TypeOK
<1>9. ASSUME NEW r \in Radios, Toggle(r) PROVE TypeOK'
  <2>1. online' \in BOOLEAN
    BY <1>9, Zenon DEF Toggle
  <2> QED
    BY <1>9, <2>1 DEF Toggle, worker, history, TypeOK
<1>10. ASSUME NEW r \in Radios, BeginConnect(r) PROVE TypeOK'
  <2>1. jobs' \in [Radios -> Seq(Job)]
    BY <1>10 DEF BeginConnect, NextJob, Take, TypeOK
  <2>2. busy' \subseteq Radios /\ link' \subseteq Radios
    BY <1>10 DEF BeginConnect, TypeOK
  <2> QED
    BY <1>10, <2>1, <2>2 DEF BeginConnect, manager, history, TypeOK
<1>11. ASSUME NEW r \in Radios, NEW ev \in {"up", "down", "error"}, Post(r, ev)
       PROVE  inbox' \in Seq(Signal)
  BY <1>11 DEF Post, Signal, TypeOK
<1>12. ASSUME NEW r \in Radios, ConnectSucceeds(r) PROVE TypeOK'
  <2>1. inbox' \in Seq(Signal)
    BY <1>11, <1>12 DEF ConnectSucceeds
  <2> QED
    BY <1>12, <2>1 DEF ConnectSucceeds, manager, history, TypeOK
<1>13. ASSUME NEW r \in Radios, ConnectFails(r) PROVE TypeOK'
  <2>1. inbox' \in Seq(Signal)
    BY <1>11, <1>13 DEF ConnectFails
  <2> QED
    BY <1>13, <2>1 DEF ConnectFails, manager, history, TypeOK
<1>14. ASSUME NEW r \in Radios, RunDisconnect(r) PROVE TypeOK'
  <2>1. inbox' \in Seq(Signal)
    BY <1>11, <1>14 DEF RunDisconnect
  <2> QED
    BY <1>14, <2>1 DEF RunDisconnect, NextJob, Take, manager, history, TypeOK
<1>15. ASSUME NEW r \in Radios, LinkLost(r) PROVE TypeOK'
  <2>1. inbox' \in Seq(Signal)
    BY <1>11, <1>15 DEF LinkLost
  <2> QED
    BY <1>15, <2>1 DEF LinkLost, manager, history, TypeOK
<1> QED
  BY <1>0, <1>1, <1>2, <1>3, <1>4, <1>5, <1>6, <1>7, <1>8, <1>9, <1>10, <1>12,
     <1>13, <1>14, <1>15 DEF Next, WorkerStep

-----------------------------------------------------------------------------
(* The safety invariants.                                                  *)

(* While a controller is told to disconnect its shutdown flag is up, and a *)
(* disconnect is still queued behind a rig that is open or opening.        *)
StopInv ==
  \A r \in stopped :
    /\ r \in shutdown
    /\ r \in link \/ r \in busy =>
         \E i \in DOMAIN jobs[r] : jobs[r][i] = "disconnect"

(* The last thing the main thread was or will be told of an open rig is    *)
(* that it is up, and a worker inside rig_open holds no open rig.          *)
LastWordUp(r) ==
  \/ \E i \in DOMAIN inbox :
       /\ inbox[i] = [r |-> r, ev |-> "up"]
       /\ \A j \in DOMAIN inbox : j > i => inbox[j].r # r
  \/ ~Told(r) /\ r \in ctl /\ r \in shown

LinkInv == \A r \in link : r \notin busy /\ LastWordUp(r)

(* Announced losses are retried, whether auto-reconnect is on or not: what   *)
(* takes the timer of a radio away also forgets its loss, or leaves the     *)
(* frame of the attempt, which starts the timer again.                      *)
Retrying(s, r) ==
  \E i \in DOMAIN s : s[i] = [kind |-> "probe", r |-> r, of |-> "retry"]

RetryInv == \A r \in Radios : lost[r] = "announced" => r \in timer \/ Retrying(frames, r)

IInv == TypeOK /\ StopInv /\ LinkInv /\ RetryInv

(* Recreating a radio keeps both invariants.                               *)
LEMMA RecreateSafe ==
  ASSUME TypeOK, StopInv, LinkInv, NEW r \in Radios, NEW queue \in Seq(Job),
         Recreate(r, queue), UNCHANGED <<shown, inbox>>
  PROVE  StopInv' /\ LinkInv'
<1>1. ASSUME NEW q \in stopped'
      PROVE  /\ q \in shutdown'
             /\ q \in link' \/ q \in busy' =>
                  \E i \in DOMAIN (jobs'[q]) : jobs'[q][i] = "disconnect"
  <2>1. q \in stopped /\ q # r /\ q \in Radios
    BY <1>1 DEF Recreate, TypeOK
  <2>2. jobs'[q] = jobs[q]
    BY <2>1 DEF Recreate, TypeOK
  <2> QED
    BY <2>1, <2>2 DEF Recreate, StopInv
<1>2. ASSUME NEW q \in link' PROVE q \notin busy' /\ LastWordUp(q)'
  BY <1>2 DEF Recreate, LinkInv, LastWordUp, Told
<1> QED
  BY <1>1, <1>2 DEF StopInv, LinkInv

(* A signal posted about one radio leaves the last word on the others, and *)
(* "up" becomes the last word on its own.                                  *)
LEMMA PostSafe ==
  ASSUME TypeOK, NEW r \in Radios, NEW ev, Post(r, ev),
         UNCHANGED <<ctl, shown>>
  PROVE  /\ \A q : q # r /\ LastWordUp(q) => LastWordUp(q)'
         /\ ev = "up" => LastWordUp(r)'
<1> DEFINE s == [r |-> r, ev |-> ev]
           n == Len(inbox)
<1>1. /\ inbox \in Seq(Signal) /\ inbox' = Append(inbox, s)
  BY DEF TypeOK, Post
<1>2. /\ n \in Nat /\ DOMAIN inbox = 1 .. n /\ DOMAIN inbox' = 1 .. n + 1
      /\ inbox'[n + 1] = s /\ \A i \in 1 .. n : inbox'[i] = inbox[i]
  BY <1>1
<1>3. s.r = r
  OBVIOUS
<1> HIDE DEF s, n
<1>4. ASSUME NEW q, q # r, LastWordUp(q) PROVE LastWordUp(q)'
  <2>1. CASE \E i \in DOMAIN inbox : /\ inbox[i] = [r |-> q, ev |-> "up"]
                                     /\ \A j \in DOMAIN inbox : j > i => inbox[j].r # q
    <3>1. PICK i \in 1 .. n : /\ inbox[i] = [r |-> q, ev |-> "up"]
                              /\ \A j \in 1 .. n : j > i => inbox[j].r # q
      BY <1>2, <2>1
    <3>2. i \in 1 .. n + 1 /\ inbox'[i] = [r |-> q, ev |-> "up"]
      BY <1>2, <3>1
    <3>3. ASSUME NEW j \in 1 .. n + 1, j > i PROVE inbox'[j].r # q
      <4>1. CASE j = n + 1
        BY <1>2, <1>3, <1>4, <4>1
      <4>2. CASE j # n + 1
        <5>1. j \in 1 .. n
          BY <1>2, <4>2
        <5> QED
          BY <1>2, <3>1, <3>3, <5>1
      <4> QED
        BY <4>1, <4>2
    <3> QED
      BY <1>2, <3>2, <3>3 DEF LastWordUp
  <2>2. CASE ~Told(q) /\ q \in ctl /\ q \in shown
    <3>1. ASSUME NEW j \in 1 .. n + 1 PROVE inbox'[j].r # q
      <4>1. CASE j = n + 1
        BY <1>2, <1>3, <1>4, <4>1
      <4>2. CASE j # n + 1
        <5>1. j \in 1 .. n
          BY <1>2, <4>2
        <5> QED
          BY <1>2, <2>2, <5>1 DEF Told
      <4> QED
        BY <4>1, <4>2
    <3> QED
      BY <1>2, <2>2, <3>1 DEF LastWordUp, Told
  <2> QED
    BY <1>4, <2>1, <2>2 DEF LastWordUp
<1>5. ASSUME ev = "up" PROVE LastWordUp(r)'
  <2>1. n + 1 \in DOMAIN inbox' /\ inbox'[n + 1] = [r |-> r, ev |-> "up"]
    BY <1>2, <1>5 DEF s
  <2>2. \A j \in DOMAIN inbox' : ~(j > n + 1)
    BY <1>2
  <2> QED
    BY <2>1, <2>2 DEF LastWordUp
<1> QED
  BY <1>4, <1>5

(* Delivering a signal keeps the last word on every radio.                 *)
LEMMA DeliverSafe ==
  ASSUME TypeOK, Deliver, NEW q, LastWordUp(q)
  PROVE  LastWordUp(q)'
<1> DEFINE n == Len(inbox)
           s == Head(inbox)
<1>1. /\ inbox \in Seq(Signal) /\ inbox # <<>> /\ inbox' = Tail(inbox)
  BY DEF TypeOK, Deliver
<1>2. /\ n \in Nat \ {0} /\ DOMAIN inbox = 1 .. n /\ DOMAIN inbox' = 1 .. n - 1
      /\ s = inbox[1] /\ \A i \in 1 .. n - 1 : inbox'[i] = inbox[i + 1]
  BY <1>1
<1>3. /\ s.r # q => (q \in ctl => q \in ctl') /\ (q \in shown => q \in shown')
      /\ s.r = q /\ s.ev = "up" => q \in ctl' /\ q \in shown'
  BY DEF Deliver, DeliverUp, DeliverDown, DeliverError
<1> HIDE DEF n, s
<1>4. CASE \E i \in DOMAIN inbox : /\ inbox[i] = [r |-> q, ev |-> "up"]
                                   /\ \A j \in DOMAIN inbox : j > i => inbox[j].r # q
  <2>1. PICK i \in 1 .. n : /\ inbox[i] = [r |-> q, ev |-> "up"]
                            /\ \A j \in 1 .. n : j > i => inbox[j].r # q
    BY <1>2, <1>4
  <2>2. CASE i = 1
    <3>1. s.r = q /\ s.ev = "up"
      BY <1>2, <2>1, <2>2
    <3>2. ASSUME NEW j \in 1 .. n - 1 PROVE inbox'[j].r # q
      <4>1. j + 1 \in 1 .. n /\ j + 1 > i
        BY <1>2, <2>2
      <4> QED
        BY <1>2, <2>1, <4>1
    <3> QED
      BY <1>2, <1>3, <3>1, <3>2 DEF LastWordUp, Told
  <2>3. CASE i # 1
    <3>1. i - 1 \in 1 .. n - 1 /\ inbox'[i - 1] = [r |-> q, ev |-> "up"]
      <4>1. i - 1 \in 1 .. n - 1 /\ (i - 1) + 1 = i
        BY <1>2, <2>3
      <4> QED
        BY <1>2, <2>1, <4>1
    <3>2. ASSUME NEW j \in 1 .. n - 1, j > i - 1 PROVE inbox'[j].r # q
      <4>1. j + 1 \in 1 .. n /\ j + 1 > i
        BY <1>2, <3>2
      <4> QED
        BY <1>2, <2>1, <4>1
    <3> QED
      BY <1>2, <3>1, <3>2 DEF LastWordUp
  <2> QED
    BY <2>2, <2>3
<1>5. CASE ~Told(q) /\ q \in ctl /\ q \in shown
  <2>1. \A i \in 1 .. n : inbox[i].r # q
    BY <1>2, <1>5 DEF Told
  <2>2. s.r # q
    BY <1>2, <2>1
  <2>3. ASSUME NEW j \in 1 .. n - 1 PROVE inbox'[j].r # q
    <3>1. j + 1 \in 1 .. n
      BY <1>2
    <3> QED
      BY <1>2, <2>1, <3>1
  <2> QED
    BY <1>2, <1>3, <1>5, <2>2, <2>3 DEF LastWordUp, Told
<1> QED
  BY <1>4, <1>5 DEF LastWordUp

(* A call appended to a queue keeps a disconnect that is in it, and a      *)
(* disconnect appended is in it.                                           *)
LEMMA AppendKeeps ==
  ASSUME NEW s \in Seq(Job), NEW job \in Job
  PROVE  /\ (\E i \in DOMAIN s : s[i] = "disconnect")
              => \E i \in DOMAIN Append(s, job) : Append(s, job)[i] = "disconnect"
         /\ job = "disconnect"
              => \E i \in DOMAIN Append(s, job) : Append(s, job)[i] = "disconnect"
<1>1. /\ Len(s) \in Nat /\ DOMAIN s = 1 .. Len(s)
      /\ DOMAIN Append(s, job) = 1 .. Len(s) + 1
      /\ Append(s, job)[Len(s) + 1] = job
      /\ \A i \in 1 .. Len(s) : Append(s, job)[i] = s[i]
  OBVIOUS
<1>2. /\ Len(s) + 1 \in DOMAIN Append(s, job)
      /\ \A i \in DOMAIN s : i \in DOMAIN Append(s, job)
  BY <1>1
<1> QED
  BY <1>1, <1>2

(* Taking a connect call off a queue keeps the disconnect behind it.       *)
LEMMA TakeKeeps ==
  ASSUME NEW s \in Seq(Job), s # <<>>, Head(s) = "connect",
         \E i \in DOMAIN s : s[i] = "disconnect"
  PROVE  \E i \in DOMAIN Tail(s) : Tail(s)[i] = "disconnect"
<1>1. PICK i \in 1 .. Len(s) : s[i] = "disconnect"
  OBVIOUS
<1>2. i # 1
  BY <1>1
<1>3. Len(s) \in Nat /\ i - 1 \in 1 .. Len(s) - 1 /\ (i - 1) + 1 = i
  BY <1>2
<1>4. DOMAIN Tail(s) = 1 .. Len(s) - 1 /\ \A j \in 1 .. Len(s) - 1 : Tail(s)[j] = s[j + 1]
  OBVIOUS
<1> QED
  BY <1>1, <1>3, <1>4

(* Closing keeps both invariants.                                          *)
LEMMA CloseSafe ==
  ASSUME TypeOK, StopInv, LinkInv, NEW from, NEW below, NEW reopen,
         CloseFrom(from, below, reopen),
         UNCHANGED <<shown, ctl, busy, link, inbox>>
  PROVE  StopInv' /\ LinkInv'
<1>1. LinkInv'
  BY DEF LinkInv, LastWordUp, Told
<1>2. ASSUME NEW r \in shown, TellDisconnect(r)
      PROVE  StopInv'
  <2>1. r \in Radios /\ jobs[r] \in Seq(Job) /\ "disconnect" \in Job
    BY DEF TypeOK, Job
  <2>2. jobs'[r] = Append(jobs[r], "disconnect")
    BY <1>2, <2>1 DEF TellDisconnect, TypeOK
  <2>3. \A q \in Radios : q # r => jobs'[q] = jobs[q]
    BY <1>2 DEF TellDisconnect, TypeOK
  <2>4. \E i \in DOMAIN (jobs'[r]) : jobs'[r][i] = "disconnect"
    BY <2>1, <2>2, AppendKeeps
  <2> QED
    BY <1>2, <2>3, <2>4 DEF TellDisconnect, StopInv, TypeOK
<1>3. ASSUME UNCHANGED <<shutdown, stopped, jobs>> PROVE StopInv'
  BY <1>3 DEF StopInv
<1> QED
  BY <1>1, <1>2, <1>3 DEF CloseFrom

(* Every step keeps both invariants.                                       *)
LEMMA SafeStep == TypeOK /\ StopInv /\ LinkInv /\ [Next]_vars => StopInv' /\ LinkInv'
<1> SUFFICES ASSUME TypeOK, StopInv, LinkInv, [Next]_vars
             PROVE  StopInv' /\ LinkInv'
  OBVIOUS
<1>0. ASSUME UNCHANGED <<stopped, shutdown, jobs, busy, link>> PROVE StopInv'
  BY <1>0 DEF StopInv
<1>1. ASSUME UNCHANGED <<busy, link, inbox, ctl, shown>> PROVE LinkInv'
  BY <1>1 DEF LinkInv, LastWordUp, Told
<1>2. CASE UNCHANGED vars
  BY <1>0, <1>1, <1>2 DEF vars
<1>3. CASE OpConnect
  BY <1>0, <1>1, <1>3 DEF OpConnect, worker
<1>4. ASSUME NEW of, NEW r \in Radios, NEW below, ConnectToRadio(of, r, below),
             UNCHANGED <<shown, inbox>>
      PROVE  StopInv' /\ LinkInv'
  <2>1. <<>> \in Seq(Job) /\ <<"connect">> \in Seq(Job)
    BY DEF Job
  <2>2. Recreate(r, <<>>) \/ Recreate(r, <<"connect">>)
    BY <1>4 DEF ConnectToRadio
  <2> QED
    BY <1>4, <2>1, <2>2, RecreateSafe
<1>5. CASE OpenProceeds
  <2>1. Head(frames) \in Frame /\ Head(frames).kind = "open"
    BY <1>5, StackFacts DEF OpenProceeds, Running, TypeOK
  <2>2. Head(frames).r \in Radios
    BY <2>1, FrameFacts
  <2> QED
    BY <1>4, <1>5, <2>2 DEF OpenProceeds
<1>6. ASSUME NEW r \in Radios, Timeout(r) PROVE StopInv' /\ LinkInv'
  <2>1. <<>> \in Seq(Job)
    OBVIOUS
  <2>2. CASE r \in Networked
    BY <1>6, <2>1, <2>2, RecreateSafe DEF Timeout
  <2>3. CASE r \notin Networked
    BY <1>4, <1>6, <2>3 DEF Timeout
  <2> QED
    BY <2>2, <2>3
<1>7. CASE ProbeAnswers
  <2>1. LinkInv'
    BY <1>1, <1>7 DEF ProbeAnswers
  <2>2. Head(frames) \in Frame /\ Head(frames).kind = "probe"
    BY <1>7, StackFacts DEF ProbeAnswers, Running, TypeOK
  <2>3. PICK r \in Radios : jobs' = [jobs EXCEPT ![r] = Append(@, "connect")]
    BY <1>7, <2>2, FrameFacts DEF ProbeAnswers
  <2>4. jobs[r] \in Seq(Job) /\ "connect" \in Job /\ jobs'[r] = Append(jobs[r], "connect")
    BY <2>3 DEF TypeOK, Job
  <2>5. \A q \in Radios : q # r => jobs'[q] = jobs[q]
    BY <2>3 DEF TypeOK
  <2>6. (\E i \in DOMAIN jobs[r] : jobs[r][i] = "disconnect")
          => \E i \in DOMAIN (jobs'[r]) : jobs'[r][i] = "disconnect"
    BY <2>4, AppendKeeps
  <2>7. UNCHANGED <<stopped, shutdown, busy, link>>
    BY <1>7 DEF ProbeAnswers
  <2>8. StopInv'
    <3>1. \A q \in stopped : q = r \/ (q \in Radios /\ jobs'[q] = jobs[q])
      BY <2>5 DEF TypeOK
    <3> QED
      BY <2>6, <2>7, <3>1 DEF StopInv
  <2> QED
    BY <2>1, <2>8
<1>8. CASE ProbeFails
  BY <1>0, <1>1, <1>8 DEF ProbeFails, worker
<1>9. ASSUME NEW reopen \in BOOLEAN, OpDisconnect(reopen) PROVE StopInv' /\ LinkInv'
  BY <1>9, CloseSafe DEF OpDisconnect
<1>10. CASE CloseProceeds
  BY <1>10, CloseSafe DEF CloseProceeds
<1>11. CASE Deliver
  <2>1. UNCHANGED <<stopped, shutdown, jobs, busy, link>>
    BY <1>11 DEF Deliver, worker
  <2>2. LinkInv'
    BY <1>11, <2>1, DeliverSafe DEF LinkInv
  <2> QED
    BY <1>0, <2>1, <2>2
<1>12. ASSUME NEW r \in Radios, Toggle(r) PROVE StopInv' /\ LinkInv'
  BY <1>0, <1>1, <1>12 DEF Toggle, worker, history
<1>13. ASSUME NEW r \in Radios, BeginConnect(r) PROVE StopInv' /\ LinkInv'
  <2>1. jobs[r] \in Seq(Job) /\ jobs'[r] = Tail(jobs[r]) /\ jobs[r] # <<>>
          /\ Head(jobs[r]) = "connect"
    BY <1>13 DEF BeginConnect, NextJob, Take, TypeOK
  <2>2. \A q \in Radios : q # r => jobs'[q] = jobs[q]
    BY <1>13 DEF BeginConnect, Take, TypeOK
  <2>3. (\E i \in DOMAIN jobs[r] : jobs[r][i] = "disconnect")
          => \E i \in DOMAIN (jobs'[r]) : jobs'[r][i] = "disconnect"
    BY <2>1, TakeKeeps
  <2>4. UNCHANGED <<stopped, shutdown, inbox, ctl, shown>>
    BY <1>13 DEF BeginConnect, manager, history
  <2>5. \/ r \in shutdown /\ UNCHANGED <<busy, link>>
        \/ r \notin shutdown /\ busy' = busy \cup {r} /\ link' = link \ {r}
    BY <1>13 DEF BeginConnect
  <2>6. StopInv'
    <3>1. \A q \in stopped : q = r \/ (q \in Radios /\ jobs'[q] = jobs[q])
      BY <2>2 DEF TypeOK
    <3>2. \A q : q # r => (q \in link' \/ q \in busy' => q \in link \/ q \in busy)
      BY <2>5
    <3>3. r \in stopped => UNCHANGED <<busy, link>>
      BY <2>5 DEF StopInv
    <3> QED
      BY <2>3, <2>4, <3>1, <3>2, <3>3 DEF StopInv
  <2>7. \A q : LastWordUp(q) => LastWordUp(q)'
    BY <2>4 DEF LastWordUp, Told
  <2> QED
    BY <2>5, <2>6, <2>7 DEF LinkInv
<1>14. ASSUME NEW r \in Radios, ConnectSucceeds(r) PROVE StopInv' /\ LinkInv'
  <2>1. /\ r \in busy /\ busy' = busy \ {r} /\ link' = link \cup {r} /\ Post(r, "up")
        /\ UNCHANGED <<stopped, shutdown, jobs, ctl, shown>>
    BY <1>14 DEF ConnectSucceeds, manager, history
  <2>2. LinkInv'
    BY <2>1, PostSafe DEF LinkInv
  <2>3. StopInv'
    BY <2>1 DEF StopInv
  <2> QED
    BY <2>2, <2>3
<1>15. ASSUME NEW r \in Radios, ConnectFails(r) PROVE StopInv' /\ LinkInv'
  <2>1. /\ r \in busy /\ busy' = busy \ {r}
        /\ UNCHANGED <<stopped, shutdown, jobs, link, ctl, shown>>
    BY <1>15 DEF ConnectFails, manager, history
  <2>2. PICK ev \in {"down", "error"} : Post(r, ev)
    BY <1>15 DEF ConnectFails
  <2>3. LinkInv'
    BY <2>1, <2>2, PostSafe DEF LinkInv
  <2>4. StopInv'
    BY <2>1 DEF StopInv
  <2> QED
    BY <2>3, <2>4
<1>16. ASSUME NEW r \in Radios, RunDisconnect(r) PROVE StopInv' /\ LinkInv'
  <2>1. /\ r \notin busy /\ link' = link \ {r} /\ Post(r, "down")
        /\ UNCHANGED <<stopped, shutdown, busy, ctl, shown>>
    BY <1>16 DEF RunDisconnect, NextJob, manager, history
  <2>2. \A q \in Radios : q # r => jobs'[q] = jobs[q]
    BY <1>16 DEF RunDisconnect, Take, TypeOK
  <2>3. LinkInv'
    BY <2>1, PostSafe DEF LinkInv
  <2>4. StopInv'
    BY <2>1, <2>2 DEF StopInv, TypeOK
  <2> QED
    BY <2>3, <2>4
<1>17. ASSUME NEW r \in Radios, LinkLost(r) PROVE StopInv' /\ LinkInv'
  <2>1. /\ link' = link \ {r} /\ Post(r, "down")
        /\ UNCHANGED <<stopped, shutdown, jobs, busy, ctl, shown>>
    BY <1>17 DEF LinkLost, manager, history
  <2>2. LinkInv'
    BY <2>1, PostSafe DEF LinkInv
  <2>3. StopInv'
    BY <2>1 DEF StopInv
  <2> QED
    BY <2>2, <2>3
<1> QED
  BY <1>2, <1>3, <1>5, <1>6, <1>7, <1>8, <1>9, <1>10, <1>11, <1>12, <1>13,
     <1>14, <1>15, <1>16, <1>17 DEF Next, WorkerStep

-----------------------------------------------------------------------------
(* Announced losses are retried.                                           *)

(* An attempt under way stays on a stack that grows, and on one whose top   *)
(* is removed unless it is the top.                                         *)
LEMMA RetryingStays ==
  ASSUME NEW s \in Seq(Frame), NEW f \in Frame, NEW r
  PROVE  /\ Retrying(s, r) => Retrying(<<f>> \o s, r)
         /\ f = [kind |-> "probe", r |-> r, of |-> "retry"] => Retrying(<<f>> \o s, r)
         /\ s # <<>> /\ Retrying(s, r) =>
              \/ Head(s) = [kind |-> "probe", r |-> r, of |-> "retry"]
              \/ Retrying(Tail(s), r)
<1> DEFINE t == <<f>> \o s
           p == [kind |-> "probe", r |-> r, of |-> "retry"]
<1>0. <<f>> \in Seq(Frame) /\ Len(<<f>>) = 1 /\ <<f>>[1] = f
  OBVIOUS
<1>1. /\ Len(s) \in Nat /\ DOMAIN s = 1 .. Len(s)
      /\ DOMAIN t = 1 .. Len(s) + 1 /\ t[1] = f
      /\ \A i \in 1 .. Len(s) : t[i + 1] = s[i]
  BY <1>0
<1> HIDE DEF t, p
<1>2. ASSUME NEW i \in DOMAIN s, s[i] = p PROVE Retrying(t, r)
  <2>1. i + 1 \in DOMAIN t /\ t[i + 1] = p
    BY <1>1, <1>2
  <2> QED
    BY <2>1 DEF Retrying, p
<1>3. ASSUME f = p PROVE Retrying(t, r)
  <2>1. 1 \in DOMAIN t /\ t[1] = p
    BY <1>1, <1>3
  <2> QED
    BY <2>1 DEF Retrying, p
<1>4. ASSUME s # <<>>, NEW i \in DOMAIN s, s[i] = p
      PROVE  Head(s) = p \/ Retrying(Tail(s), r)
  <2>1. /\ DOMAIN Tail(s) = 1 .. Len(s) - 1 /\ Head(s) = s[1]
        /\ \A j \in 1 .. Len(s) - 1 : Tail(s)[j] = s[j + 1]
    BY <1>4
  <2>2. CASE i = 1
    BY <1>4, <2>1, <2>2
  <2>3. CASE i # 1
    <3>1. i - 1 \in 1 .. Len(s) - 1 /\ (i - 1) + 1 = i
      BY <1>1, <2>3
    <3>2. i - 1 \in DOMAIN Tail(s) /\ Tail(s)[i - 1] = p
      BY <1>4, <2>1, <3>1
    <3> QED
      BY <3>2 DEF Retrying, p
  <2> QED
    BY <2>2, <2>3
<1> QED
  BY <1>2, <1>3, <1>4 DEF Retrying, p, t

(* Going on after an attempt of r, whose own frame is gone already.         *)
LEMMA ResumeRetries ==
  ASSUME TypeOK, NEW of \in {"open", "retry"}, NEW r \in Radios,
         NEW below \in Seq(Frame), NEW timers \in SUBSET Radios,
         \A q \in Radios : lost[q] = "announced" =>
            q \in timers \/ Retrying(below, q) \/ (of = "retry" /\ q = r),
         Resume(of, r, below, timers)
  PROVE  RetryInv'
<1>1. CASE of = "retry"
  BY <1>1 DEF Resume, RetryInv
<1>2. CASE of = "open" /\ r < N
  <2>1. r + 1 \in Radios
    BY <1>2
  <2>2. [kind |-> "open", r |-> r + 1] \in Frame
    BY <2>1, FrameFacts
  <2>3. /\ timer' = timers \ {r + 1} /\ lost' = Forget({r + 1})
        /\ frames' = <<[kind |-> "open", r |-> r + 1]>> \o below
    BY <1>2 DEF Resume, OpenRadio, Push
  <2>4. \A q \in Radios : Retrying(below, q) => Retrying(frames', q)
    BY <2>2, <2>3, RetryingStays
  <2>5. \A q \in Radios : lost'[q] = "announced" => q # r + 1 /\ lost[q] = "announced"
    BY <2>3 DEF Forget
  <2> QED
    BY <1>2, <2>3, <2>4, <2>5 DEF RetryInv
<1>3. CASE of = "open" /\ ~(r < N)
  BY <1>3 DEF Resume, RetryInv
<1> QED
  BY <1>1, <1>2, <1>3

(* Closing: a radio that is passed loses its timer and its loss together.   *)
LEMMA CloseRetries ==
  ASSUME TypeOK, NEW from \in 1 .. N + 1, NEW below \in Seq(Frame),
         NEW reopen \in BOOLEAN, CloseFrom(from, below, reopen),
         \A q \in Radios : lost[q] = "announced" => q \in timer \/ Retrying(below, q)
  PROVE  RetryInv'
<1>1. ASSUME NEW rs, Reset(rs),
             \A q \in Radios : Retrying(below, q) => Retrying(frames', q)
      PROVE  RetryInv'
  <2>1. \A q \in Radios : lost'[q] = "announced" => q \notin rs /\ lost[q] = "announced"
    BY <1>1 DEF Reset, Forget
  <2> QED
    BY <1>1, <2>1 DEF Reset, RetryInv
<1>2. ASSUME NEW r \in from .. N, r \in shown, Reset(Passed(from, r)),
             Push([kind |-> "close", r |-> r + 1, reopen |-> reopen], below)
      PROVE  RetryInv'
  <2>1. r \in Radios /\ r + 1 \in 1 .. N + 1
    BY <1>2 DEF TypeOK
  <2>2. [kind |-> "close", r |-> r + 1, reopen |-> reopen] \in Frame
    BY <2>1, FrameFacts
  <2> QED
    BY <1>1, <1>2, <2>2, RetryingStays DEF Push
<1>3. ASSUME Reset({1} \cup Passed(from, N)), Push([kind |-> "open", r |-> 1], below)
      PROVE  RetryInv'
  <2>1. [kind |-> "open", r |-> 1] \in Frame
    BY FrameFacts
  <2> QED
    BY <1>1, <1>3, <2>1, RetryingStays DEF Push
<1>4. ASSUME Reset(Passed(from, N)), frames' = below PROVE RetryInv'
  BY <1>1, <1>4
<1> QED
  BY <1>2, <1>3, <1>4 DEF CloseFrom

(* Every step keeps the retries going.                                      *)
LEMMA RetryStep == TypeOK /\ RetryInv /\ [Next]_vars => RetryInv'
<1> SUFFICES ASSUME TypeOK, RetryInv, [Next]_vars PROVE RetryInv'
  OBVIOUS
<1>0. /\ timer \in SUBSET Radios /\ frames \in Seq(Frame)
      /\ lost \in [Radios -> {"no", "announced", "silent"}]
  BY DEF TypeOK
<1>1. ASSUME UNCHANGED <<timer, lost, frames>> PROVE RetryInv'
  BY <1>1 DEF RetryInv
<1>a. ASSUME NEW k, Running(k)
      PROVE  /\ Head(frames) \in Frame /\ Head(frames).kind = k /\ Below \in Seq(Frame)
             /\ \A q \in Radios : Retrying(frames, q) =>
                   \/ Head(frames) = [kind |-> "probe", r |-> q, of |-> "retry"]
                   \/ Retrying(Below, q)
  <2>1. frames # <<>> /\ Head(frames).kind = k
    BY <1>a DEF Running
  <2>2. Head(frames) \in Frame /\ Below \in Seq(Frame)
    BY <1>0, <2>1, StackFacts DEF Below
  <2> QED
    BY <1>0, <2>1, <2>2, RetryingStays DEF Below
<1>b. ASSUME NEW k, k # "probe", Running(k)
      PROVE  \A q \in Radios : lost[q] = "announced" => q \in timer \/ Retrying(Below, q)
  <2>1. \A q : Head(frames) # [kind |-> "probe", r |-> q, of |-> "retry"]
    BY <1>a, <1>b
  <2> QED
    BY <1>a, <1>b, <2>1 DEF RetryInv
<1>2. CASE UNCHANGED vars
  BY <1>1, <1>2 DEF vars
<1>3. CASE OpConnect
  <2>1. /\ timer' = timer \ {1} /\ lost' = Forget({1})
        /\ frames' = <<[kind |-> "open", r |-> 1]>> \o frames
    BY <1>3 DEF OpConnect, OpenRadio, Push
  <2>2. [kind |-> "open", r |-> 1] \in Frame
    BY FrameFacts
  <2>3. \A q \in Radios : Retrying(frames, q) => Retrying(frames', q)
    BY <1>0, <2>1, <2>2, RetryingStays
  <2>4. \A q \in Radios : lost'[q] = "announced" => q # 1 /\ lost[q] = "announced"
    BY <2>1 DEF Forget
  <2> QED
    BY <2>1, <2>3, <2>4 DEF RetryInv
<1>4. CASE OpenProceeds
  <2> DEFINE r == Head(frames).r
  <2>1. r \in Radios /\ Below \in Seq(Frame) /\ ConnectToRadio("open", r, Below)
    BY <1>4, <1>a, FrameFacts DEF OpenProceeds
  <2>2. \A q \in Radios : lost[q] = "announced" => q \in timer \/ Retrying(Below, q)
    BY <1>4, <1>b DEF OpenProceeds
  <2> HIDE DEF r
  <2>3. CASE r \in Networked
    <3>1. /\ frames' = <<[kind |-> "probe", r |-> r, of |-> "open"]>> \o Below
          /\ UNCHANGED <<timer, lost>>
      BY <2>1, <2>3 DEF ConnectToRadio, Push
    <3>2. [kind |-> "probe", r |-> r, of |-> "open"] \in Frame
      BY <2>1, FrameFacts
    <3>3. \A q \in Radios : Retrying(Below, q) => Retrying(frames', q)
      BY <2>1, <3>1, <3>2, RetryingStays
    <3> QED
      BY <2>2, <3>1, <3>3 DEF RetryInv
  <2>4. CASE r \notin Networked
    <3>1. Resume("open", r, Below, timer)
      BY <2>1, <2>4 DEF ConnectToRadio
    <3> QED
      BY <1>0, <2>1, <2>2, <3>1, ResumeRetries
  <2> QED
    BY <2>3, <2>4
<1>5. ASSUME NEW r \in Radios, Timeout(r) PROVE RetryInv'
  <2>1. CASE r \in Networked
    <3>1. /\ timer' = timer \ {r} /\ lost' = lost
          /\ frames' = <<[kind |-> "probe", r |-> r, of |-> "retry"]>> \o frames
      BY <1>5, <2>1 DEF Timeout, Push
    <3>2. [kind |-> "probe", r |-> r, of |-> "retry"] \in Frame
      BY FrameFacts
    <3>3. \A q \in Radios : Retrying(frames, q) \/ q = r => Retrying(frames', q)
      BY <1>0, <3>1, <3>2, RetryingStays
    <3> QED
      BY <3>1, <3>3 DEF RetryInv
  <2>2. CASE r \notin Networked
    <3>1. Resume("retry", r, frames, timer)
      BY <1>5, <2>2 DEF Timeout, ConnectToRadio
    <3> QED
      BY <1>0, <3>1, ResumeRetries DEF RetryInv
  <2> QED
    BY <2>1, <2>2
<1>6. CASE ProbeAnswers \/ ProbeFails
  <2> DEFINE f == Head(frames)
  <2>1. Running("probe")
    BY <1>6 DEF ProbeAnswers, ProbeFails
  <2>2. f \in Frame /\ f.kind = "probe" /\ Below \in Seq(Frame)
    BY <1>a, <2>1
  <2>3. f.r \in Radios /\ f.of \in {"open", "retry"}
    BY <2>2, FrameFacts
  <2>4. PICK timers \in SUBSET Radios :
          timer \subseteq timers /\ Resume(f.of, f.r, Below, timers)
    <3>1. timer \subseteq TimersAfterError(f.r) /\ TimersAfterError(f.r) \in SUBSET Radios
      BY <1>0, <2>3 DEF TimersAfterError
    <3> QED
      BY <1>0, <1>6, <3>1 DEF ProbeAnswers, ProbeFails
  <2>5. \A q \in Radios : lost[q] = "announced" =>
          q \in timers \/ Retrying(Below, q) \/ (f.of = "retry" /\ q = f.r)
    <3>1. \A q \in Radios : f = [kind |-> "probe", r |-> q, of |-> "retry"]
                              => f.of = "retry" /\ q = f.r
      OBVIOUS
    <3> HIDE DEF f
    <3>2. \A q \in Radios : Retrying(frames, q) =>
            f = [kind |-> "probe", r |-> q, of |-> "retry"] \/ Retrying(Below, q)
      BY <1>a, <2>1 DEF f
    <3> QED
      BY <2>4, <3>1, <3>2 DEF RetryInv
  <2> HIDE DEF f
  <2> QED
    BY <2>2, <2>3, <2>4, <2>5, ResumeRetries
<1>7. ASSUME NEW reopen \in BOOLEAN, OpDisconnect(reopen) PROVE RetryInv'
  <2>1. CloseFrom(1, frames, reopen) /\ 1 \in 1 .. N + 1
    BY <1>7 DEF OpDisconnect
  <2> QED
    BY <1>0, <2>1, CloseRetries DEF RetryInv
<1>8. CASE CloseProceeds
  <2>1. /\ Running("close")
        /\ CloseFrom(Head(frames).r, Below, Head(frames).reopen)
    BY <1>8 DEF CloseProceeds
  <2>2. /\ Below \in Seq(Frame)
        /\ Head(frames).r \in 1 .. N + 1 /\ Head(frames).reopen \in BOOLEAN
    BY <1>a, <2>1, FrameFacts
  <2> QED
    BY <1>b, <2>1, <2>2, CloseRetries
<1>9. CASE Deliver
  <2> DEFINE s == Head(inbox)
  <2>1. s.r \in Radios /\ frames' = frames
    <3>1. inbox \in Seq(Signal) /\ inbox # <<>>
      BY <1>9 DEF Deliver, TypeOK
    <3>2. s \in Signal
      BY <3>1
    <3> QED
      BY <1>9, <3>2 DEF Deliver, Signal
  <2>2. DeliverUp(s.r) \/ DeliverDown(s.r) \/ DeliverError(s.r)
    BY <1>9 DEF Deliver
  <2> HIDE DEF s
  <2>3. CASE DeliverUp(s.r)
    BY <2>1, <2>3 DEF DeliverUp, Forget, RetryInv
  <2>4. CASE DeliverDown(s.r)
    BY <1>0, <2>1, <2>4 DEF DeliverDown, RetryInv
  <2>5. CASE DeliverError(s.r)
    BY <2>1, <2>5 DEF DeliverError, TimersAfterError, RetryInv
  <2> QED
    BY <2>2, <2>3, <2>4, <2>5
<1>10. ASSUME NEW r \in Radios, Toggle(r) \/ WorkerStep(r) PROVE RetryInv'
  BY <1>1, <1>10 DEF Toggle, WorkerStep, BeginConnect, ConnectSucceeds, ConnectFails,
                     RunDisconnect, LinkLost, manager, history
<1> QED
  BY <1>2, <1>3, <1>4, <1>5, <1>6, <1>7, <1>8, <1>9, <1>10 DEF Next

-----------------------------------------------------------------------------
(* The inductive invariant holds in every state.                           *)
THEOREM LinkInvariance == Spec => []IInv
<1>1. Init => IInv
  <2> SUFFICES ASSUME Init PROVE IInv
    OBVIOUS
  <2>1. auto \in BOOLEAN /\ online \in BOOLEAN /\ off \in BOOLEAN
    BY Zenon DEF Init
  <2>2. <<>> \in Seq(Job) /\ <<>> \in Seq(Signal) /\ <<>> \in Seq(Frame)
    OBVIOUS
  <2>3. TypeOK
    BY <2>1, <2>2 DEF Init, TypeOK
  <2>4. StopInv /\ LinkInv /\ RetryInv
    BY DEF Init, StopInv, LinkInv, RetryInv
  <2> QED
    BY <2>3, <2>4 DEF IInv
<1>2. IInv /\ [Next]_vars => IInv'
  BY TypeStep, SafeStep, RetryStep DEF IInv
<1> QED
  BY <1>1, <1>2, PTL DEF Spec

(* Type correctness, for any number of radios and any bounds.              *)
THEOREM LinkTypes == Spec => []TypeOK
<1>1. IInv => TypeOK
  BY DEF IInv
<1> QED
  BY <1>1, LinkInvariance, PTL

(* RadioController::disconnectFromRadio wins over every connect call of    *)
(* its radio: queued, running, or queued later by a probe.                 *)
THEOREM DisconnectWins == Spec => []StoppedStaysDown
<1>1. IInv => StoppedStaysDown
  BY DEF IInv, StopInv, StoppedStaysDown
<1> QED
  BY <1>1, LinkInvariance, PTL

(* An open rig is never hidden: with its signals delivered RadioManager    *)
(* and the controller both say it is connected.                            *)
THEOREM OpenRigsAreShown == Spec => []LinkedIsShown
<1>1. IInv => LinkedIsShown
  BY DEF IInv, LinkInv, LastWordUp, LinkedIsShown, Told
<1> QED
  BY <1>1, LinkInvariance, PTL

(* A loss that was announced with "will retry" is retried, whatever the     *)
(* operator, the other radios and the probes' event loops do meanwhile.     *)
THEOREM LossesAreRetried == Spec => []RetriesContinue
<1>1. IInv => RetriesContinue
  BY DEF IInv, RetryInv, Retrying, RetriesContinue
<1> QED
  BY <1>1, LinkInvariance, PTL

HIDE RadiosAssumption DEF Radios

-----------------------------------------------------------------------------
(***************************************************************************)
(* The network session, for any number of sessions, logins, ports, retries *)
(* and faults.                                                             *)
(***************************************************************************)

(* The bounds, one by one.                                                 *)
LEMMA Bounds ==
  /\ MaxRetries \in Nat /\ MaxRetries > 0
  /\ MaxConnects \in Nat /\ MaxLogins \in Nat /\ MaxPorts \in Nat /\ MaxFaults \in Nat
BY MaxRetriesAssumption, IcomBoundsAssumption

(* TypeOK in two parts: the flags and the rest.                            *)
FlagsOK ==
  /\ streamOpened \in BOOLEAN /\ heardCiv \in BOOLEAN
  /\ areYouThere \in BOOLEAN /\ keepAlive \in BOOLEAN /\ renewal \in BOOLEAN
  /\ watchdog \in BOOLEAN /\ leaked \in BOOLEAN

DataOK ==
  /\ state \in States
  /\ control \in 0 .. MaxConnects /\ civ \in 0 .. MaxPorts
  /\ civLocalPort \in 0 .. MaxPorts /\ bound \subseteq 1 .. MaxPorts
  /\ attempts \in 0 .. MaxRetries
  /\ tokRequest \in 0 .. MaxLogins /\ token \in 0 .. MaxLogins
  /\ sent \subseteq Datagrams
  /\ connects \in 0 .. MaxConnects /\ ports \in 0 .. MaxPorts /\ faults \in 0 .. MaxFaults

LEMMA TypeParts ==
  /\ IcomTypeOK <=> FlagsOK /\ DataOK
  /\ IcomTypeOK' <=> FlagsOK' /\ DataOK'
BY DEF IcomTypeOK, FlagsOK, DataOK

(* Which datagrams there are is the same in every state.                   *)
LEMMA DatagramsStay == Datagrams' = Datagrams
BY DEF Datagrams, ControlKinds, CivKinds

USE Bounds

(* A socket belongs to a session: without the control socket there is no   *)
(* CI-V socket, no open stream and no timer that would write; the CI-V     *)
(* socket is bound and its stream open.                                    *)
SessionInv ==
  /\ state = "Disconnected" => control = 0
  /\ control # 0 => control = connects
  /\ control = 0 => /\ civ = 0 /\ ~streamOpened /\ attempts = 0
                    /\ ~areYouThere /\ ~keepAlive /\ ~renewal
  /\ civ # 0 => civ \in bound /\ streamOpened

(* Every datagram was sent in a session, which is the present one or was   *)
(* ended at the radio, and the present one was not.                        *)
SentInv ==
  /\ \A m \in sent : m.of \in 1 .. connects
  /\ \A m \in sent : m.of = control \/ \E b \in Said("bye") : b.of = m.of
  /\ \A b \in Said("bye") : b.of # control

(* The port is the one last told in this session, if one was.              *)
PortInv ==
  Asked("stream") # {} => \E m \in Asked("stream") : m.civ = civLocalPort

(* The number and the token are those of logins of this session, once it   *)
(* sent a login and a confirmation.                                        *)
TokenInv ==
  /\ Asked("login") # {} => \E m \in Asked("login") : m.request = tokRequest
  /\ Asked("confirm") # {} => \E m \in Asked("login") : m.request = token
  /\ renewal => Asked("confirm") # {}

IcomIInv ==
  /\ IcomTypeOK /\ SessionInv /\ SentInv /\ PortInv /\ TokenInv
  /\ CivPortIsTold /\ EndIsAnnounced /\ TokensBelong

(* A datagram of the session of the control socket.                        *)
LEMMA DatagramFacts ==
  ASSUME NEW kind, NEW request, NEW tok, NEW port
  PROVE  /\ Datagram(kind, request, tok, port).of = control
         /\ Datagram(kind, request, tok, port).kind = kind
         /\ Datagram(kind, request, tok, port).request = request
         /\ Datagram(kind, request, tok, port).token = tok
         /\ Datagram(kind, request, tok, port).civ = port
         /\ IcomTypeOK /\ kind \in ControlKinds \cup CivKinds /\ request \in 0 .. MaxLogins
              /\ tok \in 0 .. MaxLogins /\ port \in 0 .. MaxPorts
              => Datagram(kind, request, tok, port) \in Datagrams
BY DEF Datagram, IcomTypeOK, Datagrams

(* What is sent in a running session keeps SentInv, if it is not the end.  *)
LEMMA SpeakingKeepsSent ==
  ASSUME IcomIInv, NEW ms, Send(ms), UNCHANGED <<control, connects>>,
         ms # {} => control # 0,
         \A m \in ms : m.of = control /\ m.kind # "bye"
  PROVE  SentInv'
<1>1. /\ sent' = sent \cup ms /\ control' = control /\ connects' = connects
      /\ SentInv /\ IcomTypeOK /\ SessionInv
  BY DEF Send, IcomIInv
<1>2. Said("bye")' = Said("bye")
  BY <1>1 DEF Said
<1>3. \A m \in sent' : m.of \in 1 .. connects'
  BY <1>1 DEF SentInv, SessionInv, IcomTypeOK
<1> QED
  BY <1>1, <1>2, <1>3 DEF SentInv

(* A word that is none of those below says nothing of ports, tokens and    *)
(* streams.                                                                *)
Telling == {"stream", "login", "confirm", "close", "bye"}

LEMMA SmallTalkKeepsTheRest ==
  ASSUME IcomIInv, NEW ms, Send(ms),
         UNCHANGED <<control, civ, civLocalPort, bound, tokens, renewal>>,
         \A m \in ms : m.kind \notin Telling,
         \A m \in ms : m.kind = "open" => m.civ \in bound
  PROVE  PortInv' /\ TokenInv' /\ CivPortIsTold' /\ EndIsAnnounced' /\ TokensBelong'
<1>1. /\ sent' = sent \cup ms /\ control' = control /\ civ' = civ /\ bound' = bound
      /\ civLocalPort' = civLocalPort /\ tokRequest' = tokRequest /\ token' = token
      /\ renewal' = renewal
      /\ PortInv /\ TokenInv /\ CivPortIsTold /\ EndIsAnnounced /\ TokensBelong
  BY DEF Send, IcomIInv, tokens
<1>2. \A k \in Telling : Said(k)' = Said(k)
  BY <1>1 DEF Said
<1>3. \A k \in Telling : Asked(k)' = Asked(k)
  BY <1>1 DEF Asked
<1>4. /\ Said("login")' = Said("login") /\ Said("confirm")' = Said("confirm")
      /\ Said("stream")' = Said("stream") /\ Said("bye")' = Said("bye")
      /\ Said("close")' = Said("close")
      /\ Asked("login")' = Asked("login") /\ Asked("confirm")' = Asked("confirm")
      /\ Asked("stream")' = Asked("stream")
  BY <1>2, <1>3 DEF Telling
<1>5. PortInv'
  BY <1>1, <1>4 DEF PortInv
<1>6. TokenInv'
  BY <1>1, <1>4 DEF TokenInv
<1>7. CivPortIsTold'
  BY <1>1 DEF CivPortIsTold
<1>8. \A m \in Said("open")' : m.civ \in bound \/ \E c \in Said("close") : c.civ = m.civ
  BY <1>1 DEF EndIsAnnounced, Said
<1>9. EndIsAnnounced'
  BY <1>1, <1>4, <1>8 DEF EndIsAnnounced
<1>10. TokensBelong'
  BY <1>1, <1>4 DEF TokensBelong, OneLogin
<1> QED
  BY <1>5, <1>6, <1>7, <1>9, <1>10

LEMMA InitInv == IcomInit => IcomIInv
<1>1. IcomInit => FlagsOK
  BY DEF IcomInit, FlagsOK
<1>2. IcomInit => DataOK
  BY DEF IcomInit, DataOK, States
<1>3. IcomInit => SessionInv
  BY DEF IcomInit, SessionInv
<1>4. IcomInit => /\ SentInv /\ PortInv /\ TokenInv
              /\ CivPortIsTold /\ EndIsAnnounced /\ TokensBelong
  BY DEF IcomInit, SentInv, PortInv, TokenInv, CivPortIsTold, EndIsAnnounced, TokensBelong,
         Asked, Said, OneLogin
<1> QED
  BY <1>1, <1>2, <1>3, <1>4, TypeParts DEF IcomIInv

(* The end of a session tells the radio all that is owed to it.            *)
LEMMA DisconnectKeeps ==
  ASSUME IcomIInv, DisconnectFromRadio
  PROVE  IcomIInv'
<1> DEFINE ends == {ControlPacket("bye") : p \in {control} \ {0}}
           closes == IF civ # 0 /\ streamOpened THEN {CivPacket("close"), CivPacket("civBye")} ELSE {}
<1>1. /\ sent' = sent \cup (ends \cup closes) /\ control' = 0 /\ civ' = 0 /\ bound' = bound \ {civ}
      /\ state' = "Disconnected" /\ streamOpened' = FALSE /\ attempts' = 0
      /\ areYouThere' = FALSE /\ keepAlive' = FALSE /\ renewal' = FALSE /\ watchdog' = FALSE
      /\ leaked' = leaked /\ civLocalPort' = civLocalPort
      /\ tokRequest' = tokRequest /\ token' = token /\ heardCiv' = heardCiv
      /\ connects' = connects /\ ports' = ports /\ faults' = faults
  BY DEF DisconnectFromRadio, Cleanup, Send, Goodbyes, tokens, counters
<1>2. IcomTypeOK /\ SessionInv /\ SentInv /\ EndIsAnnounced /\ TokensBelong
  BY DEF IcomIInv
<1>3. /\ \A m \in ends \cup closes : m.of = control /\ m.kind \in {"bye", "close", "civBye"}
      /\ \A m \in ends \cup closes : control # 0
      /\ control # 0 => \E b \in ends : b.kind = "bye" /\ b.of = control
      /\ civ # 0 => \E c \in closes : c.kind = "close" /\ c.civ = civ
  BY <1>2, DatagramFacts DEF ControlPacket, CivPacket, SessionInv
<1>4. ends \cup closes \subseteq Datagrams
  BY <1>2 DEF ControlPacket, CivPacket, Datagram, Datagrams, IcomTypeOK, ControlKinds, CivKinds
<1>5. IcomTypeOK'
  <2>1. FlagsOK'
    BY <1>1, <1>2, TypeParts DEF FlagsOK
  <2>2. DataOK'
    BY <1>1, <1>2, <1>4, TypeParts, DatagramsStay DEF DataOK, States
  <2> QED
    BY <2>1, <2>2, TypeParts
<1>6. SessionInv'
  BY <1>1 DEF SessionInv
<1>7. SentInv'
  <2>1. \A m \in sent' : m.of \in 1 .. connects'
    BY <1>1, <1>2, <1>3 DEF SentInv, SessionInv, IcomTypeOK
  <2>2. \A m \in sent' : \E b \in Said("bye")' : b.of = m.of
    BY <1>1, <1>2, <1>3 DEF SentInv, Said
  <2> QED
    BY <1>1, <2>1, <2>2 DEF SentInv, Said
<1>8. PortInv' /\ TokenInv'
  BY <1>1 DEF PortInv, TokenInv, Asked
<1>9. EndIsAnnounced'
  <2>1. \A m \in Said("login")' : \E b \in Said("bye")' : b.of = m.of
    BY <1>7, <1>1 DEF SentInv, Said
  <2>2. ASSUME NEW m \in Said("open")'
        PROVE  m.civ \in bound' \/ \E c \in Said("close")' : c.civ = m.civ
    <3>1. m \in Said("open")
      BY <1>1, <1>3, <2>2 DEF Said
    <3>2. CASE m.civ = civ
      BY <1>1, <1>2, <1>3, <3>1, <3>2 DEF Said, IcomTypeOK, EndIsAnnounced
    <3>3. CASE m.civ # civ
      BY <1>1, <1>2, <3>1, <3>3 DEF EndIsAnnounced, Said
    <3> QED
      BY <3>2, <3>3
  <2> QED
    BY <2>1, <2>2 DEF EndIsAnnounced
<1>10. TokensBelong'
  <2>1. /\ Said("login")' = Said("login") /\ Said("confirm")' = Said("confirm")
        /\ Said("stream")' = Said("stream")
    BY <1>1, <1>3 DEF Said
  <2> QED
    BY <1>1, <1>2, <2>1 DEF TokensBelong, OneLogin
<1>11. CivPortIsTold'
  BY <1>1 DEF CivPortIsTold
<1> QED
  BY <1>5, <1>6, <1>7, <1>8, <1>9, <1>10, <1>11 DEF IcomIInv

(* A new session has a number no datagram bears yet.                       *)
LEMMA ConnectKeeps ==
  ASSUME IcomIInv, IcomConnectToRadio
  PROVE  IcomIInv'
<1>1. /\ state = "Disconnected" /\ state' = "WaitingForHere" /\ connects < MaxConnects
      /\ UNCHANGED <<streamOpened, attempts, civ, civLocalPort, bound, keepAlive, renewal,
                     watchdog, leaked, tokRequest, token, heardCiv, sent, ports>>
      /\ \/ /\ connects' = connects + 1 /\ control' = connects + 1 /\ areYouThere' = TRUE
            /\ faults' = faults
         \/ /\ UNCHANGED <<control, areYouThere, connects>>
            /\ faults < MaxFaults /\ faults' = faults + 1
  BY DEF IcomConnectToRadio, Fault, tokens
<1>2. IcomTypeOK /\ SessionInv /\ SentInv /\ EndIsAnnounced /\ TokensBelong
  BY DEF IcomIInv
<1>3. /\ control = 0 /\ civ = 0 /\ ~streamOpened /\ attempts = 0
      /\ ~areYouThere /\ ~keepAlive /\ ~renewal
  BY <1>1, <1>2 DEF SessionInv
<1>4. IcomTypeOK'
  <2>1. FlagsOK'
    BY <1>1, <1>2, TypeParts DEF FlagsOK
  <2>2. DataOK'
    BY <1>1, <1>2, TypeParts, DatagramsStay DEF DataOK, States
  <2> QED
    BY <2>1, <2>2, TypeParts
<1>5. SessionInv'
  BY <1>1, <1>2, <1>3 DEF SessionInv, IcomTypeOK
<1>6. \A m \in sent : m.of # control' /\ m.of # 0
  BY <1>1, <1>2, <1>3 DEF SentInv, IcomTypeOK
<1>7. \A kind : Said(kind)' = Said(kind) /\ Asked(kind)' = {}
  BY <1>1, <1>6 DEF Said, Asked
<1>8. SentInv'
  BY <1>1, <1>2, <1>3, <1>6 DEF SentInv, IcomTypeOK, Said
<1>9. PortInv' /\ TokenInv'
  BY <1>1, <1>3, <1>7 DEF PortInv, TokenInv
<1>10. EndIsAnnounced'
  BY <1>1, <1>2, <1>6, <1>3 DEF EndIsAnnounced, Said
<1>11. TokensBelong'
  BY <1>1, <1>2, <1>3 DEF TokensBelong, OneLogin, Said
<1>12. CivPortIsTold'
  BY <1>1, <1>3 DEF CivPortIsTold
<1> QED
  BY <1>4, <1>5, <1>8, <1>9, <1>10, <1>11, <1>12 DEF IcomIInv

(* A step that only talks, and at most sets timers and counts questions.   *)
LEMMA TalkKeeps ==
  ASSUME IcomIInv, NEW ms, Send(ms), ms \subseteq Datagrams,
         \A m \in ms : control # 0 /\ m.of = control /\ m.kind \notin Telling,
         \A m \in ms : m.kind = "open" => m.civ \in bound,
         UNCHANGED <<control, civ, civLocalPort, bound, streamOpened, tokens, renewal,
                     counters>>,
         state' \in States, state' = "Disconnected" => control = 0,
         attempts' \in 0 .. MaxRetries, FlagsOK',
         control = 0 => attempts' = 0 /\ ~areYouThere' /\ ~keepAlive'
  PROVE  IcomIInv'
<1>1. IcomTypeOK /\ SessionInv /\ DataOK
  BY TypeParts DEF IcomIInv
<1>2. DataOK'
  BY <1>1, DatagramsStay DEF DataOK, Send, tokens, counters, States
<1>3. SessionInv'
  BY <1>1 DEF SessionInv, tokens, counters
<1>4. SentInv'
  <2>1. UNCHANGED <<control, connects>>
    BY DEF counters
  <2>2. ms # {} => control # 0
    OBVIOUS
  <2>3. \A m \in ms : m.of = control /\ m.kind # "bye"
    BY DEF Telling
  <2> QED
    BY <2>1, <2>2, <2>3, SpeakingKeepsSent
<1>5. PortInv' /\ TokenInv' /\ CivPortIsTold' /\ EndIsAnnounced' /\ TokensBelong'
  BY SmallTalkKeepsTheRest
<1> QED
  BY <1>2, <1>3, <1>4, <1>5, TypeParts DEF IcomIInv

(* Datagrams of the program's own making are datagrams.                    *)
LEMMA PacketFacts ==
  ASSUME IcomTypeOK
  PROVE  /\ \A kind \in ControlKinds : ControlPacket(kind) \in Datagrams
         /\ \A kind \in CivKinds : CivPacket(kind) \in Datagrams
         /\ \A kind : /\ ControlPacket(kind).of = control /\ ControlPacket(kind).kind = kind
                      /\ CivPacket(kind).of = control /\ CivPacket(kind).kind = kind
                      /\ CivPacket(kind).civ = civ
BY DEF IcomTypeOK, ControlPacket, CivPacket, Datagram, Datagrams

LEMMA SendAreYouThereKeeps ==
  ASSUME IcomIInv, SendAreYouThere
  PROVE  IcomIInv'
<1>1. IcomTypeOK /\ SessionInv /\ FlagsOK /\ DataOK
  BY TypeParts DEF IcomIInv
<1> DEFINE ms == {ControlPacket("areYouThere")}
<1>2. /\ Send(ms) /\ areYouThere /\ attempts < MaxRetries /\ attempts' = attempts + 1
      /\ UNCHANGED <<state, streamOpened, sockets, runningTimers, tokens, heardCiv, counters>>
  BY DEF SendAreYouThere
<1>3. control # 0
  BY <1>1, <1>2 DEF SessionInv
<1>4. ms \subseteq Datagrams /\ \A m \in ms : m.of = control /\ m.kind = "areYouThere"
  BY <1>1, PacketFacts DEF ControlKinds
<1>5. FlagsOK'
  BY <1>1, <1>2 DEF FlagsOK, runningTimers
<1>6. attempts' \in 0 .. MaxRetries /\ state' \in States
  BY <1>1, <1>2 DEF DataOK, States
<1>7. state' = "Disconnected" => control = 0
  BY <1>1, <1>2 DEF SessionInv
<1>8. UNCHANGED <<control, civ, civLocalPort, bound, streamOpened, tokens, renewal, counters>>
  BY <1>2 DEF sockets, runningTimers
<1> HIDE DEF ms
<1> QED
  BY <1>2, <1>3, <1>4, <1>5, <1>6, <1>7, <1>8, TalkKeeps DEF Telling

(* What goes over the CI-V socket changes nothing but what was heard.      *)
LEMMA CivTalkKeeps ==
  ASSUME IcomIInv, NEW kind \in CivKinds \ Telling,
         \/ civ # 0 /\ Send({CivPacket(kind)})
         \/ UNCHANGED sent,
         UNCHANGED <<session, sockets, runningTimers, tokens, counters>>,
         heardCiv' \in BOOLEAN
  PROVE  IcomIInv'
<1>1. IcomTypeOK /\ SessionInv /\ FlagsOK /\ DataOK
  BY TypeParts DEF IcomIInv
<1>2. PICK ms \in SUBSET {CivPacket(kind)} : Send(ms) /\ (ms # {} => civ # 0)
  BY DEF Send
<1>3. /\ ms \subseteq Datagrams
      /\ \A m \in ms : m.of = control /\ m.kind = kind /\ m.civ = civ
  BY <1>1, <1>2, PacketFacts
<1>4. ms # {} => control # 0 /\ civ \in bound
  BY <1>1, <1>2 DEF SessionInv
<1>5. FlagsOK'
  BY <1>1 DEF FlagsOK, session, runningTimers
<1>6. attempts' \in 0 .. MaxRetries /\ state' \in States
  BY <1>1 DEF DataOK, States, session
<1>7. /\ state' = "Disconnected" => control = 0
      /\ control = 0 => attempts' = 0 /\ ~areYouThere' /\ ~keepAlive'
  BY <1>1 DEF SessionInv, session, runningTimers
<1>8. UNCHANGED <<control, civ, civLocalPort, bound, streamOpened, tokens, renewal, counters>>
  BY DEF sockets, runningTimers, session
<1> QED
  BY <1>2, <1>3, <1>4, <1>5, <1>6, <1>7, <1>8, TalkKeeps

(* "I am here": the first one ends the questions, a later one does not     *)
(* hurt.                                                                   *)
LEMMA ReceiveHereKeeps ==
  ASSUME IcomIInv, ReceiveHere
  PROVE  IcomIInv'
<1>1. IcomTypeOK /\ SessionInv /\ FlagsOK /\ DataOK
  BY TypeParts DEF IcomIInv
<1> DEFINE ms == {ControlPacket("areYouReady")}
<1>2. /\ Send(ms) /\ attempts' = 0 /\ state' = "WaitingForReady" /\ areYouThere' = FALSE
      /\ keepAlive' = (keepAlive \/ areYouThere)
      /\ UNCHANGED <<streamOpened, sockets, renewal, watchdog, leaked, tokens, heardCiv, counters>>
  BY DEF ReceiveHere
<1>3. control # 0
  BY DEF ReceiveHere, Asked
<1>4. ms \subseteq Datagrams /\ \A m \in ms : m.of = control /\ m.kind = "areYouReady"
  BY <1>1, PacketFacts DEF ControlKinds
<1>5. FlagsOK'
  BY <1>1, <1>2 DEF FlagsOK
<1>6. attempts' \in 0 .. MaxRetries /\ state' \in States
  BY <1>2 DEF States
<1>7. state' = "Disconnected" => control = 0
  BY <1>2
<1>8. UNCHANGED <<control, civ, civLocalPort, bound, streamOpened, tokens, renewal, counters>>
  BY <1>2 DEF sockets
<1> HIDE DEF ms
<1> QED
  BY <1>2, <1>3, <1>4, <1>5, <1>6, <1>7, <1>8, TalkKeeps DEF Telling

(* More logins can only spoil OneLogin.                                    *)
LEMMA OneLoginStays ==
  ASSUME sent \subseteq sent', NEW p, OneLogin(p)'
  PROVE  OneLogin(p)
BY DEF OneLogin, Said

(* "I am ready": a login under a new number.  If the token was confirmed   *)
(* before, the session now has two logins.                                 *)
LEMMA ReceiveReadyKeeps ==
  ASSUME IcomIInv, ReceiveReady
  PROVE  IcomIInv'
<1>1. /\ IcomTypeOK /\ SessionInv /\ SentInv /\ PortInv /\ TokenInv
      /\ CivPortIsTold /\ EndIsAnnounced /\ TokensBelong /\ FlagsOK /\ DataOK
  BY TypeParts DEF IcomIInv
<1> DEFINE login == Datagram("login", tokRequest', 0, 0)
<1>2. /\ sent' = sent \cup {login} /\ tokRequest < MaxLogins /\ tokRequest' = tokRequest + 1
      /\ state' = "WaitingForLogin" /\ token' = token
      /\ UNCHANGED <<streamOpened, attempts, heardCiv>>
      /\ UNCHANGED <<control, civ, civLocalPort, bound>>
      /\ UNCHANGED <<areYouThere, keepAlive, renewal, watchdog, leaked>>
      /\ UNCHANGED <<connects, ports, faults>>
  BY DEF ReceiveReady, Send, sockets, runningTimers, counters
<1>3. control # 0
  BY DEF ReceiveReady, Asked
<1>4. /\ login \in Datagrams
      /\ login.of = control /\ login.kind = "login" /\ login.request = tokRequest'
  BY <1>1, <1>2 DEF Datagram, Datagrams, DataOK, ControlKinds
<1> HIDE DEF login
<1>5. FlagsOK'
  BY <1>1, <1>2 DEF FlagsOK
<1>6. DataOK'
  BY <1>1, <1>2, <1>4, DatagramsStay DEF DataOK, States
<1>7. SessionInv'
  BY <1>1, <1>2, <1>3 DEF SessionInv
<1>8. SentInv'
  <2>1. Send({login}) /\ UNCHANGED <<control, connects>>
    BY <1>2 DEF Send
  <2>2. {login} # {} => control # 0
    BY <1>3
  <2>3. \A m \in {login} : m.of = control /\ m.kind # "bye"
    BY <1>4
  <2> QED
    BY <2>1, <2>2, <2>3, SpeakingKeepsSent
<1>9. \A k \in {"stream", "confirm", "bye", "open", "close"} :
        Said(k)' = Said(k) /\ Asked(k)' = Asked(k)
  BY <1>2, <1>4 DEF Said, Asked
<1>10. PortInv'
  BY <1>1, <1>2, <1>9 DEF PortInv
<1>11. Asked("login") \subseteq Asked("login")' /\ login \in Asked("login")'
  BY <1>2, <1>3, <1>4 DEF Asked
<1>12. TokenInv'
  BY <1>1, <1>2, <1>4, <1>9, <1>11 DEF TokenInv
<1>13. CivPortIsTold'
  BY <1>1, <1>2 DEF CivPortIsTold
<1>14. EndIsAnnounced'
  <2>1. \A m \in Said("login")' : m.of = control' \/ \E b \in Said("bye")' : b.of = m.of
    BY <1>1, <1>2, <1>4, <1>9 DEF EndIsAnnounced, Said
  <2> QED
    BY <1>1, <1>2, <1>9, <2>1 DEF EndIsAnnounced
<1>15. TokensBelong'
  <2>1. ASSUME NEW m \in Said("stream")', OneLogin(m.of)'
        PROVE  m.token = m.request
    <3>1. OneLogin(m.of)
      BY <1>2, <2>1, OneLoginStays
    <3> QED
      BY <1>1, <1>9, <2>1, <3>1 DEF TokensBelong
  <2>2. ASSUME renewal', OneLogin(control)'
        PROVE  token' = tokRequest'
    <3>1. PICK m \in Asked("login") : m.request = token
      BY <1>1, <1>2, <2>2 DEF TokenInv
    <3>2. m \in Asked("login")'
      BY <1>11, <3>1
    <3>3. m = login
      BY <1>4, <1>11, <2>2, <3>2, <1>2 DEF OneLogin, Asked, Said
    <3> QED
      BY <1>2, <1>4, <3>1, <3>3
  <2> QED
    BY <1>1, <1>2, <1>9, <2>1, <2>2 DEF TokensBelong
<1> QED
  BY <1>5, <1>6, <1>7, <1>8, <1>10, <1>12, <1>13, <1>14, <1>15, TypeParts DEF IcomIInv

(* The answer to the login last sent: its token is confirmed.              *)
LEMMA ReceiveLoginKeeps ==
  ASSUME IcomIInv, ReceiveLogin
  PROVE  IcomIInv'
<1>1. /\ IcomTypeOK /\ SessionInv /\ SentInv /\ PortInv /\ TokenInv
      /\ CivPortIsTold /\ EndIsAnnounced /\ TokensBelong /\ FlagsOK /\ DataOK
  BY TypeParts DEF IcomIInv
<1> DEFINE confirm == Datagram("confirm", tokRequest, token', 0)
<1>2. PICK asked \in Asked("login") : asked.request = tokRequest /\ token' = asked.request
  BY DEF ReceiveLogin, CurrentLogin
<1>3. /\ sent' = sent \cup {confirm} /\ token' = tokRequest /\ tokRequest' = tokRequest
      /\ renewal' = TRUE /\ state' = "Authenticated"
      /\ UNCHANGED <<streamOpened, attempts, heardCiv>>
      /\ UNCHANGED <<control, civ, civLocalPort, bound>>
      /\ UNCHANGED <<areYouThere, keepAlive, watchdog, leaked>>
      /\ UNCHANGED <<connects, ports, faults>>
  BY <1>2 DEF ReceiveLogin, Send, sockets, counters
<1>4. control # 0
  BY <1>2 DEF Asked
<1>5. /\ confirm \in Datagrams /\ confirm.of = control /\ confirm.kind = "confirm"
      /\ confirm.request = tokRequest /\ confirm.token = tokRequest
  BY <1>1, <1>3 DEF Datagram, Datagrams, DataOK, ControlKinds
<1> HIDE DEF confirm
<1>6. FlagsOK'
  BY <1>1, <1>3 DEF FlagsOK
<1>7. DataOK'
  BY <1>1, <1>3, <1>5, DatagramsStay DEF DataOK, States
<1>8. SessionInv'
  BY <1>1, <1>3, <1>4 DEF SessionInv
<1>9. SentInv'
  <2>1. Send({confirm}) /\ UNCHANGED <<control, connects>>
    BY <1>3 DEF Send
  <2>2. {confirm} # {} => control # 0
    BY <1>4
  <2>3. \A m \in {confirm} : m.of = control /\ m.kind # "bye"
    BY <1>5
  <2> QED
    BY <2>1, <2>2, <2>3, SpeakingKeepsSent
<1>10. \A k \in {"stream", "login", "bye", "open", "close"} :
         Said(k)' = Said(k) /\ Asked(k)' = Asked(k)
  BY <1>3, <1>5 DEF Said, Asked
<1>11. PortInv'
  BY <1>1, <1>3, <1>10 DEF PortInv
<1>12. confirm \in Asked("confirm")'
  BY <1>3, <1>4, <1>5 DEF Asked
<1>13. TokenInv'
  BY <1>1, <1>2, <1>3, <1>10, <1>12 DEF TokenInv
<1>14. CivPortIsTold'
  BY <1>1, <1>3 DEF CivPortIsTold
<1>15. EndIsAnnounced'
  BY <1>1, <1>3, <1>10 DEF EndIsAnnounced
<1>16. TokensBelong'
  <2>1. \A m \in Said("confirm")' : m.token = m.request
    BY <1>1, <1>3, <1>5 DEF TokensBelong, Said
  <2>2. ASSUME NEW m \in Said("stream")', OneLogin(m.of)'
        PROVE  m.token = m.request
    <3>1. OneLogin(m.of)
      BY <1>3, <2>2, OneLoginStays
    <3> QED
      BY <1>1, <1>10, <2>2, <3>1 DEF TokensBelong
  <2> QED
    BY <1>3, <2>1, <2>2 DEF TokensBelong
<1> QED
  BY <1>6, <1>7, <1>8, <1>9, <1>11, <1>13, <1>14, <1>15, <1>16, TypeParts DEF IcomIInv

(* The stream is asked for, on the port that is told, with the token of    *)
(* the one login there was.                                                *)
LEMMA ReceiveCapabilitiesKeeps ==
  ASSUME IcomIInv, ReceiveCapabilities
  PROVE  IcomIInv'
<1>1. /\ IcomTypeOK /\ SessionInv /\ SentInv /\ PortInv /\ TokenInv
      /\ CivPortIsTold /\ EndIsAnnounced /\ TokensBelong /\ FlagsOK /\ DataOK
  BY TypeParts DEF IcomIInv
<1> DEFINE stream == Datagram("stream", tokRequest, token, civLocalPort')
<1>2. /\ sent' = sent \cup {stream} /\ state' = "StreamRequested"
      /\ UNCHANGED <<streamOpened, attempts, heardCiv>>
      /\ UNCHANGED <<control, civ, bound, tokRequest, token, connects>>
      /\ UNCHANGED <<areYouThere, keepAlive, renewal, watchdog, leaked>>
  BY DEF ReceiveCapabilities, Send, runningTimers, tokens
<1>3. \/ ports < MaxPorts /\ ports' = ports + 1 /\ civLocalPort' = ports' /\ faults' = faults
      \/ /\ faults < MaxFaults /\ faults' = faults + 1
         /\ ports' = ports /\ civLocalPort' = civLocalPort
  BY DEF ReceiveCapabilities, Fault
<1>4. Asked("confirm") # {} /\ control # 0
  BY DEF ReceiveCapabilities, Asked
<1>5. civLocalPort' \in 0 .. MaxPorts /\ ports' \in 0 .. MaxPorts /\ faults' \in 0 .. MaxFaults
  BY <1>1, <1>3 DEF DataOK
<1>6. /\ stream \in Datagrams /\ stream.of = control /\ stream.kind = "stream"
      /\ stream.request = tokRequest /\ stream.token = token /\ stream.civ = civLocalPort'
  BY <1>1, <1>5 DEF Datagram, Datagrams, DataOK, ControlKinds
<1> HIDE DEF stream
<1>7. FlagsOK'
  BY <1>1, <1>2 DEF FlagsOK
<1>8. DataOK'
  BY <1>1, <1>2, <1>5, <1>6, DatagramsStay DEF DataOK, States
<1>9. SessionInv'
  BY <1>1, <1>2, <1>4 DEF SessionInv
<1>10. SentInv'
  <2>1. Send({stream}) /\ UNCHANGED <<control, connects>>
    BY <1>2 DEF Send
  <2>2. {stream} # {} => control # 0
    BY <1>4
  <2>3. \A m \in {stream} : m.of = control /\ m.kind # "bye"
    BY <1>6
  <2> QED
    BY <2>1, <2>2, <2>3, SpeakingKeepsSent
<1>11. \A k \in {"login", "confirm", "bye", "open", "close"} :
         Said(k)' = Said(k) /\ Asked(k)' = Asked(k)
  BY <1>2, <1>6 DEF Said, Asked
<1>12. PortInv'
  BY <1>2, <1>4, <1>6 DEF PortInv, Asked
<1>13. TokenInv'
  BY <1>1, <1>2, <1>11 DEF TokenInv
<1>14. CivPortIsTold'
  BY <1>1, <1>2 DEF CivPortIsTold
<1>15. EndIsAnnounced'
  BY <1>1, <1>2, <1>11 DEF EndIsAnnounced
<1>16. ASSUME OneLogin(control)
       PROVE  token = tokRequest
  BY <1>1, <1>4, <1>16 DEF TokenInv, OneLogin, Asked, Said
<1>17. TokensBelong'
  <2>1. ASSUME NEW m \in Said("stream")', OneLogin(m.of)'
        PROVE  m.token = m.request
    <3>1. OneLogin(m.of)
      BY <1>2, <2>1, OneLoginStays
    <3>2. CASE m = stream
      BY <1>6, <1>16, <3>1, <3>2
    <3>3. CASE m # stream
      BY <1>1, <1>2, <2>1, <3>1, <3>3 DEF TokensBelong, Said
    <3> QED
      BY <3>2, <3>3
  <2>2. renewal' /\ OneLogin(control)' => token' = tokRequest'
    BY <1>1, <1>2, OneLoginStays DEF TokensBelong
  <2> QED
    BY <1>1, <1>11, <2>1, <2>2 DEF TokensBelong
<1> QED
  BY <1>7, <1>8, <1>9, <1>10, <1>12, <1>13, <1>14, <1>15, <1>17, TypeParts DEF IcomIInv

(* The stream is granted, once more perhaps: a socket on the port that was *)
(* told, or none.                                                          *)
LEMMA ReceiveStatusKeeps ==
  ASSUME IcomIInv, ReceiveStatus
  PROVE  IcomIInv'
<1>1. /\ IcomTypeOK /\ SessionInv /\ SentInv /\ PortInv /\ TokenInv
      /\ CivPortIsTold /\ EndIsAnnounced /\ TokensBelong /\ FlagsOK /\ DataOK
  BY TypeParts DEF IcomIInv
<1> DEFINE hello(port) == Datagram("civHello", 0, 0, port)
<1>2. /\ streamOpened' = TRUE /\ state' = "Connected"
      /\ UNCHANGED <<attempts, control, civLocalPort, areYouThere, keepAlive, renewal>>
      /\ UNCHANGED <<tokRequest, token, heardCiv, connects>>
  BY DEF ReceiveStatus, tokens
<1>3. PICK told \in Asked("stream") : told.civ = civLocalPort
  BY <1>1 DEF ReceiveStatus, PortInv
<1>4. control # 0 /\ told \in sent /\ told.kind = "stream" /\ told.of = control
  BY <1>3 DEF Asked
<1>5. PICK ms \in SUBSET Datagrams :
        sent' = sent \cup ms /\ \A m \in ms : m.of = control /\ m.kind = "civHello"
  <2>1. CASE \E port \in 1 .. MaxPorts : Bind(port)
    <3>1. PICK port \in 1 .. MaxPorts : Bind(port)
      BY <2>1
    <3>2. /\ hello(port) \in Datagrams
          /\ hello(port).of = control /\ hello(port).kind = "civHello"
      BY <1>1 DEF Datagram, Datagrams, DataOK, CivKinds
    <3>3. sent' = sent \cup {hello(port)}
      BY <3>1 DEF Bind
    <3> HIDE DEF hello
    <3>4. {hello(port)} \in SUBSET Datagrams
      BY <3>2
    <3> QED
      BY <3>2, <3>3, <3>4
  <2>2. CASE BindFails
    <3> WITNESS {} \in SUBSET Datagrams
    <3> QED
      BY <2>2 DEF BindFails
  <2>3. (\E port \in 1 .. MaxPorts : Bind(port)) \/ BindFails
    BY <1>1 DEF ReceiveStatus, InitCivSocket, DataOK
  <2> QED
    BY <2>1, <2>2, <2>3
<1>6. /\ ports' \in 0 .. MaxPorts /\ faults' \in 0 .. MaxFaults
      /\ \/ /\ civ' \in 1 .. MaxPorts /\ (civ' = civLocalPort \/ civLocalPort = 0)
            /\ bound' = bound \cup {civ'}
         \/ civ' = 0 /\ bound' = bound
  BY <1>1 DEF ReceiveStatus, InitCivSocket, Bind, BindFails, Fault, DataOK
<1>7. FlagsOK'
  <2>1. watchdog' \in BOOLEAN /\ leaked' \in BOOLEAN
    BY <1>1 DEF ReceiveStatus, InitCivSocket, Bind, BindFails, FlagsOK
  <2> QED
    BY <1>1, <1>2, <2>1 DEF FlagsOK
<1>8. DataOK'
  <2>1. bound \subseteq 1 .. MaxPorts
    BY <1>1 DEF DataOK
  <2>2. civ' \in 0 .. MaxPorts
    BY <1>6
  <2>3. bound' \subseteq 1 .. MaxPorts
    BY <1>6, <2>1
  <2>4. sent' \subseteq Datagrams
    BY <1>1, <1>5 DEF DataOK
  <2>5. ports' \in 0 .. MaxPorts /\ faults' \in 0 .. MaxFaults
    BY <1>6
  <2> QED
    BY <1>1, <1>2, <2>2, <2>3, <2>4, <2>5, DatagramsStay DEF DataOK, States
<1>9. SessionInv'
  BY <1>1, <1>2, <1>4, <1>6 DEF SessionInv
<1>10. SentInv'
  <2>1. Send(ms) /\ UNCHANGED <<control, connects>>
    BY <1>2, <1>5 DEF Send
  <2>2. ms # {} => control # 0
    BY <1>4
  <2>3. \A m \in ms : m.of = control /\ m.kind # "bye"
    BY <1>5
  <2> QED
    BY <2>1, <2>2, <2>3, SpeakingKeepsSent
<1>11. \A k \in {"stream", "login", "confirm", "bye", "open", "close"} :
         Said(k)' = Said(k) /\ Asked(k)' = Asked(k)
  BY <1>2, <1>5 DEF Said, Asked
<1>12. PortInv' /\ TokenInv'
  BY <1>1, <1>2, <1>11 DEF PortInv, TokenInv
<1>13. CivPortIsTold'
  BY <1>2, <1>3, <1>4, <1>5, <1>6 DEF CivPortIsTold
<1>14. EndIsAnnounced'
  BY <1>1, <1>2, <1>6, <1>11 DEF EndIsAnnounced
<1>15. TokensBelong'
  BY <1>1, <1>2, <1>11 DEF TokensBelong, OneLogin
<1> QED
  BY <1>7, <1>8, <1>9, <1>10, <1>12, <1>13, <1>14, <1>15, TypeParts DEF IcomIInv

LEMMA NextKeeps ==
  ASSUME IcomIInv, [IcomNext]_icomVars
  PROVE  IcomIInv'
<1>1. CASE IcomConnectToRadio
  BY <1>1, ConnectKeeps
<1>2. CASE DisconnectFromRadio \/ GiveUp \/ LoginRefused \/ RadioDisconnects
  BY <1>2, DisconnectKeeps DEF GiveUp, LoginRefused, RadioDisconnects
<1>3. CASE SendAreYouThere
  BY <1>3, SendAreYouThereKeeps
<1>4. FlagsOK
  BY TypeParts DEF IcomIInv
<1>5. CASE WatchdogTimeout \/ ReceiveCivReady
  <2>1. "open" \in CivKinds \ Telling
    BY DEF CivKinds, Telling
  <2>2. /\ \/ civ # 0 /\ Send({CivPacket("open")})
           \/ UNCHANGED sent
        /\ UNCHANGED <<session, sockets, runningTimers, tokens, counters>>
        /\ heardCiv' = heardCiv
    BY <1>5 DEF WatchdogTimeout, ReceiveCivReady, CivOpen, Send
  <2>3. heardCiv' \in BOOLEAN
    BY <1>4, <2>2 DEF FlagsOK
  <2> QED
    BY <2>1, <2>2, <2>3, CivTalkKeeps
<1>6. CASE SendCivCommand
  <2>1. "command" \in CivKinds \ Telling
    BY DEF CivKinds, Telling
  <2>2. /\ civ # 0 /\ Send({CivPacket("command")})
        /\ UNCHANGED <<session, sockets, runningTimers, tokens, counters>>
        /\ heardCiv' = heardCiv
    BY <1>6 DEF SendCivCommand
  <2>3. heardCiv' \in BOOLEAN
    BY <1>4, <2>2 DEF FlagsOK
  <2> QED
    BY <2>1, <2>2, <2>3, CivTalkKeeps
<1>7. CASE ReceiveCivHere
  <2>1. "civReady" \in CivKinds \ Telling
    BY DEF CivKinds, Telling
  <2>2. /\ civ # 0 /\ Send({CivPacket("civReady")})
        /\ UNCHANGED <<session, sockets, runningTimers, tokens, counters>>
        /\ heardCiv' = heardCiv
    BY <1>7 DEF ReceiveCivHere, CivAsked
  <2>3. heardCiv' \in BOOLEAN
    BY <1>4, <2>2 DEF FlagsOK
  <2> QED
    BY <2>1, <2>2, <2>3, CivTalkKeeps
<1>8. CASE ReceiveCivData \/ UNCHANGED icomVars
  <2>1. "open" \in CivKinds \ Telling
    BY DEF CivKinds, Telling
  <2>2. /\ UNCHANGED sent
        /\ UNCHANGED <<session, sockets, runningTimers, tokens, counters>>
        /\ heardCiv' \in {heardCiv, TRUE}
    BY <1>8 DEF ReceiveCivData, icomVars
  <2>3. heardCiv' \in BOOLEAN
    BY <1>4, <2>2 DEF FlagsOK
  <2> QED
    BY <2>1, <2>2, <2>3, CivTalkKeeps
<1>9. CASE ReceiveHere
  BY <1>9, ReceiveHereKeeps
<1>10. CASE ReceiveReady
  BY <1>10, ReceiveReadyKeeps
<1>11. CASE ReceiveLogin
  BY <1>11, ReceiveLoginKeeps
<1>12. CASE ReceiveCapabilities
  BY <1>12, ReceiveCapabilitiesKeeps
<1>13. CASE ReceiveStatus
  BY <1>13, ReceiveStatusKeeps
<1> QED
  BY <1>1, <1>2, <1>3, <1>5, <1>6, <1>7, <1>8, <1>9, <1>10, <1>11, <1>12, <1>13 DEF IcomNext

LEMMA Invariance == IcomSpec => []IcomIInv
<1>1. IcomInit => IcomIInv
  BY InitInv
<1>2. IcomIInv /\ [IcomNext]_icomVars => IcomIInv'
  BY NextKeeps
<1> QED
  BY <1>1, <1>2, PTL DEF IcomSpec

(* The variables have their types (initial values and assignments of       *)
(* IcomNetwork), within the bounds.                                        *)
THEOREM TypeCorrect == IcomSpec => []IcomTypeOK
<1>1. IcomIInv => IcomTypeOK
  BY DEF IcomIInv
<1> QED
  BY <1>1, Invariance, PTL

(* The CI-V socket has a port the radio was told in this session           *)
(* (selectRadio, initCivSocket), however often streams are asked for and   *)
(* granted.                                                                *)
THEOREM CivSocketIsTold == IcomSpec => []CivPortIsTold
<1>1. IcomIInv => CivPortIsTold
  BY DEF IcomIInv
<1> QED
  BY <1>1, Invariance, PTL

(* Every session that asked to log in and is over was ended at the radio,  *)
(* and every stream it opened over a socket it still had                   *)
(* (disconnectFromRadio).                                                  *)
THEOREM SessionsAreEnded == IcomSpec => []EndIsAnnounced
<1>1. IcomIInv => EndIsAnnounced
  BY DEF IcomIInv
<1> QED
  BY <1>1, Invariance, PTL

(* Tokens are confirmed for their login, and used for the stream and kept  *)
(* for the renewal with it in a session of one login (handleLoginResponse, *)
(* sendRequestStream).                                                     *)
THEOREM TokensStayWithLogins == IcomSpec => []TokensBelong
<1>1. IcomIInv => TokensBelong
  BY DEF IcomIInv
<1> QED
  BY <1>1, Invariance, PTL

(* Whatever is said is said in the running session.                        *)
LEMMA NewsIsOfTheSession ==
  ASSUME IcomIInv, [IcomNext]_icomVars, NEW m \in sent' \ sent
  PROVE  m.of = control /\ control # 0
<1>1. IcomTypeOK /\ SessionInv
  BY DEF IcomIInv
<1>2. \A kind, request, tok, port : Datagram(kind, request, tok, port).of = control
  BY DatagramFacts
<1>3. /\ \A kind : ControlPacket(kind).of = control
      /\ \A kind : CivPacket(kind).of = control
  BY <1>2 DEF ControlPacket, CivPacket
<1>4. CASE DisconnectFromRadio \/ GiveUp \/ LoginRefused \/ RadioDisconnects
  <2>1. m \in Goodbyes
    BY <1>4 DEF GiveUp, LoginRefused, RadioDisconnects, DisconnectFromRadio, Send
  <2> QED
    BY <1>1, <1>3, <2>1 DEF Goodbyes, SessionInv
<1>5. CASE SendAreYouThere
  BY <1>1, <1>3, <1>5 DEF SendAreYouThere, SessionInv, Send
<1>6. CASE WatchdogTimeout \/ SendCivCommand \/ ReceiveCivHere \/ ReceiveCivReady
  <2>1. m.of = control /\ civ # 0
    BY <1>3, <1>6 DEF WatchdogTimeout, SendCivCommand, ReceiveCivHere, ReceiveCivReady,
       CivOpen, CivAsked, Send
  <2> QED
    BY <1>1, <2>1 DEF SessionInv
<1>7. CASE ReceiveHere
  BY <1>3, <1>7 DEF ReceiveHere, Asked, Send
<1>8. CASE ReceiveReady \/ ReceiveLogin \/ ReceiveCapabilities
  BY <1>2, <1>8 DEF ReceiveReady, ReceiveLogin, ReceiveCapabilities, CurrentLogin, Asked, Send
<1>9. CASE ReceiveStatus
  BY <1>2, <1>9 DEF ReceiveStatus, InitCivSocket, Bind, BindFails, Asked
<1>10. CASE IcomConnectToRadio \/ ReceiveCivData \/ UNCHANGED icomVars
  BY <1>10 DEF IcomConnectToRadio, ReceiveCivData, icomVars
<1> QED
  BY <1>4, <1>5, <1>6, <1>7, <1>8, <1>9, <1>10 DEF IcomNext

(* Nothing is said in a session after its disconnect, and no timer that    *)
(* writes to the control socket outlives the socket (cleanup).             *)
THEOREM DisconnectIsTheEnd == IcomSpec => NothingAfterEnd
<1>1. ASSUME IcomIInv, IcomIInv', [IcomNext]_icomVars
      PROVE  /\ \A m \in sent' \ sent : m.of # 0 /\ ~\E b \in Said("bye") : b.of = m.of
             /\ control' = 0 => ~(areYouThere' \/ keepAlive' \/ renewal')
  <2>1. SentInv /\ SessionInv'
    BY <1>1 DEF IcomIInv
  <2>2. \A m \in sent' \ sent : m.of = control /\ control # 0
    BY <1>1, NewsIsOfTheSession
  <2> QED
    BY <2>1, <2>2 DEF SentInv, SessionInv
<1> QED
  BY <1>1, Invariance, PTL DEF IcomSpec, NothingAfterEnd
=============================================================================
