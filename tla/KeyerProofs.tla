---------------------------- MODULE KeyerProofs -----------------------------
(***************************************************************************)
(* Proofs about the two halves of the paddle: the software keyer, in both  *)
(* modes and moved to a thread or not, and the link to its device, for any *)
(* devices.                                                                *)
(***************************************************************************)
EXTENDS IambicKeyer, KeyerLink, SequenceTheorems, TLAPS

-----------------------------------------------------------------------------
(***************************************************************************)
(* The software keyer (IambicKeyer).                                       *)
(***************************************************************************)

\* The key and the timers belong to the state
StateIsTimed ==
  /\ key = "down" <=> state = "tone"
  /\ state = "idle" => timers = {}
  /\ state = "tone" => timers = Started("element")
  /\ state = "space" => timers = Started("space")

\* Nothing is left over in Idle
IdleIsClean == state = "idle" => held = {} /\ latched = {} /\ atTone = {}

\* An element sent after the paddles were let go leaves nothing to send
ExtraIsLast ==
  extra # 0 => extra = 1 /\ held = {} /\ latched = {} /\ atTone = {}

\* Latches stem from presses since the element began
LatchedIsFresh ==
  /\ latched \subseteq fresh
  /\ state = "tone" => held \ atTone \subseteq fresh
  /\ state = "space" => held \ atSpace \subseteq fresh

OwedIsLatched == owed \subseteq latched \cap {Other(last)}

IInv == /\ TypeOK /\ StateIsTimed /\ IdleIsClean /\ ExtraIsLast
        /\ LatchedIsFresh /\ OwedIsLatched

-----------------------------------------------------------------------------
(* What starting an element establishes, whichever slot does it.            *)
LEMMA BegunElement ==
  ASSUME TypeOK, NEW p \in Paddles, NEW cur \in SUBSET Paddles,
         StartTone(p, cur), held' = cur, moved' = moved
  PROVE  /\ state' = "tone" /\ latched' \in SUBSET Paddles
         /\ atTone' \in SUBSET Paddles /\ last' \in Paddles
         /\ timers' \in {{}, {"element"}, {"space"}} /\ key' \in {"up", "down"}
         /\ fresh' \in SUBSET Paddles /\ owed' \in SUBSET Paddles
         /\ StateIsTimed' /\ IdleIsClean' /\ LatchedIsFresh' /\ OwedIsLatched'
  BY DEF TypeOK, StartTone, Started, StateIsTimed, IdleIsClean, LatchedIsFresh,
         OwedIsLatched

(* What stop() and going idle establish.                                    *)
LEMMA Rested ==
  ASSUME TypeOK, Reset, held' = {}
  PROVE  /\ state' = "idle" /\ latched' = {} /\ atTone' = {} /\ atSpace' = {}
         /\ timers' = {} /\ key' = "up" /\ fresh' = {} /\ owed' = {}
         /\ StateIsTimed' /\ IdleIsClean' /\ LatchedIsFresh' /\ OwedIsLatched'
  BY DEF Reset, StateIsTimed, IdleIsClean, LatchedIsFresh, OwedIsLatched

(* The element after a space, if there is one, is one paddle's.             *)
LEMMA NextIsPaddle ==
  ASSUME TypeOK
  PROVE  NextTone \subseteq Paddles
  BY DEF TypeOK, NextTone, Paddles, Other

-----------------------------------------------------------------------------
(* One lemma for each kind of step.                                         *)

LEMMA InitIInv == Init => IInv
  BY DEF Init, IInv, TypeOK, StateIsTimed, IdleIsClean, ExtraIsLast,
         LatchedIsFresh, OwedIsLatched, Paddles, Started

LEMMA PaddleIInv ==
  ASSUME IInv, NEW cur \in SUBSET Paddles, UpdatePaddleState(cur)
  PROVE  IInv'
<1>1. TypeOK
  BY DEF IInv
<1>2. held' = cur /\ extra' = 0 /\ modeB' = modeB /\ moved' = moved
  BY DEF UpdatePaddleState
<1>3. ExtraIsLast'
  BY <1>2 DEF ExtraIsLast
<1>4. FirstTone(cur) \in Paddles
  BY DEF FirstTone, Paddles
<1>5. CASE BeginSending(cur)
  <2>1. StartTone(FirstTone(cur), cur) /\ atSpace' = atSpace
    BY <1>5 DEF BeginSending
  <2> QED
    BY <1>1, <1>2, <1>3, <1>4, <2>1, BegunElement DEF IInv, TypeOK
<1>6. CASE PressDuringTone(cur)
  <2>1. TypeOK'
    BY <1>1, <1>2, <1>6 DEF TypeOK, PressDuringTone, Paddles
  <2>2. StateIsTimed' /\ IdleIsClean'
    BY <1>2, <1>6 DEF IInv, StateIsTimed, IdleIsClean, PressDuringTone, Started
  <2>3. LatchedIsFresh'
    BY <1>2, <1>6 DEF IInv, LatchedIsFresh, PressDuringTone
  <2>4. OwedIsLatched'
    BY <1>2, <1>6 DEF IInv, OwedIsLatched, PressDuringTone
  <2> QED
    BY <1>3, <2>1, <2>2, <2>3, <2>4 DEF IInv
<1>7. CASE PressDuringSpace(cur)
  <2>1. TypeOK'
    BY <1>1, <1>2, <1>7 DEF TypeOK, PressDuringSpace, Paddles
  <2>2. StateIsTimed' /\ IdleIsClean'
    BY <1>2, <1>7 DEF IInv, StateIsTimed, IdleIsClean, PressDuringSpace, Started
  <2>3. LatchedIsFresh'
    BY <1>2, <1>7 DEF IInv, LatchedIsFresh, PressDuringSpace
  <2>4. OwedIsLatched'
    BY <1>2, <1>7 DEF IInv, OwedIsLatched, PressDuringSpace
  <2> QED
    BY <1>3, <2>1, <2>2, <2>3, <2>4 DEF IInv
<1>8. CASE ResetStuck(cur)
  <2>1. CASE cur = {} /\ Reset /\ UNCHANGED last
    BY <1>1, <1>2, <1>3, <2>1, Rested DEF IInv, TypeOK
  <2>2. CASE cur # {} /\ StartTone(FirstTone(cur), cur) /\ atSpace' = {}
    BY <1>1, <1>2, <1>3, <1>4, <2>2, BegunElement DEF IInv, TypeOK
  <2> QED
    BY <1>8, <2>1, <2>2 DEF ResetStuck
<1> QED
  BY <1>5, <1>6, <1>7, <1>8 DEF UpdatePaddleState

LEMMA ElementIInv ==
  ASSUME IInv, OnElementTimerExpired
  PROVE  IInv'
<1>1. state = "tone"
  BY DEF IInv, TypeOK, StateIsTimed, OnElementTimerExpired, Started
<1>2. TypeOK'
  BY DEF IInv, TypeOK, OnElementTimerExpired, Started, history
<1>3. StateIsTimed' /\ IdleIsClean'
  BY DEF StateIsTimed, IdleIsClean, OnElementTimerExpired, Started
<1>4. ExtraIsLast' /\ OwedIsLatched'
  BY DEF IInv, ExtraIsLast, OwedIsLatched, OnElementTimerExpired, history
<1>5. LatchedIsFresh'
  BY DEF IInv, LatchedIsFresh, OnElementTimerExpired, history
<1> QED
  BY <1>2, <1>3, <1>4, <1>5 DEF IInv

LEMMA SpaceIInv ==
  ASSUME IInv, OnSpaceTimerExpired
  PROVE  IInv'
<1>1. TypeOK /\ held' = held /\ modeB' = modeB /\ moved' = moved
  BY DEF IInv, OnSpaceTimerExpired
<1>2. CASE NextTone = {}
  <2>1. Reset /\ last' = last /\ extra' = extra
    BY <1>2 DEF OnSpaceTimerExpired
  <2>2. held = {}
    BY <1>1, <1>2 DEF NextTone, TypeOK, Paddles, Other
  <2> QED
    BY <1>1, <2>1, <2>2, Rested DEF IInv, TypeOK, ExtraIsLast
<1>3. CASE NextTone # {}
  <2>1. PICK p \in NextTone : StartTone(p, held)
    BY <1>3 DEF OnSpaceTimerExpired
  <2>2. p \in Paddles /\ held \in SUBSET Paddles
    BY <1>1, NextIsPaddle DEF TypeOK
  <2>3. atSpace' = atSpace /\ extra' = IF held = {} THEN extra + 1 ELSE 0
    BY <1>3 DEF OnSpaceTimerExpired
  <2>4. latched' = {} /\ atTone' = held
    BY <2>1 DEF StartTone
  <2>5. held = {} => extra = 0
    BY <1>1, <1>3 DEF IInv, ExtraIsLast, NextTone, TypeOK
  <2>6. ExtraIsLast' /\ extra' \in Nat
    BY <1>1, <2>3, <2>4, <2>5 DEF ExtraIsLast
  <2> QED
    BY <1>1, <2>1, <2>2, <2>3, <2>6, BegunElement DEF IInv, TypeOK
<1> QED
  BY <1>2, <1>3

(* The inductive invariant holds throughout.                                *)
THEOREM KeyerInvariance == Spec => []IInv
<1>1. Init => IInv
  BY InitIInv
<1>2. IInv /\ [Next]_vars => IInv'
  <2> SUFFICES ASSUME IInv, [Next]_vars
               PROVE  IInv'
    OBVIOUS
  <2>1. CASE Next
    BY <2>1, PaddleIInv, ElementIInv, SpaceIInv DEF Next
  <2>2. CASE UNCHANGED vars
    BY <2>2 DEF vars, Started, IInv, TypeOK, StateIsTimed, IdleIsClean, ExtraIsLast,
                LatchedIsFresh, OwedIsLatched
  <2> QED
    BY <2>1, <2>2
<1> QED
  BY <1>1, <1>2, PTL DEF Spec

(* The variables of IambicKeyer keep their types, and at most one of its    *)
(* two timers runs.                                                         *)
THEOREM KeyerTypes == Spec => []TypeOK
<1>1. IInv => TypeOK
  BY DEF IInv
<1> QED
  BY <1>1, KeyerInvariance, PTL

(* The keyer never idles under a held paddle.                               *)
THEOREM HeldPaddlesAreSent == Spec => []HeldIsSent
<1>1. IInv => HeldIsSent
  BY DEF IInv, IdleIsClean, HeldIsSent
<1> QED
  BY <1>1, KeyerInvariance, PTL

(* Letting go of both paddles is followed by one more element at most.      *)
THEOREM StopsAfterOne == Spec => []OneMoreAtMost
<1>1. IInv => OneMoreAtMost
  BY DEF IInv, ExtraIsLast, OneMoreAtMost
<1> QED
  BY <1>1, KeyerInvariance, PTL

(* No element is sent that was not asked for.                               *)
THEOREM SendsWhatIsAsked == Spec => SentIsAsked
<1> DEFINE Asked == OnSpaceTimerExpired /\ state' = "tone" /\ held = {} =>
                      last' \in fresh \/ (modeB /\ last' \in atTone)
<1>1. IInv /\ [Next]_vars => [Asked]_vars
  <2> SUFFICES ASSUME IInv, OnSpaceTimerExpired, state' = "tone", held = {}
               PROVE  last' \in fresh \/ (modeB /\ last' \in atTone)
    OBVIOUS
  <2>1. NextTone # {}
    BY DEF OnSpaceTimerExpired, Reset
  <2>2. PICK p \in NextTone : StartTone(p, held)
    BY <2>1 DEF OnSpaceTimerExpired
  <2>3. last' = p
    BY <2>2 DEF StartTone
  <2>4. p \in latched \/ (modeB /\ p \in atTone)
    BY <2>2 DEF NextTone
  <2> QED
    BY <2>3, <2>4 DEF IInv, LatchedIsFresh
<1> QED
  BY <1>1, KeyerInvariance, PTL DEF Spec, SentIsAsked

(* The opposite paddle pressed during a tone is the next element.           *)
THEOREM AlternatesAsAsked == Spec => OppositeIsNext
<1> DEFINE Kept == OnSpaceTimerExpired =>
                     owed \subseteq (IF state' = "tone" THEN {last'} ELSE {})
<1>1. IInv /\ [Next]_vars => [Kept]_vars
  <2> SUFFICES ASSUME IInv, OnSpaceTimerExpired
               PROVE  owed \subseteq (IF state' = "tone" THEN {last'} ELSE {})
    OBVIOUS
  <2> SUFFICES ASSUME NEW q \in owed
               PROVE  state' = "tone" /\ q = last'
    OBVIOUS
  <2>1. q = Other(last) /\ q \in latched
    BY DEF IInv, OwedIsLatched
  <2>2. NextTone = {q}
    BY <2>1 DEF NextTone
  <2>3. StartTone(q, held)
    BY <2>2 DEF OnSpaceTimerExpired
  <2> QED
    BY <2>3 DEF StartTone
<1> QED
  BY <1>1, KeyerInvariance, PTL DEF Spec, OppositeIsNext

-----------------------------------------------------------------------------
(***************************************************************************)
(* The link to the keyer device (KeyerLink).  The inbox is read as what it *)
(* will have said when it is empty (SaidUp): a replaced device may still   *)
(* have signals in it, and the last of them must agree with the device that*)
(* is there now.  Phases says which device the worker can be busy with     *)
(* while the main thread waits for a close().                              *)
(***************************************************************************)

Signals == {"connected", "disconnected", "retry"}

Has(q, s) == \E i \in DOMAIN q : q[i] = s

\* The word on the connection once the signals of q are delivered, if it is
\* c before
Up(c, q) ==
  \/ c /\ \A i \in DOMAIN q : q[i] = "retry"
  \/ \E i \in DOMAIN q :
       q[i] = "connected" /\ \A j \in DOMAIN q : j > i => q[j] = "retry"

SaidUp == Up(connected, inbox)

\* Before the first connectKeyer nothing has happened
Untouched ==
  worker = None =>
    /\ device = None /\ main = "free" /\ opening = "no"
    /\ ~timer /\ ~isOpen /\ ~closing /\ inbox = <<>>

ConfigKept == worker # None => config # None

\* The main thread is free, waits for close(), or is about to go on
Phases ==
  /\ closing => main # "free"
  /\ main # "free" => device = None
  /\ (device = None /\ ~closing) => (opening = "no" /\ ~isOpen)
  /\ opening \in {"connect", "reconnect"} => ~isOpen
  /\ opening # "no" /\ ~closing => device = worker
  /\ isOpen /\ ~closing => device = worker
  /\ isOpen /\ ~closing /\ opening = "no" => caps = worker

Truthful ==
  /\ SaidUp => isOpen
  /\ isOpen /\ ~closing => SaidUp

\* Something that will start another attempt is under way after a loss
Tried ==
  lost \in WinKeyers =>
          /\ \/ timer \/ Has(inbox, "retry") \/ Has(inbox, "disconnected")
             \/ opening = "reconnect" \/ main = "reconnect"
          /\ opening \in {"no", "reconnect"}
          /\ main \in {"free", "reconnect"}
          /\ ~userDown

Wanted == (device # None \/ main \in {"connect", "reconnect"}) => ~userDown

LinkIInv == LinkTypeOK /\ Untouched /\ ConfigKept /\ Phases /\ Truthful /\ Tried /\ Wanted

-----------------------------------------------------------------------------
(* Signals posted and delivered                                             *)

(* A posted signal is the last word, unless it only asks for a retry.       *)
LEMMA UpPosted ==
  ASSUME NEW c \in BOOLEAN, NEW q \in Seq(Signals), NEW s \in Signals
  PROVE  Up(c, Append(q, s)) <=> (s = "connected" \/ (s = "retry" /\ Up(c, q)))
<1> DEFINE r == Append(q, s)
<1>1. /\ Len(q) \in Nat /\ DOMAIN q = 1..Len(q) /\ DOMAIN r = 1..(Len(q) + 1)
      /\ \A i \in 1..Len(q) : r[i] = q[i]
      /\ r[Len(q) + 1] = s
  OBVIOUS
<1> HIDE DEF r
<1>2. CASE s = "connected"
  <2>1. Len(q) + 1 \in DOMAIN r /\ \A j \in DOMAIN r : j > Len(q) + 1 => r[j] = "retry"
    BY <1>1
  <2> QED BY <2>1, <1>1, <1>2 DEF Up, r
<1>3. CASE s = "disconnected"
  <2>1. Len(q) + 1 \in DOMAIN r /\ r[Len(q) + 1] = "disconnected"
    BY <1>1, <1>3
  <2>2. \A i \in DOMAIN r : r[i] = "connected" => Len(q) + 1 > i
    BY <1>1, <1>3
  <2>3. ~Up(c, r)
    BY <2>1, <2>2 DEF Up
  <2> QED BY <2>3, <1>3 DEF r
<1>4. CASE s = "retry"
  <2>1. (\A i \in DOMAIN r : r[i] = "retry") <=> \A i \in DOMAIN q : q[i] = "retry"
    BY <1>1, <1>4
  <2>2. (\E i \in DOMAIN r : r[i] = "connected" /\ \A j \in DOMAIN r : j > i => r[j] = "retry")
          => \E i \in DOMAIN q : q[i] = "connected" /\ \A j \in DOMAIN q : j > i => q[j] = "retry"
    <3> SUFFICES ASSUME NEW i \in DOMAIN r, r[i] = "connected",
                        \A j \in DOMAIN r : j > i => r[j] = "retry"
                 PROVE  \E k \in DOMAIN q : q[k] = "connected" /\ \A j \in DOMAIN q : j > k => q[j] = "retry"
      OBVIOUS
    <3>1. i \in DOMAIN q /\ q[i] = "connected"
      BY <1>1, <1>4
    <3> QED BY <3>1, <1>1
  <2>3. (\E i \in DOMAIN q : q[i] = "connected" /\ \A j \in DOMAIN q : j > i => q[j] = "retry")
          => \E i \in DOMAIN r : r[i] = "connected" /\ \A j \in DOMAIN r : j > i => r[j] = "retry"
    BY <1>1, <1>4
  <2> QED BY <2>1, <2>2, <2>3, <1>4 DEF Up, r
<1> QED BY <1>2, <1>3, <1>4 DEF Signals

(* Delivering a signal does not change the last word.                       *)
LEMMA UpDelivered ==
  ASSUME NEW c \in BOOLEAN, NEW q \in Seq(Signals), q # <<>>
  PROVE  Up(IF Head(q) = "retry" THEN c ELSE Head(q) = "connected", Tail(q)) <=> Up(c, q)
<1> DEFINE r == Tail(q)
           d == IF Head(q) = "retry" THEN c ELSE Head(q) = "connected"
<1>1. /\ Len(q) \in Nat \ {0} /\ DOMAIN q = 1..Len(q) /\ DOMAIN r = 1..(Len(q) - 1)
      /\ \A i \in 1..(Len(q) - 1) : r[i] = q[i + 1]
      /\ Head(q) = q[1] /\ q[1] \in Signals
  BY EmptySeq
<1>2. \A i \in 2..Len(q) : i - 1 \in DOMAIN r /\ r[i - 1] = q[i]
  BY <1>1
<1>3. \A i \in DOMAIN r : i + 1 \in 2..Len(q) /\ q[i + 1] = r[i]
  BY <1>1
<1> HIDE DEF r, d
<1>4. ASSUME NEW i \in 2..Len(q)
      PROVE  (\A j \in DOMAIN q : j > i => q[j] = "retry") <=> \A j \in DOMAIN r : j > i - 1 => r[j] = "retry"
  <2>1. ASSUME \A j \in DOMAIN q : j > i => q[j] = "retry", NEW j \in DOMAIN r, j > i - 1
        PROVE  r[j] = "retry"
    BY <2>1, <1>3, <1>1
  <2>2. ASSUME \A j \in DOMAIN r : j > i - 1 => r[j] = "retry", NEW j \in DOMAIN q, j > i
        PROVE  q[j] = "retry"
    BY <2>2, <1>2, <1>1
  <2> QED BY <2>1, <2>2
<1>5. (\A i \in DOMAIN r : r[i] = "retry") <=> \A i \in DOMAIN q : i > 1 => q[i] = "retry"
  <2>1. ASSUME \A i \in DOMAIN r : r[i] = "retry", NEW i \in DOMAIN q, i > 1
        PROVE  q[i] = "retry"
    BY <2>1, <1>2, <1>1
  <2>2. ASSUME \A i \in DOMAIN q : i > 1 => q[i] = "retry", NEW i \in DOMAIN r
        PROVE  r[i] = "retry"
    BY <2>2, <1>3, <1>1
  <2> QED BY <2>1, <2>2
<1>6. ASSUME Up(d, r) PROVE Up(c, q)
  <2>1. CASE d /\ \A i \in DOMAIN r : r[i] = "retry"
    <3>1. \A i \in DOMAIN q : i > 1 => q[i] = "retry"
      BY <2>1, <1>5
    <3>2. 1 \in DOMAIN q /\ \A i \in DOMAIN q : i = 1 \/ i > 1
      BY <1>1
    <3> QED BY <2>1, <3>1, <3>2, <1>1 DEF Up, d
  <2>2. ASSUME NEW i \in DOMAIN r, r[i] = "connected", \A j \in DOMAIN r : j > i => r[j] = "retry"
        PROVE  Up(c, q)
    <3>1. i + 1 \in 2..Len(q) /\ q[i + 1] = "connected" /\ (i + 1) - 1 = i
      BY <1>3, <1>1, <2>2
    <3>2. \A j \in DOMAIN q : j > i + 1 => q[j] = "retry"
      BY <3>1, <1>4, <2>2
    <3> QED BY <3>1, <3>2, <1>1 DEF Up
  <2> QED BY <1>6, <2>1, <2>2 DEF Up
<1>7. ASSUME Up(c, q) PROVE Up(d, r)
  <2>1. CASE c /\ \A i \in DOMAIN q : q[i] = "retry"
    BY <2>1, <1>5, <1>1 DEF Up, d
  <2>2. ASSUME NEW i \in DOMAIN q, q[i] = "connected", \A j \in DOMAIN q : j > i => q[j] = "retry"
        PROVE  Up(d, r)
    <3>1. CASE i = 1
      BY <3>1, <2>2, <1>5, <1>1 DEF Up, d
    <3>2. CASE i \in 2..Len(q)
      BY <3>2, <2>2, <1>2, <1>4 DEF Up
    <3> QED BY <3>1, <3>2, <1>1
  <2> QED BY <1>7, <2>1, <2>2 DEF Up
<1> QED BY <1>6, <1>7 DEF r, d

(* A posted signal is there; the others stay.                               *)
LEMMA HasPosted ==
  ASSUME NEW q \in Seq(Signals), NEW s \in Signals, NEW t
  PROVE  Has(Append(q, s), t) <=> (s = t \/ Has(q, t))
<1>1. /\ Len(q) \in Nat /\ DOMAIN q = 1..Len(q)
      /\ DOMAIN Append(q, s) = 1..(Len(q) + 1)
      /\ \A i \in 1..Len(q) : Append(q, s)[i] = q[i]
      /\ Append(q, s)[Len(q) + 1] = s
  OBVIOUS
<1> QED BY <1>1 DEF Has

(* Delivery takes the first signal only.                                    *)
LEMMA HasDelivered ==
  ASSUME NEW q \in Seq(Signals), q # <<>>, NEW t
  PROVE  Has(q, t) => Head(q) = t \/ Has(Tail(q), t)
<1>1. /\ Len(q) \in Nat \ {0} /\ DOMAIN q = 1..Len(q)
      /\ DOMAIN Tail(q) = 1..(Len(q) - 1)
      /\ \A i \in 1..(Len(q) - 1) : Tail(q)[i] = q[i + 1]
      /\ Head(q) = q[1]
  BY EmptySeq
<1>2. \A i \in 2..Len(q) : i - 1 \in DOMAIN Tail(q) /\ Tail(q)[i - 1] = q[i]
  BY <1>1
<1> SUFFICES ASSUME NEW i \in DOMAIN q, q[i] = t
             PROVE  Head(q) = t \/ Has(Tail(q), t)
  BY DEF Has
<1>3. CASE i = 1
  BY <1>3, <1>1
<1>4. CASE i \in 2..Len(q)
  BY <1>4, <1>2 DEF Has
<1> QED BY <1>1, <1>3, <1>4

(* cleanupDevice clears m_connected: only what is posted counts from then.  *)
LEMMA UpCleared ==
  ASSUME NEW c \in BOOLEAN, NEW q
  PROVE  /\ Up(FALSE, q) => Up(c, q)
         /\ q = <<>> => (Up(c, q) <=> c)
BY DEF Up

-----------------------------------------------------------------------------
(* The invariant                                                            *)

LEMMA IInvInit == LinkInit => LinkIInv
<1> SUFFICES ASSUME LinkInit PROVE LinkIInv
  OBVIOUS
<1>0. inbox \in Seq({"connected", "disconnected", "retry"})
  BY DEF LinkInit
<1>1. LinkTypeOK
  BY <1>0 DEF LinkInit, LinkTypeOK
<1>2. ~SaidUp
  BY UpCleared DEF LinkInit, SaidUp
<1> QED BY <1>1, <1>2, DevicesAssumption
        DEF Devices, LinkInit, LinkIInv, Untouched, ConfigKept, Phases, Truthful, Tried, Wanted

(* connectKeyer                                                             *)
LEMMA ConnectStep ==
  ASSUME LinkIInv, NEW d \in Devices, ConnectKeyer(d) PROVE LinkIInv'
<1> USE DevicesAssumption
<1>0. /\ d # None /\ main = "free" /\ ~closing /\ timer' = FALSE /\ userDown' = FALSE /\ lost' = None /\ config' = d
      /\ inbox' = inbox
  BY DEF ConnectKeyer, Ready, LinkIInv, Phases, LinkTypeOK, Cleanup, NewDevice, Devices
<1>1. CASE device # None
  <2>1. Cleanup("connect")
    BY <1>1 DEF ConnectKeyer
  <2>2. LinkTypeOK'
    BY <2>1, <1>0 DEF LinkIInv, LinkTypeOK, Cleanup
  <2>3. Truthful'
    BY <2>1, <1>0, UpCleared DEF LinkIInv, LinkTypeOK, Truthful, SaidUp, Cleanup
  <2>4. Untouched' /\ ConfigKept' /\ Phases' /\ Tried' /\ Wanted'
    BY <2>1, <1>0, <1>1 DEF Devices, LinkIInv, Untouched, ConfigKept, Phases, Tried, Wanted, Cleanup
  <2> QED BY <2>2, <2>3, <2>4 DEF LinkIInv
<1>2. CASE device = None
  <2>1. NewDevice(d, "connect")
    BY <1>2 DEF ConnectKeyer
  <2>2. LinkTypeOK'
    BY <2>1, <1>0 DEF LinkIInv, LinkTypeOK, NewDevice
  <2>3. Truthful'
    BY <2>1, <1>0, <1>2 DEF LinkIInv, Truthful, Phases, SaidUp, NewDevice
  <2>4. Untouched' /\ ConfigKept' /\ Phases' /\ Tried' /\ Wanted'
    BY <2>1, <1>0, <1>2 DEF Devices, LinkIInv, Untouched, ConfigKept, Phases, Tried, Wanted, NewDevice
  <2> QED BY <2>2, <2>3, <2>4 DEF LinkIInv
<1> QED BY <1>1, <1>2

(* disconnectKeyer                                                          *)
LEMMA DisconnectStep == ASSUME LinkIInv, DisconnectKeyer PROVE LinkIInv'
<1> USE DevicesAssumption
<1>0. /\ main = "free" /\ ~closing /\ timer' = FALSE /\ userDown' = TRUE /\ lost' = None /\ config' = config
      /\ inbox' = inbox
  BY DEF DisconnectKeyer, Ready, LinkIInv, Phases, LinkTypeOK, Cleanup
<1>1. CASE device # None
  <2>1. Cleanup("disconnect")
    BY <1>1 DEF DisconnectKeyer
  <2>2. LinkTypeOK'
    BY <2>1, <1>0 DEF LinkIInv, LinkTypeOK, Cleanup
  <2>3. Truthful'
    BY <2>1, <1>0, UpCleared DEF LinkIInv, LinkTypeOK, Truthful, SaidUp, Cleanup
  <2>4. Untouched' /\ ConfigKept' /\ Phases' /\ Tried' /\ Wanted'
    BY <2>1, <1>0, <1>1 DEF Devices, LinkIInv, Untouched, ConfigKept, Phases, Tried, Wanted, Cleanup
  <2> QED BY <2>2, <2>3, <2>4 DEF LinkIInv
<1>2. CASE device = None
  <2>1. UNCHANGED <<device, worker, opening, isOpen, closing, main, connected, caps, inbox>>
    BY <1>2 DEF DisconnectKeyer
  <2>2. LinkTypeOK'
    BY <2>1, <1>0 DEF LinkIInv, LinkTypeOK
  <2>3. Truthful'
    BY <2>1 DEF LinkIInv, Truthful, SaidUp
  <2>4. Untouched' /\ ConfigKept' /\ Phases' /\ Tried' /\ Wanted'
    BY <2>1, <1>0, <1>2 DEF Devices, LinkIInv, Untouched, ConfigKept, Phases, Tried, Wanted
  <2> QED BY <2>2, <2>3, <2>4 DEF LinkIInv
<1> QED BY <1>1, <1>2

(* attemptReconnect                                                         *)
LEMMA ReconnectStep == ASSUME LinkIInv, AttemptReconnect PROVE LinkIInv'
<1> USE DevicesAssumption
<1>0. /\ main = "free" /\ ~closing /\ timer' = FALSE /\ userDown' = FALSE /\ lost' = lost /\ config' = config
      /\ config \in Devices /\ config # None /\ inbox' = inbox
  BY DEF AttemptReconnect, Ready, LinkIInv, Phases, LinkTypeOK, Cleanup, NewDevice, Untouched, ConfigKept
<1>1. CASE device # None
  <2>1. Cleanup("reconnect")
    BY <1>1 DEF AttemptReconnect
  <2>2. LinkTypeOK'
    BY <2>1, <1>0 DEF LinkIInv, LinkTypeOK, Cleanup
  <2>3. Truthful'
    BY <2>1, <1>0, UpCleared DEF LinkIInv, LinkTypeOK, Truthful, SaidUp, Cleanup
  <2>4. Untouched' /\ ConfigKept' /\ Phases' /\ Tried' /\ Wanted'
    BY <2>1, <1>0, <1>1 DEF LinkIInv, Untouched, ConfigKept, Phases, Tried, Wanted, Cleanup
  <2> QED BY <2>2, <2>3, <2>4 DEF LinkIInv
<1>2. CASE device = None
  <2>1. NewDevice(config, "reconnect")
    BY <1>2 DEF AttemptReconnect
  <2>2. LinkTypeOK'
    BY <2>1, <1>0 DEF LinkIInv, LinkTypeOK, NewDevice
  <2>3. Truthful'
    BY <2>1, <1>0, <1>2 DEF LinkIInv, Truthful, Phases, SaidUp, NewDevice
  <2>4. Untouched' /\ ConfigKept' /\ Phases' /\ Tried' /\ Wanted'
    BY <2>1, <1>0, <1>2 DEF LinkIInv, Untouched, ConfigKept, Phases, Tried, Wanted, NewDevice
  <2> QED BY <2>2, <2>3, <2>4 DEF LinkIInv
<1> QED BY <1>1, <1>2

(* cleanupDevice's close() returns and the caller goes on                   *)
LEMMA ResumeStep == ASSUME LinkIInv, Resume PROVE LinkIInv'
<1> USE DevicesAssumption
<1>0. /\ main # "free" /\ ~closing /\ device = None /\ opening = "no" /\ ~isOpen
      /\ config' = config /\ timer' = timer /\ userDown' = userDown /\ lost' = lost
      /\ config \in Devices /\ config # None /\ inbox' = inbox
  BY DEF Resume, LinkIInv, Phases, LinkTypeOK, NewDevice, Untouched, ConfigKept, flags
<1>1. CASE main = "disconnect"
  <2>1. main' = "free" /\ UNCHANGED <<device, worker, opening, isOpen, closing, connected, caps, inbox>>
    BY <1>1 DEF Resume
  <2>2. LinkTypeOK'
    BY <2>1, <1>0 DEF LinkIInv, LinkTypeOK
  <2>3. Truthful'
    BY <2>1 DEF LinkIInv, Truthful, SaidUp
  <2>4. Untouched' /\ ConfigKept' /\ Phases' /\ Tried' /\ Wanted'
    BY <2>1, <1>0, <1>1 DEF LinkIInv, Untouched, ConfigKept, Phases, Tried, Wanted
  <2> QED BY <2>2, <2>3, <2>4 DEF LinkIInv
<1>2. CASE main \in {"connect", "reconnect"}
  <2>1. NewDevice(config, main)
    BY <1>2 DEF Resume
  <2>2. LinkTypeOK'
    BY <2>1, <1>0, <1>2 DEF LinkIInv, LinkTypeOK, NewDevice
  <2>3. Truthful'
    BY <2>1, <1>0 DEF LinkIInv, Truthful, SaidUp, NewDevice
  <2>4. Untouched' /\ ConfigKept' /\ Phases' /\ Tried' /\ Wanted'
    BY <2>1, <1>0, <1>2 DEF LinkIInv, Untouched, ConfigKept, Phases, Tried, Wanted, NewDevice
  <2> QED BY <2>2, <2>3, <2>4 DEF LinkIInv
<1> QED BY <1>0, <1>1, <1>2 DEF LinkIInv, LinkTypeOK

(* The signals of the device and the posted restart of the timer            *)
LEMMA DeliverStep == ASSUME LinkIInv, Deliver PROVE LinkIInv'
<1> USE DevicesAssumption
<1>0. /\ inbox \in Seq(Signals) /\ inbox # <<>> /\ inbox' = Tail(inbox)
      /\ Head(inbox) \in Signals /\ connected \in BOOLEAN
      /\ inbox' \in Seq(Signals)
  BY DEF LinkIInv, LinkTypeOK, Deliver, Signals
<1>1. LinkTypeOK'
  BY <1>0 DEF LinkIInv, LinkTypeOK, Deliver, Signals
<1>2. SaidUp' <=> SaidUp
  BY <1>0, UpDelivered DEF Deliver, SaidUp
<1>3. Truthful'
  BY <1>2 DEF LinkIInv, Truthful, Deliver
<1>4. Tried'
  <2>1. \A t : Has(inbox, t) => Head(inbox) = t \/ Has(inbox', t)
    BY <1>0, HasDelivered
  <2> QED BY <2>1 DEF LinkIInv, Tried, Deliver
<1>5. Untouched' /\ ConfigKept' /\ Phases' /\ Wanted'
  BY <1>0 DEF LinkIInv, Untouched, ConfigKept, Phases, Wanted, Deliver
<1> QED BY <1>1, <1>3, <1>4, <1>5 DEF LinkIInv

(* What a posted signal does to the invariant's reading of the inbox        *)
LEMMA Posted ==
  ASSUME LinkTypeOK, NEW s \in Signals, Post(s), connected' = connected
  PROVE  /\ inbox' \in Seq(Signals)
         /\ SaidUp' <=> (s = "connected" \/ (s = "retry" /\ SaidUp))
         /\ \A t : Has(inbox', t) <=> (s = t \/ Has(inbox, t))
<1>1. inbox \in Seq(Signals) /\ connected \in BOOLEAN /\ inbox' = Append(inbox, s)
  BY DEF LinkTypeOK, Signals, Post
<1> QED BY <1>1, UpPosted, HasPosted DEF SaidUp

(* open() returns TRUE                                                      *)
LEMMA OpenStep == ASSUME LinkIInv, OpenSucceeds PROVE LinkIInv'
<1> USE DevicesAssumption
<1>1. /\ inbox' \in Seq(Signals) /\ SaidUp'
  BY Posted DEF OpenSucceeds, Signals, LinkIInv
<1>2. LinkTypeOK'
  BY <1>1 DEF LinkIInv, LinkTypeOK, OpenSucceeds, flags, Signals, Untouched
<1>3. Untouched' /\ ConfigKept' /\ Phases' /\ Truthful' /\ Tried' /\ Wanted'
  BY <1>1 DEF Devices, LinkIInv, Untouched, ConfigKept, Phases, Truthful, Tried, Wanted, OpenSucceeds, flags
<1> QED BY <1>2, <1>3 DEF LinkIInv

(* The lambda reads the capabilities                                        *)
LEMMA ReadCapsStep == ASSUME LinkIInv, ReadCaps PROVE LinkIInv'
<1> USE DevicesAssumption
<1>1. LinkTypeOK'
  BY DEF LinkIInv, LinkTypeOK, ReadCaps, flags
<1>2. Truthful'
  BY DEF LinkIInv, Truthful, SaidUp, ReadCaps
<1>3. Untouched' /\ ConfigKept' /\ Phases' /\ Tried' /\ Wanted'
  BY DEF LinkIInv, Untouched, ConfigKept, Phases, Tried, Wanted, ReadCaps, flags
<1> QED BY <1>1, <1>2, <1>3 DEF LinkIInv

(* open() returns FALSE                                                     *)
LEMMA FailStep == ASSUME LinkIInv, OpenFails PROVE LinkIInv'
<1> USE DevicesAssumption
<1>1. CASE opening = "reconnect"
  <2>1. /\ inbox' \in Seq(Signals) /\ (SaidUp' <=> SaidUp) /\ Has(inbox', "retry")
    BY <1>1, Posted DEF OpenFails, Signals, LinkIInv
  <2>2. LinkTypeOK'
    BY <2>1 DEF LinkIInv, LinkTypeOK, OpenFails, flags, Signals
  <2>3. Untouched' /\ ConfigKept' /\ Phases' /\ Truthful' /\ Tried' /\ Wanted'
    BY <2>1 DEF LinkIInv, Untouched, ConfigKept, Phases, Truthful, Tried, Wanted, OpenFails, flags
  <2> QED BY <2>2, <2>3 DEF LinkIInv
<1>2. CASE opening = "connect"
  <2>1. inbox' = inbox
    BY <1>2 DEF OpenFails
  <2>2. LinkTypeOK'
    BY <2>1 DEF LinkIInv, LinkTypeOK, OpenFails, flags
  <2>3. Truthful'
    BY <2>1 DEF LinkIInv, Truthful, SaidUp, OpenFails
  <2>4. Untouched' /\ ConfigKept' /\ Phases' /\ Tried' /\ Wanted'
    BY <2>1, <1>2 DEF LinkIInv, Untouched, ConfigKept, Phases, Tried, Wanted, OpenFails, flags
  <2> QED BY <2>2, <2>3, <2>4 DEF LinkIInv
<1> QED BY <1>1, <1>2 DEF OpenFails

(* close()                                                                  *)
LEMMA CloseStep == ASSUME LinkIInv, Close PROVE LinkIInv'
<1> USE DevicesAssumption
<1>1. CASE isOpen \/ worker \in WinKeyers
  <2>1. /\ inbox' \in Seq(Signals) /\ ~SaidUp'
        /\ \A t : Has(inbox, t) => Has(inbox', t)
    BY <1>1, Posted DEF Close, Signals, LinkIInv
  <2>2. LinkTypeOK'
    BY <2>1 DEF LinkIInv, LinkTypeOK, Close, flags, Signals
  <2>3. Untouched' /\ ConfigKept' /\ Phases' /\ Truthful' /\ Tried' /\ Wanted'
    BY <2>1 DEF LinkIInv, Untouched, ConfigKept, Phases, Truthful, Tried, Wanted, Close, flags
  <2> QED BY <2>2, <2>3 DEF LinkIInv
<1>2. CASE ~isOpen /\ worker \notin WinKeyers
  <2>1. inbox' = inbox
    BY <1>2 DEF Close
  <2>2. LinkTypeOK'
    BY <2>1 DEF LinkIInv, LinkTypeOK, Close, flags
  <2>3. Truthful'
    BY <2>1, <1>2 DEF LinkIInv, Truthful, SaidUp, Close
  <2>4. Untouched' /\ ConfigKept' /\ Phases' /\ Tried' /\ Wanted'
    BY <2>1, <1>2 DEF LinkIInv, Untouched, ConfigKept, Phases, Tried, Wanted, Close, flags
  <2> QED BY <2>2, <2>3, <2>4 DEF LinkIInv
<1> QED BY <1>1, <1>2

(* The device is unplugged                                                  *)
LEMMA UnplugStep == ASSUME LinkIInv, Unplug PROVE LinkIInv'
<1> USE DevicesAssumption
<1>1. CASE worker \in WinKeyers
  <2>1. /\ inbox' \in Seq(Signals) /\ ~SaidUp'
        /\ \A t : Has(inbox', t) <=> (t = "disconnected" \/ Has(inbox, t))
    BY <1>1, Posted DEF Unplug, Signals, LinkIInv, flags
  <2>2. LinkTypeOK'
    BY <1>1, <2>1 DEF LinkIInv, LinkTypeOK, Unplug, flags, Signals
  <2>3. Tried'
    <3>1. CASE closing
      BY <1>1, <2>1, <3>1 DEF LinkIInv, LinkTypeOK, Tried, Unplug, flags
    <3>2. CASE ~closing
      <4>1. device # None /\ main = "free" /\ ~userDown
        BY <3>2 DEF LinkIInv, Phases, Wanted, Unplug, LinkTypeOK
      <4> QED BY <1>1, <2>1, <4>1 DEF LinkIInv, Tried, Unplug, flags
    <3> QED BY <3>1, <3>2
  <2>4. Untouched' /\ ConfigKept' /\ Phases' /\ Truthful' /\ Wanted'
    BY <1>1, <2>1 DEF LinkIInv, Untouched, ConfigKept, Phases, Truthful, Wanted, Unplug, flags
  <2> QED BY <2>2, <2>3, <2>4 DEF LinkIInv
<1>2. CASE worker \notin WinKeyers
  <2>1. inbox' = inbox /\ isOpen' = isOpen
    BY <1>2 DEF Unplug
  <2>2. LinkTypeOK'
    BY <2>1 DEF LinkIInv, LinkTypeOK, Unplug, flags
  <2>3. Tried' /\ Truthful'
    BY <1>2, <2>1 DEF LinkIInv, Tried, Truthful, SaidUp, Unplug, flags
  <2>4. Untouched' /\ ConfigKept' /\ Phases' /\ Wanted'
    BY <2>1 DEF LinkIInv, Untouched, ConfigKept, Phases, Wanted, Unplug, flags
  <2> QED BY <2>2, <2>3, <2>4 DEF LinkIInv
<1> QED BY <1>1, <1>2

LEMMA IInvNext == LinkIInv /\ [LinkNext]_linkVars => LinkIInv'
<1> SUFFICES ASSUME LinkIInv, [LinkNext]_linkVars PROVE LinkIInv'
  OBVIOUS
<1>1. ASSUME NEW d \in Devices, ConnectKeyer(d) PROVE LinkIInv'
  BY <1>1, ConnectStep
<1>2. CASE DisconnectKeyer
  BY <1>2, DisconnectStep
<1>3. CASE AttemptReconnect
  BY <1>3, ReconnectStep
<1>4. CASE Resume
  BY <1>4, ResumeStep
<1>5. CASE Deliver
  BY <1>5, DeliverStep
<1>6. CASE Work
  BY <1>6, OpenStep, ReadCapsStep, FailStep, CloseStep DEF Work
<1>7. CASE Unplug
  BY <1>7, UnplugStep
<1>8. CASE UNCHANGED linkVars
  BY <1>8 DEF linkVars, LinkIInv, LinkTypeOK, Untouched, ConfigKept, Phases, Truthful, SaidUp, Tried, Wanted
<1> QED BY <1>1, <1>2, <1>3, <1>4, <1>5, <1>6, <1>7, <1>8 DEF LinkNext

THEOREM LinkInvariance == LinkSpec => []LinkIInv
BY IInvInit, IInvNext, PTL DEF LinkSpec

-----------------------------------------------------------------------------
(* What follows                                                             *)

(* The variables of KeyerController keep their types, and the worker never  *)
(* opens a device that was not configured.                                  *)
THEOREM LinkTypes == LinkSpec => []LinkTypeOK
BY LinkInvariance, PTL DEF LinkIInv

(* When nothing is under way, the controller's word and the device agree    *)
(* (the signals of a replaced device, KeyerController.cpp).                 *)
THEOREM WordIsTrue == LinkSpec => []ConnectedIsOpen
<1>1. ASSUME LinkIInv PROVE ConnectedIsOpen
  <2> SUFFICES ASSUME Quiet
               PROVE  (connected <=> isOpen) /\ (connected => device = worker /\ caps = device)
    BY DEF ConnectedIsOpen
  <2>1. SaidUp <=> connected
    BY <1>1, UpCleared DEF Quiet, SaidUp, LinkIInv, LinkTypeOK
  <2>2. ~closing
    BY <1>1 DEF Quiet, LinkIInv, Phases
  <2> QED BY <1>1, <2>1, <2>2 DEF Quiet, LinkIInv, LinkTypeOK, Truthful, Phases
<1> QED BY <1>1, LinkInvariance, PTL

(* A WinKeyer's loss is always followed by a running timer once all is      *)
(* quiet (handleError, startReconnectTimer).                                *)
THEOREM LossLeavesTimer == LinkSpec => []LossIsRetried
<1>1. ASSUME LinkIInv PROVE LossIsRetried
  <2>1. inbox = <<>> => \A t : ~Has(inbox, t)
    BY DEF Has
  <2> QED BY <1>1, <2>1 DEF LossIsRetried, Quiet, LinkIInv, Tried
<1> QED BY <1>1, LinkInvariance, PTL
=============================================================================
