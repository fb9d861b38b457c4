---------------------------- MODULE IambicKeyer -----------------------------
(***************************************************************************)
(* The software keyer: paddle presses become timed key-down and key-up     *)
(* signals.  A tone or the space after it is ended by a timer; presses     *)
(* meanwhile are latched.  A pair of Booleans of the code, one for each    *)
(* paddle, is a set of paddles here.  How long an element is does not      *)
(* matter to which elements are sent, so time is left to the two timers.   *)
(* Those are members without a parent: CWService, which moves the keyer to *)
(* a thread after constructing it, leaves them behind.  What the class     *)
(* promises is asked of a keyer that was moved and of one that was not.    *)
(***************************************************************************)
EXTENDS Naturals

VARIABLES
  moved,    \* was the keyer moved to a thread after it was constructed?
  state,    \* m_state
  held,     \* m_currentDit, m_currentDah
  latched,  \* m_ditLatched, m_dahLatched
  atTone,   \* m_ditAtToneStart, m_dahAtToneStart
  atSpace,  \* m_ditAtSpaceStart, m_dahAtSpaceStart
  last,     \* m_lastWasDit
  modeB,    \* m_modeB, set once when the keyer is made
  timers,   \* which of m_elementTimer and m_spaceTimer run
  key,      \* the last of keyDown and keyUp that was emitted
  fresh,    \* history: paddles pressed since the last element began
  owed,     \* history: opposite paddle pressed during the tone
  extra     \* history: elements begun since both paddles were up

history == <<fresh, owed, extra>>
vars == <<moved, state, held, latched, atTone, atSpace, last, modeB, timers,
          key, fresh, owed, extra>>

Paddles == {"dit", "dah"}
Other(p) == IF p = "dit" THEN "dah" ELSE "dit"

TypeOK ==
  /\ moved \in BOOLEAN
  /\ state \in {"idle", "tone", "space"}
  /\ held \in SUBSET Paddles /\ latched \in SUBSET Paddles
  /\ atTone \in SUBSET Paddles /\ atSpace \in SUBSET Paddles
  /\ last \in Paddles /\ modeB \in BOOLEAN
  /\ timers \in {{}, {"element"}, {"space"}} /\ key \in {"up", "down"}
  /\ fresh \in SUBSET Paddles /\ owed \in SUBSET Paddles /\ extra \in Nat

Init ==
  /\ moved \in BOOLEAN
  /\ state = "idle" /\ key = "up" /\ timers = {}
  /\ held = {} /\ latched = {} /\ atTone = {} /\ atSpace = {}
  /\ last = "dit" /\ modeB \in BOOLEAN
  /\ fresh = {} /\ owed = {} /\ extra = 0

\* QTimer::start does nothing on another thread than the timer's own, and a
\* member without a parent stays where its owner was constructed
Started(timer) == IF moved THEN {} ELSE {timer}

-----------------------------------------------------------------------------
(* Which element comes next                                                 *)

\* determineNextToneDuration from Idle: the dit first if both are pressed
FirstTone(cur) == IF cur = {"dah"} THEN "dah" ELSE "dit"

\* Slip: a squeeze is answered as long as nothing else was asked for
NextToneSqueezes ==
  LET wanted == latched \cup held
  IN  IF Other(last) \in wanted THEN {Other(last)}
      ELSE IF last \in wanted THEN {last}
      ELSE IF modeB THEN {Other(last)} ELSE {}

\* Slip: the same paddle repeats before the other is answered
NextToneRepeats ==
  LET wanted == latched \cup held
  IN  IF last \in wanted THEN {last}
      ELSE IF Other(last) \in wanted THEN {Other(last)} ELSE {}

\* determineNextToneDuration after an element, as the set of the element if
\* there is one: alternate, else repeat, else answer a squeeze (mode B)
NextTone ==
  LET wanted == latched \cup held
  IN  IF Other(last) \in wanted THEN {Other(last)}
      ELSE IF last \in wanted THEN {last}
      ELSE IF modeB /\ Other(last) \in atTone THEN {Other(last)} ELSE {}

StartTone(p, cur) ==
  /\ state' = "tone" /\ key' = "down" /\ last' = p
  /\ atTone' = cur /\ latched' = {} /\ timers' = Started("element")
  /\ fresh' = {} /\ owed' = {}

-----------------------------------------------------------------------------
(* The slots                                                                *)

\* stop(): everything but m_lastWasDit and the paddles
Reset ==
  /\ state' = "idle" /\ key' = "up" /\ timers' = {}
  /\ latched' = {} /\ atTone' = {} /\ atSpace' = {}
  /\ fresh' = {} /\ owed' = {}

\* A paddle goes down or up in Idle
BeginSending(cur) ==
  /\ state = "idle" /\ cur # {}
  /\ StartTone(FirstTone(cur), cur)
  /\ UNCHANGED atSpace

\* During a tone only the other paddle counts, if it was up when it began
PressDuringTone(cur) ==
  /\ state = "tone"
  /\ latched' = latched \cup ((cur \cap {Other(last)}) \ atTone)
  /\ owed' = owed \cup (((cur \ held) \cap {Other(last)}) \ atTone)
  /\ fresh' = fresh \cup (cur \ held)
  /\ UNCHANGED <<state, atTone, atSpace, last, timers, key>>

\* During the space each paddle counts that was up when it began
PressDuringSpace(cur) ==
  /\ state = "space"
  /\ latched' = latched \cup (cur \ atSpace)
  /\ fresh' = fresh \cup (cur \ held)
  /\ UNCHANGED <<state, atTone, atSpace, last, timers, key, owed>>

\* The state lasted longer than SAFETY_TIMEOUT_MS: stop(), then start anew
ResetStuck(cur) ==
  /\ state # "idle"
  /\ \/ cur = {} /\ Reset /\ UNCHANGED last
     \/ cur # {} /\ StartTone(FirstTone(cur), cur) /\ atSpace' = {}

UpdatePaddleState(cur) ==
  /\ cur # held
  /\ held' = cur /\ extra' = 0
  /\ \/ BeginSending(cur) \/ PressDuringTone(cur) \/ PressDuringSpace(cur)
     \/ ResetStuck(cur)
  /\ UNCHANGED <<moved, modeB>>

OnElementTimerExpired ==
  /\ "element" \in timers
  /\ key' = "up" /\ state' = "space" /\ atSpace' = held
  /\ timers' = Started("space")
  /\ UNCHANGED <<moved, held, latched, atTone, last, modeB, history>>

OnSpaceTimerExpired ==
  /\ "space" \in timers
  /\ IF NextTone = {}
       THEN Reset /\ UNCHANGED <<last, extra>>
       ELSE /\ \E p \in NextTone : StartTone(p, held)
            /\ extra' = IF held = {} THEN extra + 1 ELSE 0
            /\ UNCHANGED atSpace
  /\ UNCHANGED <<moved, held, modeB>>

Next ==
  \/ \E cur \in SUBSET Paddles : UpdatePaddleState(cur)
  \/ OnElementTimerExpired \/ OnSpaceTimerExpired

Spec == Init /\ [][Next]_vars

\* A timer that was started fires
FairSpec == Spec /\ WF_vars(OnElementTimerExpired) /\ WF_vars(OnSpaceTimerExpired)

-----------------------------------------------------------------------------
(* Properties                                                               *)

(* A paddle that is down is being answered: whatever was latched, timed out *)
(* or squeezed before, the keyer never sits in Idle under a held paddle.    *)
HeldIsSent == held # {} => state # "idle"

(* Once both paddles are up at most one more element is sent, in mode A and *)
(* in mode B (the latches of updatePaddleState, the squeeze).               *)
OneMoreAtMost == extra <= 1

(* An element begun with both paddles up was asked for: its paddle was      *)
(* pressed since the element before it began, or, in mode B only, was down  *)
(* when that one began.                                                     *)
SentIsAsked ==
  [][OnSpaceTimerExpired /\ state' = "tone" /\ held = {} =>
       last' \in fresh \/ (modeB /\ last' \in atTone)]_vars

(* The opposite paddle, pressed during a tone that began without it, is the *)
(* next element: nothing pressed later goes first, and the keyer does not   *)
(* go idle over it (until the watchdog resets the keyer).                   *)
OppositeIsNext ==
  [][OnSpaceTimerExpired => owed \subseteq (IF state' = "tone" THEN {last'} ELSE {})]_vars

(* With the paddles let go the key goes up ("timed key-down/key-up          *)
(* signals").  Not after CWService moved the keyer to a thread of its own.  *)
ToneEnds == (key = "down" /\ held = {}) ~> (key = "up" \/ held # {})
=============================================================================
