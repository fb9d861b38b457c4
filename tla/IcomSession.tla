---------------------------- MODULE IcomSession ----------------------------
(***************************************************************************)
(* The session with an Icom radio over UDP: IcomNetwork, and IcomRadio     *)
(* above it, on the radio's worker thread.  A control socket finds the     *)
(* radio, logs in and asks for a stream; a second socket carries CI-V      *)
(* commands.  Nothing is sent twice but the first question, and nothing    *)
(* that arrives twice is recognised.                                       *)
(*                                                                         *)
(* The network and the radio are external.  Every datagram the program     *)
(* sent stays in one set, and the radio may answer any of them, never,     *)
(* late, in any order and more than once: loss, delay, reordering and      *)
(* duplication are all in that.  Answers reach only the socket that asked, *)
(* since each socket has a port of its own.  A token is named by the       *)
(* tokRequest of the login it was given for.                               *)
(***************************************************************************)
EXTENDS Naturals

CONSTANTS
  MaxRetries,    \* MAX_RETRIES of sendAreYouThere
  MaxConnects, MaxLogins, MaxPorts, MaxFaults   \* bounds

ASSUME MaxRetriesAssumption == MaxRetries \in Nat \ {0}
ASSUME IcomBoundsAssumption == {MaxConnects, MaxLogins, MaxPorts, MaxFaults} \subseteq Nat

VARIABLES
  state,              \* m_state
  control, civ,       \* ports of m_controlSocket and m_civSocket, 0 for null
  civLocalPort,       \* m_civLocalPort, the port the radio is told
  bound,              \* ports of CI-V sockets that are open, m_civSocket's or not
  streamOpened,       \* m_streamOpened
  attempts,           \* m_areYouThereCounter
  areYouThere,        \* timer of the question
  keepAlive, renewal,   \* timers of ping and idle, and of sendTokenRenewal: they
                      \* change nothing, but write to the control socket
  watchdog, leaked,   \* m_watchdogTimer; one that a newer one replaced
  tokRequest, token,  \* m_tokRequest, m_token
  heardCiv,           \* m_lastCivReceived is valid
  sent,               \* every datagram to the radio
  connects, ports, faults   \* counters for names and bounds

sockets == <<control, civ, civLocalPort, bound>>
runningTimers == <<areYouThere, keepAlive, renewal, watchdog, leaked>>
session == <<state, streamOpened, attempts>>
tokens == <<tokRequest, token>>
counters == <<connects, ports, faults>>
icomVars == <<session, sockets, runningTimers, tokens, heardCiv, sent, counters>>

\* A datagram: the control socket of its session, what it is, and where it
\* has them the token request, the token and a CI-V port
Datagram(kind, request, tok, port) ==
  [of |-> control, kind |-> kind, request |-> request, token |-> tok, civ |-> port]
ControlKinds == {"areYouThere", "areYouReady", "login", "confirm", "stream", "bye"}
CivKinds == {"civHello", "civReady", "open", "command", "close", "civBye"}
Datagrams == [of : 0 .. MaxConnects, kind : ControlKinds \cup CivKinds,
              request : 0 .. MaxLogins, token : 0 .. MaxLogins, civ : 0 .. MaxPorts]

\* ConnectionState
States == {"Disconnected", "WaitingForHere", "WaitingForReady", "WaitingForLogin",
           "Authenticated", "StreamRequested", "Connected"}

IcomTypeOK ==
  /\ state \in States
  /\ control \in 0 .. MaxConnects /\ civ \in 0 .. MaxPorts
  /\ civLocalPort \in 0 .. MaxPorts /\ bound \subseteq 1 .. MaxPorts
  /\ streamOpened \in BOOLEAN /\ heardCiv \in BOOLEAN
  /\ areYouThere \in BOOLEAN /\ keepAlive \in BOOLEAN /\ renewal \in BOOLEAN
  /\ watchdog \in BOOLEAN /\ leaked \in BOOLEAN
  /\ attempts \in 0 .. MaxRetries
  /\ tokRequest \in 0 .. MaxLogins /\ token \in 0 .. MaxLogins
  /\ sent \subseteq Datagrams
  /\ connects \in 0 .. MaxConnects /\ ports \in 0 .. MaxPorts /\ faults \in 0 .. MaxFaults

IcomInit ==
  /\ state = "Disconnected" /\ streamOpened = FALSE /\ attempts = 0
  /\ control = 0 /\ civ = 0 /\ civLocalPort = 0 /\ bound = {}
  /\ areYouThere = FALSE /\ keepAlive = FALSE /\ renewal = FALSE
  /\ watchdog = FALSE /\ leaked = FALSE
  /\ tokRequest = 0 /\ token = 0 /\ heardCiv = FALSE
  /\ sent = {} /\ connects = 0 /\ ports = 0 /\ faults = 0

Send(ms) == sent' = sent \cup ms
ControlPacket(kind) == Datagram(kind, 0, 0, 0)
CivPacket(kind) == Datagram(kind, 0, 0, civ)

Fault == faults < MaxFaults /\ faults' = faults + 1

-----------------------------------------------------------------------------
(* Beginning and end                                                        *)

\* Slip: the ping timer goes on
CleanupKeepsPinging ==
  /\ areYouThere' = FALSE /\ renewal' = FALSE /\ watchdog' = FALSE
  /\ UNCHANGED <<leaked, keepAlive>>
  /\ control' = 0 /\ civ' = 0 /\ bound' = bound \ {civ}
  /\ streamOpened' = FALSE /\ attempts' = 0 /\ state' = "Disconnected"

\* cleanup: timers stop, sockets close; replaced ones are forgotten, not closed
Cleanup ==
  /\ areYouThere' = FALSE /\ keepAlive' = FALSE /\ renewal' = FALSE /\ watchdog' = FALSE
  /\ UNCHANGED leaked
  /\ control' = 0 /\ civ' = 0 /\ bound' = bound \ {civ}
  /\ streamOpened' = FALSE /\ attempts' = 0 /\ state' = "Disconnected"

\* Slip: the stream is closed only in the last state
GoodbyesWhenConnected ==
  {ControlPacket("bye") : p \in {control} \ {0}}
    \cup (IF civ # 0 /\ state = "Connected" THEN {CivPacket("close"), CivPacket("civBye")} ELSE {})

\* What disconnectFromRadio says to the radio
Goodbyes ==
  {ControlPacket("bye") : p \in {control} \ {0}}
    \cup (IF civ # 0 /\ streamOpened THEN {CivPacket("close"), CivPacket("civBye")} ELSE {})

DisconnectFromRadio ==
  /\ state # "Disconnected"
  /\ Send(Goodbyes) /\ Cleanup
  /\ UNCHANGED <<civLocalPort, tokens, heardCiv, counters>>

\* connectToRadio.  When the socket cannot be bound, initControlSocket cleans
\* up, and its caller goes on all the same.
IcomConnectToRadio ==
  /\ state = "Disconnected" /\ connects < MaxConnects
  /\ state' = "WaitingForHere"
  /\ \/ /\ connects' = connects + 1 /\ control' = connects'
        /\ areYouThere' = TRUE
        /\ UNCHANGED faults
     \/ Fault /\ UNCHANGED <<control, areYouThere, connects>>
  /\ UNCHANGED <<streamOpened, attempts, civ, civLocalPort, bound, keepAlive, renewal,
                 watchdog, leaked, tokens, heardCiv, sent, ports>>

-----------------------------------------------------------------------------
(* Timers                                                                   *)

\* sendAreYouThere, until the radio was asked often enough
SendAreYouThere ==
  /\ areYouThere /\ attempts < MaxRetries
  /\ attempts' = attempts + 1
  /\ Send({ControlPacket("areYouThere")})
  /\ UNCHANGED <<state, streamOpened, sockets, runningTimers, tokens, heardCiv, counters>>

GiveUp == areYouThere /\ attempts = MaxRetries /\ DisconnectFromRadio

\* sendCivOpenClose(false)
CivOpen == Send(IF civ = 0 THEN {} ELSE {CivPacket("open")})

\* watchdogTimeout, of either timer: a stream that spoke and fell silent
WatchdogTimeout ==
  /\ watchdog \/ leaked
  /\ streamOpened /\ heardCiv
  /\ CivOpen
  /\ UNCHANGED <<session, sockets, runningTimers, tokens, heardCiv, counters>>

\* sendCivCommand: from IcomRadio's poll timer, which runs since connect(),
\* or for the operator
SendCivCommand ==
  /\ streamOpened /\ civ # 0
  /\ Send({CivPacket("command")})
  /\ UNCHANGED <<session, sockets, runningTimers, tokens, heardCiv, counters>>

-----------------------------------------------------------------------------
(* What the control socket receives                                         *)

Asked(kind) == {m \in sent : m.kind = kind /\ m.of = control /\ control # 0}

\* "I am here", at any time
ReceiveHere ==
  /\ Asked("areYouThere") # {}
  /\ attempts' = 0 /\ state' = "WaitingForReady"
  /\ areYouThere' = FALSE /\ keepAlive' = (keepAlive \/ areYouThere)
  /\ Send({ControlPacket("areYouReady")})
  /\ UNCHANGED <<streamOpened, sockets, renewal, watchdog, leaked, tokens, heardCiv, counters>>

\* "I am ready": sendLogin, under a new number
ReceiveReady ==
  /\ Asked("areYouReady") # {}
  /\ tokRequest < MaxLogins /\ tokRequest' = tokRequest + 1
  /\ Send({Datagram("login", tokRequest', 0, 0)})
  /\ state' = "WaitingForLogin"
  /\ UNCHANGED <<streamOpened, attempts, sockets, runningTimers, token, heardCiv, counters>>

\* Slip: the answer to an earlier login counts as well
LoginOfAny == Asked("login")

\* The login whose answer is accepted
CurrentLogin == {m \in Asked("login") : m.request = tokRequest}

ReceiveLogin ==
  /\ \E m \in CurrentLogin : token' = m.request
  /\ Send({Datagram("confirm", tokRequest, token', 0)})
  /\ renewal' = TRUE /\ state' = "Authenticated"
  /\ UNCHANGED <<streamOpened, attempts, sockets, areYouThere, keepAlive, watchdog, leaked,
                 tokRequest, heardCiv, counters>>

\* The radio refuses the user, whichever login it answers
LoginRefused == Asked("login") # {} /\ DisconnectFromRadio

\* The list of radios, taken to have one: selectRadio finds a free port for
\* CI-V and asks for a stream to it.  Without a free port the old one is told.
ReceiveCapabilities ==
  /\ Asked("confirm") # {}
  /\ \/ ports < MaxPorts /\ ports' = ports + 1 /\ civLocalPort' = ports' /\ UNCHANGED faults
     \/ Fault /\ UNCHANGED <<ports, civLocalPort>>
  /\ Send({Datagram("stream", tokRequest, token, civLocalPort')})
  /\ state' = "StreamRequested"
  /\ UNCHANGED <<streamOpened, attempts, control, civ, bound, runningTimers, tokens,
                 heardCiv, connects>>

\* initCivSocket: a socket on the port, which says hello
Bind(port) ==
  /\ civ' = port /\ bound' = bound \cup {port}
  /\ watchdog' = TRUE /\ leaked' = (leaked \/ watchdog)
  /\ sent' = sent \cup {Datagram("civHello", 0, 0, port)}

BindFails ==
  /\ civ' = 0 /\ UNCHANGED <<bound, watchdog, leaked, sent>>

\* Slip: a port that is free now is looked for
InitCivSocketAnew ==
  /\ ports < MaxPorts /\ ports' = ports + 1
  /\ Bind(ports') /\ UNCHANGED faults

\* The port is the one the radio was told, unless none ever was; it may be
\* taken, by a socket of this program too
InitCivSocket ==
  \/ /\ civLocalPort \notin bound \cup {0}
     /\ Bind(civLocalPort) /\ UNCHANGED <<ports, faults>>
  \/ /\ civLocalPort = 0 /\ ports < MaxPorts /\ ports' = ports + 1
     /\ Bind(ports') /\ UNCHANGED faults
  \/ /\ civLocalPort \in bound
     /\ BindFails /\ UNCHANGED <<ports, faults>>
  \/ Fault /\ BindFails /\ UNCHANGED ports

\* The stream is granted; an answer with an error changes nothing
ReceiveStatus ==
  /\ Asked("stream") # {}
  /\ InitCivSocket
  /\ streamOpened' = TRUE /\ state' = "Connected"
  /\ UNCHANGED <<attempts, control, civLocalPort, areYouThere, keepAlive, renewal, tokens,
                 heardCiv, connects>>

\* The radio ends the session
RadioDisconnects == Asked("stream") # {} /\ DisconnectFromRadio

-----------------------------------------------------------------------------
(* What the CI-V socket receives                                            *)

CivAsked(kind) == {m \in sent : m.kind = kind /\ m.civ = civ /\ civ # 0}

ReceiveCivHere ==
  /\ CivAsked("civHello") # {}
  /\ Send({CivPacket("civReady")})
  /\ UNCHANGED <<session, sockets, runningTimers, tokens, heardCiv, counters>>

ReceiveCivReady ==
  /\ CivAsked("civReady") # {}
  /\ CivOpen
  /\ UNCHANGED <<session, sockets, runningTimers, tokens, heardCiv, counters>>

ReceiveCivData ==
  /\ CivAsked("open") # {}
  /\ heardCiv' = TRUE
  /\ UNCHANGED <<session, sockets, runningTimers, tokens, sent, counters>>

IcomNext ==
  \/ IcomConnectToRadio \/ DisconnectFromRadio
  \/ SendAreYouThere \/ GiveUp
  \/ WatchdogTimeout \/ SendCivCommand
  \/ ReceiveHere \/ ReceiveReady \/ ReceiveLogin \/ LoginRefused
  \/ ReceiveCapabilities \/ ReceiveStatus \/ RadioDisconnects
  \/ ReceiveCivHere \/ ReceiveCivReady \/ ReceiveCivData

IcomSpec == IcomInit /\ [][IcomNext]_icomVars

-----------------------------------------------------------------------------
(* The socket that carries commands has a port the radio was told of in     *)
(* this session, whatever came late or twice ("Do NOT search for a new port *)
(* here - that would cause a mismatch!", icomnetwork.cpp); but for a        *)
(* session in which no port could be found to tell.                         *)
CivPortIsTold ==
  civ # 0 => \E m \in sent : m.kind = "stream" /\ m.of = control /\ m.civ \in {civ, 0}

(* A session that is over was ended at the radio: it got the disconnect, if *)
(* it was ever asked to log in, and the close of every stream that was      *)
(* opened, except over a socket that a second grant made the program lose   *)
(* ("This causes Icom radios to stay in 'connected' state and refuse new    *)
(* connections", disconnectFromRadio).                                      *)
Said(kind) == {m \in sent : m.kind = kind}
EndIsAnnounced ==
  /\ \A m \in Said("login") : m.of = control \/ \E b \in Said("bye") : b.of = m.of
  /\ \A m \in Said("open") : m.civ \in bound \/ \E c \in Said("close") : c.civ = m.civ

(* After the disconnect nothing more is said in its session: no timer, poll *)
(* or late answer outlives it, and none finds the socket gone (cleanup).    *)
NothingAfterEnd ==
  [][/\ \A m \in sent' \ sent : m.of # 0 /\ ~\E b \in Said("bye") : b.of = m.of
     /\ control' = 0 => ~(areYouThere' \/ keepAlive' \/ renewal')]_icomVars

(* A confirmed token belongs to the login it is confirmed for, also after a *)
(* second login; so do the ones that ask for the stream and that a renewal  *)
(* would send, in a session with one login.  After a second one the code    *)
(* may mix the two.                                                         *)
OneLogin(p) == \A m, n \in Said("login") : m.of = p /\ n.of = p => m = n
TokensBelong ==
  /\ \A m \in Said("confirm") : m.token = m.request
  /\ \A m \in Said("stream") : OneLogin(m.of) => m.token = m.request
  /\ renewal /\ OneLogin(control) => token = tokRequest

(* "Connected - CI-V socket ready for commands"                             *)
(* (docs/ICOM_NETWORK_README.md:179).                                       *)
ConnectedHasSocket == streamOpened => civ # 0

(* "Without this, failed connection attempts leave state in intermediate    *)
(* state ... preventing subsequent connection attempts"                     *)
(* (icomnetwork.cpp:952): a state other than Disconnected has a socket.     *)
FailedIsDisconnected == control = 0 => state = "Disconnected"

(* "Don't poll yet - wait for civSocketReady signal from network"           *)
(* (IcomRadio.cpp:519).                                                     *)
PollsWait ==
  \A m \in Said("command") : \E o \in Said("open") : o.civ = m.civ
=============================================================================
