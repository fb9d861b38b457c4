----------------------------- MODULE ClusterLink -----------------------------
(***************************************************************************)
(* The DX cluster connection: DXClusterWindow and its ReconnectionManager  *)
(* on the main thread, TelnetClient and its socket on a thread of their    *)
(* own. The window posts commands to the client, the client posts signals  *)
(* back; each queue is served in order.                                    *)
(***************************************************************************)
EXTENDS Naturals, Sequences

CONSTANTS
    MaxAttempts,  \* MAX_RECONNECT_ATTEMPTS
    MaxClicks,    \* bound: what the operator does
    MaxOutages,   \* bound: how often the server goes away
    MaxQueue      \* bound: the ten seconds between retries empty the queues
                  \* down to this length

ASSUME ClusterAssumption ==
    /\ MaxAttempts \in Nat \ {0}
    /\ {MaxClicks, MaxOutages, MaxQueue} \subseteq Nat

VARIABLES
    auto,         \* m_autoReconnect
    text,         \* whether the server field holds a usable address
    shown,        \* the status shown, and with it which button is enabled
    timer,        \* the retry timer runs
    count,        \* m_attemptCount
    cmds,         \* calls queued to the telnet thread
    sock,         \* the state of the QTcpSocket
    closeOnOpen,  \* its pendingClose: a disconnect that came while connecting
    isConnected,  \* m_isConnected
    loginSent,    \* m_loginSent
    loginTimer,   \* m_loginTimer runs
    posted,       \* signals queued to the window
    server,       \* whether the cluster accepts connections
    outages,      \* how often it went away
    clicks,       \* what the operator did
    wanted,       \* history: the operator's last click was Connect
    logins,       \* history: call signs sent over this connection
    tries         \* history: retries since the last success or click

window == <<auto, text, shown, timer, count>>
telnet == <<sock, closeOnOpen, isConnected, loginSent, loginTimer, logins>>
vars == <<window, telnet, cmds, posted, server, outages, clicks, wanted, tries>>

Commands == {"connect", "disconnect"}
Signals == {"connected", "disconnected", "error"}

(* ReconnectionManager::reset and recordSuccess *)
Reset == timer' = FALSE /\ count' = 0

Init ==
    /\ auto = FALSE /\ text = TRUE /\ shown = FALSE
    /\ timer = FALSE /\ count = 0 /\ cmds = <<>> /\ posted = <<>>
    /\ sock = "down" /\ closeOnOpen = FALSE /\ isConnected = FALSE
    /\ loginSent = FALSE /\ loginTimer = FALSE /\ logins = 0
    /\ server \in BOOLEAN /\ outages = 0 /\ clicks = 0
    /\ wanted = FALSE /\ tries = 0

-----------------------------------------------------------------------------
(* The window. *)

Click == clicks < MaxClicks /\ clicks' = clicks + 1

(* onConnectClicked past its first lines: a bad address ends in a warning. *)
Request == cmds' = IF text THEN Append(cmds, "connect") ELSE cmds

(* onConnectClicked by the operator; the button is enabled while the window
   shows no connection. *)
OnConnectClicked ==
    /\ Click /\ ~shown
    /\ auto' = TRUE /\ Reset /\ Request
    /\ wanted' = TRUE /\ tries' = 0
    /\ UNCHANGED <<text, shown, telnet, posted, server, outages>>

OnDisconnectClicked ==
    /\ Click /\ shown
    /\ auto' = FALSE /\ Reset
    /\ cmds' = Append(cmds, "disconnect")
    /\ wanted' = FALSE /\ tries' = 0
    /\ UNCHANGED <<text, shown, telnet, posted, server, outages>>

(* The operator edits the server field. *)
EditServer ==
    /\ Click /\ text' = ~text
    /\ UNCHANGED <<auto, shown, timer, count, telnet, cmds, posted, server, outages, wanted, tries>>

CountTry == tries' = IF tries <= MaxAttempts THEN tries + 1 ELSE tries

(* Mutant of OnTimeout: the timer is not restarted after a retry. *)
OnTimeoutOnce ==
    /\ timer /\ Len(cmds) + Len(posted) <= MaxQueue
    /\ Reset /\ Request /\ CountTry
    /\ UNCHANGED <<auto, text, shown, telnet, posted, server, outages, clicks, wanted>>
(* ReconnectionManager::onTimeout with the window's two handlers. The retry
   calls onConnectClicked, which resets the manager; the timer is started
   again when the handler has returned. *)
OnTimeout ==
    /\ timer /\ Len(cmds) + Len(posted) <= MaxQueue
    /\ IF count + 1 > MaxAttempts
       THEN count' = count + 1 /\ timer' = FALSE /\ auto' = FALSE /\ UNCHANGED <<cmds, tries>>
       ELSE IF auto
       THEN count' = 0 /\ Request /\ CountTry /\ UNCHANGED <<auto, timer>>
       ELSE count' = count + 1 /\ UNCHANGED <<auto, timer, cmds, tries>>
    /\ UNCHANGED <<text, shown, telnet, posted, server, outages, clicks, wanted>>

(* onTelnetConnected *)
OnTelnetConnected ==
    /\ shown' = TRUE /\ Reset /\ tries' = 0
    /\ UNCHANGED auto

(* onTelnetDisconnected *)
OnTelnetDisconnected ==
    /\ shown' = FALSE /\ timer' = (timer \/ auto)
    /\ UNCHANGED <<auto, count, tries>>

(* onTelnetError: shown, and nothing is scheduled. *)
OnTelnetError ==
    /\ shown' = FALSE
    /\ UNCHANGED <<auto, timer, count, tries>>

(* The window takes the next signal of the client. *)
Deliver ==
    /\ posted # <<>> /\ posted' = Tail(posted)
    /\ CASE Head(posted) = "connected" -> OnTelnetConnected
         [] Head(posted) = "disconnected" -> OnTelnetDisconnected
         [] OTHER -> OnTelnetError
    /\ UNCHANGED <<text, telnet, cmds, server, outages, clicks, wanted>>

-----------------------------------------------------------------------------
(* The client. QTcpSocket is external: it closes at once or, with bytes left
   to write, later; a second connectToHost is an error and changes nothing; a
   close while it is connecting is remembered. *)

Take(c) == cmds # <<>> /\ Head(cmds) = c /\ cmds' = Tail(cmds)

(* onDisconnected *)
Closed == isConnected' = FALSE /\ loginTimer' = FALSE

(* Mutant of ConnectToServer: m_loginSent is not reset. *)
ConnectToServerStale ==
    /\ Take("connect") /\ ~isConnected /\ sock = "down"
    /\ sock' = "connecting" /\ closeOnOpen' = FALSE
    /\ UNCHANGED <<isConnected, loginSent, loginTimer, posted>>
    /\ UNCHANGED <<window, server, outages, clicks, wanted, logins, tries>>
(* Mutant of ConnectToServer: an open connection is not closed first. *)
ConnectToServerOver ==
    /\ Take("connect") /\ loginSent' = FALSE
    /\ \/ /\ sock = "down" /\ sock' = "connecting" /\ closeOnOpen' = FALSE
          /\ UNCHANGED <<isConnected, loginTimer, posted>>
       \/ /\ sock # "down"
          /\ isConnected' = FALSE /\ posted' = Append(posted, "error")
          /\ UNCHANGED <<sock, closeOnOpen, loginTimer>>
    /\ UNCHANGED <<window, server, outages, clicks, wanted, logins, tries>>
(* TelnetClient::connectToServer *)
ConnectToServer ==
    /\ Take("connect") /\ loginSent' = FALSE
    /\ \/ /\ sock = "down" /\ sock' = "connecting" /\ closeOnOpen' = FALSE
          /\ UNCHANGED <<isConnected, loginTimer, posted>>
       \/ /\ isConnected /\ Closed
          /\ sock' = "connecting" /\ closeOnOpen' = FALSE
          /\ posted' = Append(posted, "disconnected")
       \/ /\ isConnected /\ isConnected' = FALSE
          /\ sock' = "closing" /\ posted' = Append(posted, "error")
          /\ UNCHANGED <<closeOnOpen, loginTimer>>
       \/ /\ sock # "down" /\ ~isConnected
          /\ posted' = Append(posted, "error")
          /\ UNCHANGED <<sock, closeOnOpen, isConnected, loginTimer>>
    /\ UNCHANGED <<window, server, outages, clicks, wanted, logins, tries>>

(* Mutant of DisconnectFromServer: a connection in the making is left alone. *)
DisconnectFromServerUp ==
    /\ Take("disconnect") /\ isConnected' = FALSE
    /\ IF sock = "up"
       THEN sock' = "down" /\ loginTimer' = FALSE /\ posted' = Append(posted, "disconnected")
       ELSE UNCHANGED <<sock, loginTimer, posted>>
    /\ UNCHANGED <<closeOnOpen, loginSent>>
    /\ UNCHANGED <<window, server, outages, clicks, wanted, logins, tries>>
(* TelnetClient::disconnectFromServer *)
DisconnectFromServer ==
    /\ Take("disconnect") /\ isConnected' = FALSE
    /\ \/ /\ sock = "up" /\ sock' = "down" /\ loginTimer' = FALSE
          /\ posted' = Append(posted, "disconnected")
          /\ UNCHANGED closeOnOpen
       \/ /\ sock = "up" /\ sock' = "closing"
          /\ UNCHANGED <<closeOnOpen, loginTimer, posted>>
       \/ /\ sock = "connecting" /\ closeOnOpen' = TRUE
          /\ UNCHANGED <<sock, loginTimer, posted>>
       \/ /\ sock \in {"down", "closing"}
          /\ UNCHANGED <<sock, closeOnOpen, loginTimer, posted>>
    /\ UNCHANGED loginSent
    /\ UNCHANGED <<window, server, outages, clicks, wanted, logins, tries>>

(* The socket connects; onConnected starts the login timer. A remembered
   close follows at once. *)
Opened ==
    /\ sock = "connecting" /\ server /\ logins' = 0
    /\ IF closeOnOpen
       THEN /\ sock' = "down" /\ closeOnOpen' = FALSE /\ Closed
            /\ posted' = posted \o <<"connected", "disconnected">>
       ELSE /\ sock' = "up" /\ isConnected' = TRUE /\ loginTimer' = TRUE
            /\ posted' = Append(posted, "connected")
            /\ UNCHANGED closeOnOpen
    /\ UNCHANGED <<loginSent, window, cmds, server, outages, clicks, wanted, tries>>

(* Refused, not found or timed out: onError alone. *)
Refused ==
    /\ sock = "connecting" /\ ~server
    /\ sock' = "down" /\ isConnected' = FALSE
    /\ posted' = Append(posted, "error")
    /\ UNCHANGED <<closeOnOpen, loginSent, loginTimer, logins>>
    /\ UNCHANGED <<window, cmds, server, outages, clicks, wanted, tries>>

(* A close that had to wait for bytes is done. *)
CloseDone ==
    /\ sock = "closing" /\ sock' = "down" /\ Closed
    /\ posted' = Append(posted, "disconnected")
    /\ UNCHANGED <<closeOnOpen, loginSent, logins>>
    /\ UNCHANGED <<window, cmds, server, outages, clicks, wanted, tries>>

SendLogin ==
    /\ loginSent' = TRUE
    /\ logins' = IF isConnected THEN logins + 1 ELSE logins

(* onReadyRead finds a login prompt. *)
Prompted ==
    /\ sock \in {"up", "closing"} /\ ~loginSent
    /\ loginTimer' = FALSE /\ SendLogin
    /\ UNCHANGED <<sock, closeOnOpen, isConnected>>
    /\ UNCHANGED <<window, cmds, posted, server, outages, clicks, wanted, tries>>

(* onLoginTimeout: no prompt within four seconds. *)
OnLoginTimeout ==
    /\ loginTimer /\ loginTimer' = FALSE
    /\ IF loginSent THEN UNCHANGED <<loginSent, logins>> ELSE SendLogin
    /\ UNCHANGED <<sock, closeOnOpen, isConnected>>
    /\ UNCHANGED <<window, cmds, posted, server, outages, clicks, wanted, tries>>

-----------------------------------------------------------------------------
(* The cluster goes away: onError, then onDisconnected. *)
ServerGone ==
    /\ server /\ outages < MaxOutages
    /\ server' = FALSE /\ outages' = outages + 1
    /\ IF sock \in {"up", "closing"}
       THEN /\ sock' = "down" /\ Closed
            /\ posted' = posted \o <<"error", "disconnected">>
       ELSE UNCHANGED <<sock, isConnected, loginTimer, posted>>
    /\ UNCHANGED <<closeOnOpen, loginSent, logins, window, cmds, clicks, wanted, tries>>

ServerBack ==
    /\ ~server /\ server' = TRUE
    /\ UNCHANGED <<window, telnet, cmds, posted, outages, clicks, wanted, tries>>

Operator == OnConnectClicked \/ OnDisconnectClicked \/ EditServer
Serve == ConnectToServer \/ DisconnectFromServer
Socket == Opened \/ Refused \/ CloseDone
Login == Prompted \/ OnLoginTimeout
Next ==
    \/ Operator \/ OnTimeout \/ Deliver
    \/ Serve \/ Socket \/ Login \/ ServerGone \/ ServerBack

(* Both threads serve their queues, the socket answers, due timers fire, and
   no outage lasts for ever. *)
Fairness ==
    /\ WF_vars(Deliver) /\ WF_vars(Serve) /\ WF_vars(Socket) /\ WF_vars(OnTimeout)
    /\ WF_vars(OnLoginTimeout) /\ WF_vars(ServerBack)
Spec == Init /\ [][Next]_vars /\ Fairness

-----------------------------------------------------------------------------
TypeOK ==
    /\ {auto, text, shown, timer, closeOnOpen, isConnected} \subseteq BOOLEAN
    /\ {loginSent, loginTimer, server, wanted} \subseteq BOOLEAN
    /\ count \in 0..MaxAttempts + 1 /\ tries \in 0..MaxAttempts + 1
    /\ cmds \in Seq(Commands) /\ posted \in Seq(Signals)
    /\ sock \in {"down", "connecting", "up", "closing"}
    /\ outages \in 0..MaxOutages /\ clicks \in 0..MaxClicks /\ logins \in Nat

(* The operator's disconnect is not undone: once the client has served its
   queue the socket is closed, closing, or will close as soon as it opens,
   whatever connections, signals and timers were under way at the click. *)
DisconnectHolds ==
    ~wanted /\ cmds = <<>> => sock \in {"down", "closing"} \/ closeOnOpen

(* When no signal is under way the window shows the state of the socket, and
   so offers the button that fits it. *)
StatusCatchesUp ==
    posted = <<>> /\ sock # "closing" => shown = (sock = "up")

(* The call sign is sent once over a connection, by the prompt or by the
   timer but never by both. *)
LoginOnce == logins <= 1

(* Every connection that lasts is logged in, the second like the first. *)
LoggedIn == sock = "up" ~> logins > 0 \/ sock # "up"

(* A connection that was lost, and that the operator does not touch, comes
   back when the cluster does. *)
ConnectionReturns ==
    \A n \in 0..MaxClicks :
        auto /\ text /\ timer /\ clicks = n ~> sock = "up" \/ clicks > n

(* DXClusterWindow.cpp:125, "max 10 attempts": retries without a success in
   between are limited. *)
RetriesEnd == tries <= MaxAttempts
=============================================================================
