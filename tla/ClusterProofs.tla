--------------------------- MODULE ClusterProofs ----------------------------
(***************************************************************************)
(* Proofs about the DX cluster window: its connection (ClusterLink), and   *)
(* what its spots and the highlights of WSJT-X say of the log              *)
(* (WorkedMarks).                                                          *)
(***************************************************************************)
EXTENDS ClusterLink, WorkedMarks, SequenceTheorems, TLAPS

-----------------------------------------------------------------------------
(***************************************************************************)
(* The connection, for any number of clicks, outages and attempts.         *)
(***************************************************************************)

(* The client's flag is that of its socket. *)
FlagIsSocket == isConnected <=> sock = "up"

(* A call sign not yet sent over this connection was not counted, none is
   marked as sent while the connection is made, and the login timer runs only
   over a connection. *)
LoginCounted ==
    /\ isConnected /\ ~loginSent => logins = 0
    /\ sock = "connecting" => ~loginSent
    /\ loginTimer => sock \in {"up", "closing"}

(* The last signal under way agrees with the socket. *)
LastWord ==
    posted # <<>> /\ sock # "closing" =>
        (posted[Len(posted)] = "connected" <=> sock = "up")

(* After the operator's disconnect no retry asks for a connection, and every
   one asked for before has a disconnect behind it. *)
LaterDisconnect(i) == \E j \in (i + 1)..Len(cmds) : cmds[j] = "disconnect"
CutOff ==
    ~wanted =>
        /\ ~auto
        /\ \A i \in 1..Len(cmds) : cmds[i] = "connect" => LaterDisconnect(i)
        /\ LaterDisconnect(0) \/ sock \in {"down", "closing"} \/ closeOnOpen

(* TypeOK in two parts: what is true or false, and the rest. *)
Flags ==
    /\ {auto, text, shown, timer, closeOnOpen, isConnected} \subseteq BOOLEAN
    /\ {loginSent, loginTimer, server, wanted} \subseteq BOOLEAN
Others ==
    /\ count \in 0..MaxAttempts + 1 /\ tries \in 0..MaxAttempts + 1
    /\ cmds \in Seq(Commands) /\ posted \in Seq(Signals)
    /\ sock \in {"down", "connecting", "up", "closing"}
    /\ outages \in 0..MaxOutages /\ clicks \in 0..MaxClicks /\ logins \in Nat

(* The retry timer runs only under m_autoReconnect, and each retry resets the
   count of attempts. *)
NeverCounted == count = 0 /\ (timer => auto)

IInv ==
    /\ TypeOK /\ NeverCounted /\ FlagIsSocket /\ LoginCounted /\ LoginOnce
    /\ StatusCatchesUp /\ LastWord /\ CutOff

-----------------------------------------------------------------------------
(* Queues. *)

LEMMA QueuePut ==
    ASSUME NEW S, NEW q \in Seq(S), NEW s \in S
    PROVE  /\ Append(q, s) \in Seq(S) /\ Len(Append(q, s)) = Len(q) + 1
           /\ Append(q, s) # <<>> /\ Len(q) \in Nat
           /\ \A i \in 1..Len(q) : Append(q, s)[i] = q[i]
           /\ Append(q, s)[Len(q) + 1] = s
    OBVIOUS

LEMMA QueuePutTwo ==
    ASSUME NEW S, NEW q \in Seq(S), NEW s \in S, NEW t \in S
    PROVE  /\ q \o <<s, t>> \in Seq(S) /\ q \o <<s, t>> # <<>>
           /\ Len(q \o <<s, t>>) = Len(q) + 2
           /\ (q \o <<s, t>>)[Len(q) + 2] = t
    OBVIOUS

LEMMA QueueTake ==
    ASSUME NEW S, NEW q \in Seq(S), q # <<>>
    PROVE  /\ Tail(q) \in Seq(S) /\ Len(Tail(q)) = Len(q) - 1
           /\ Head(q) \in S /\ Head(q) = q[1] /\ Len(q) \in Nat \ {0}
           /\ \A i \in 1..Len(q) - 1 : Tail(q)[i] = q[i + 1]
    OBVIOUS

(* What a command taken from the queue leaves of the cut-off. *)
LEMMA TakenCommand ==
    ASSUME TypeOK, CutOff, NEW c, Take(c), ~wanted
    PROVE  /\ cmds' \in Seq(Commands)
           /\ \A i \in 1..Len(cmds') : cmds'[i] = "connect" => LaterDisconnect(i)'
           /\ c = "connect" => LaterDisconnect(0)'
<1> DEFINE r == Tail(cmds)
<1>1. cmds \in Seq(Commands) /\ cmds # <<>> /\ Head(cmds) = c /\ cmds' = r
    BY DEF TypeOK, Take
<1>2. /\ r \in Seq(Commands) /\ Len(r) = Len(cmds) - 1 /\ cmds[1] = c
      /\ Len(cmds) \in Nat \ {0}
      /\ \A i \in 1..Len(cmds) - 1 : r[i] = cmds[i + 1]
    BY <1>1, QueueTake
<1>3. ASSUME NEW i \in 0..Len(r), cmds[i + 1] = "connect"
      PROVE  \E j \in (i + 1)..Len(r) : r[j] = "disconnect"
    <2>1. i + 1 \in 1..Len(cmds)
        BY <1>2
    <2>2. PICK k \in (i + 2)..Len(cmds) : cmds[k] = "disconnect"
        BY <1>2, <1>3, <2>1 DEF CutOff, LaterDisconnect
    <2>3. k - 1 \in (i + 1)..Len(r) /\ r[k - 1] = cmds[k]
        BY <1>2, <2>2
    <2> QED
        BY <2>2, <2>3
<1>4. ASSUME NEW i \in 1..Len(r), r[i] = "connect"
      PROVE  \E j \in (i + 1)..Len(r) : r[j] = "disconnect"
    BY <1>2, <1>3, <1>4
<1>5. c = "connect" => \E j \in 1..Len(r) : r[j] = "disconnect"
    BY <1>2, <1>3
<1> QED
    BY <1>1, <1>2, <1>4, <1>5 DEF LaterDisconnect

(* A command queued behind the others. *)
LEMMA QueuedDisconnect ==
    ASSUME TypeOK, cmds' = Append(cmds, "disconnect")
    PROVE  /\ cmds' \in Seq(Commands)
           /\ \A i \in 0..Len(cmds) : LaterDisconnect(i)'
           /\ cmds'[Len(cmds')] = "disconnect" /\ Len(cmds') = Len(cmds) + 1
<1>1. /\ cmds' \in Seq(Commands) /\ Len(cmds') = Len(cmds) + 1
      /\ cmds'[Len(cmds) + 1] = "disconnect" /\ Len(cmds) \in Nat
    BY QueuePut DEF TypeOK, Commands
<1>2. ASSUME NEW i \in 0..Len(cmds)
      PROVE  \E j \in (i + 1)..Len(cmds') : cmds'[j] = "disconnect"
    <2>1. Len(cmds') \in (i + 1)..Len(cmds')
        BY <1>1
    <2> QED
        BY <1>1, <2>1
<1> QED
    BY <1>1, <1>2 DEF LaterDisconnect

LEMMA RequestTyped ==
    ASSUME TypeOK, Request
    PROVE  cmds' \in Seq(Commands)
    BY QueuePut DEF TypeOK, Request, Commands

(* A signal posted last. *)
LEMMA Spoken ==
    ASSUME TypeOK, NEW s \in Signals, posted' = Append(posted, s),
           sock' # "closing" => (s = "connected" <=> sock' = "up")
    PROVE  posted' \in Seq(Signals) /\ LastWord' /\ StatusCatchesUp'
<1>1. /\ posted' \in Seq(Signals) /\ posted' # <<>>
      /\ posted'[Len(posted')] = s
    BY QueuePut DEF TypeOK
<1> QED
    BY <1>1 DEF LastWord, StatusCatchesUp

LEMMA SpokenTwice ==
    ASSUME TypeOK, NEW s \in Signals, posted' = posted \o <<s, "disconnected">>,
           sock' = "down"
    PROVE  posted' \in Seq(Signals) /\ LastWord' /\ StatusCatchesUp'
<1>1. /\ posted' \in Seq(Signals) /\ posted' # <<>>
      /\ posted'[Len(posted')] = "disconnected"
    BY QueuePutTwo DEF TypeOK, Signals
<1> QED
    BY <1>1 DEF LastWord, StatusCatchesUp

(* Steps that concern neither the queues nor the socket. *)
LEMMA NothingSaid ==
    ASSUME LastWord, StatusCatchesUp, UNCHANGED <<posted, sock, shown>>
    PROVE  LastWord' /\ StatusCatchesUp'
    BY DEF LastWord, StatusCatchesUp

LEMMA NothingAsked ==
    ASSUME CutOff, UNCHANGED <<cmds, wanted>>, auto' => auto,
           sock \in {"down", "closing"} \/ closeOnOpen =>
               sock' \in {"down", "closing"} \/ closeOnOpen'
    PROVE  CutOff'
    BY DEF CutOff, LaterDisconnect

-----------------------------------------------------------------------------
(* One lemma for each kind of step. *)

LEMMA Bounds ==
    /\ MaxAttempts \in Nat \ {0} /\ MaxClicks \in Nat /\ MaxOutages \in Nat
    /\ 0 \in 0..MaxAttempts + 1 /\ 0 \in 0..MaxClicks /\ 0 \in 0..MaxOutages
<1>1. MaxAttempts \in Nat \ {0}
    BY ClusterAssumption DEF ClusterAssumption
<1>2. MaxClicks \in Nat /\ MaxOutages \in Nat
    BY ClusterAssumption, Zenon DEF ClusterAssumption
<1> QED
    BY <1>1, <1>2

LEMMA InitIInv == Init => IInv
<1> SUFFICES ASSUME Init
             PROVE  IInv
    OBVIOUS
<1>1. Flags
    BY Zenon DEF Init, Flags
<1>2. Others
    BY Bounds DEF Init, Others
<1>3. FlagIsSocket /\ LoginCounted /\ StatusCatchesUp
    BY Zenon DEF Init, FlagIsSocket, LoginCounted, StatusCatchesUp
<1>4. LoginOnce /\ LastWord
    BY DEF Init, LoginOnce, LastWord
<1>5. CutOff /\ NeverCounted
    BY DEF Init, CutOff, NeverCounted
<1> QED
    BY <1>1, <1>2, <1>3, <1>4, <1>5 DEF IInv, TypeOK, Flags, Others

LEMMA OperatorIInv ==
    ASSUME IInv, Operator
    PROVE  IInv'
<1> USE Bounds
<1>1. TypeOK /\ UNCHANGED telnet /\ UNCHANGED <<posted, shown, server, outages>>
    BY DEF IInv, Operator, OnConnectClicked, OnDisconnectClicked, EditServer
<1>2. FlagIsSocket' /\ LoginCounted' /\ LoginOnce' /\ LastWord' /\ StatusCatchesUp'
    BY <1>1, NothingSaid
    DEF IInv, telnet, FlagIsSocket, LoginCounted, LoginOnce
<1>3. CASE OnConnectClicked
    <2>1. cmds' \in Seq(Commands)
        BY <1>1, <1>3, RequestTyped DEF OnConnectClicked
    <2>2. Flags'
        BY <1>1, <1>3, Zenon DEF TypeOK, Flags, OnConnectClicked, Reset, telnet
    <2>3. Others'
        BY <1>1, <1>3, <2>1 DEF TypeOK, Others, OnConnectClicked, Click, Reset, telnet
    <2>4. CutOff' /\ NeverCounted'
        BY <1>3 DEF OnConnectClicked, CutOff, NeverCounted, Reset
    <2> QED
        BY <1>2, <2>2, <2>3, <2>4 DEF IInv, TypeOK, Flags, Others
<1>4. CASE OnDisconnectClicked
    <2>1. /\ cmds' \in Seq(Commands)
          /\ \A i \in 0..Len(cmds) : LaterDisconnect(i)'
          /\ cmds'[Len(cmds')] = "disconnect" /\ Len(cmds') = Len(cmds) + 1
        BY <1>1, <1>4, QueuedDisconnect DEF OnDisconnectClicked
    <2>2. Flags'
        BY <1>1, <1>4, Zenon DEF TypeOK, Flags, OnDisconnectClicked, Reset, telnet
    <2>5. Others'
        BY <1>1, <1>4, <2>1 DEF TypeOK, Others, OnDisconnectClicked, Click, Reset, telnet
    <2>3. ~auto' /\ Len(cmds) \in Nat
        BY <1>1, <1>4 DEF OnDisconnectClicked, TypeOK
    <2>4. CutOff' /\ NeverCounted'
        BY <1>4, <2>1, <2>3 DEF CutOff, NeverCounted, OnDisconnectClicked, Reset
    <2> QED
        BY <1>2, <2>2, <2>4, <2>5 DEF IInv, TypeOK, Flags, Others
<1>5. CASE EditServer
    <2>1. TypeOK'
        BY <1>1, <1>5 DEF TypeOK, EditServer, Click, telnet
    <2>2. CutOff'
        BY <1>5, NothingAsked DEF IInv, EditServer, telnet
    <2>3. NeverCounted'
        BY <1>5 DEF IInv, NeverCounted, EditServer
    <2> QED
        BY <1>2, <2>1, <2>2, <2>3 DEF IInv
<1> QED
    BY <1>3, <1>4, <1>5 DEF Operator

LEMMA TimeoutIInv ==
    ASSUME IInv, OnTimeout
    PROVE  IInv'
<1> USE Bounds
<1>1. /\ TypeOK /\ CutOff /\ UNCHANGED telnet
      /\ UNCHANGED <<text, posted, shown, server, outages, clicks, wanted>>
    BY DEF IInv, OnTimeout
<1>2. FlagIsSocket' /\ LoginCounted' /\ LoginOnce' /\ LastWord' /\ StatusCatchesUp'
    BY <1>1, NothingSaid
    DEF IInv, telnet, FlagIsSocket, LoginCounted, LoginOnce
<1>3. auto /\ wanted /\ count = 0
    BY <1>1 DEF IInv, NeverCounted, OnTimeout, CutOff
<1>4. ~(count + 1 > MaxAttempts)
    BY <1>3
<1>5. count' = 0 /\ Request /\ CountTry /\ auto' = auto /\ timer' = timer
    BY <1>3, <1>4, Zenon DEF OnTimeout
<1>6. cmds' \in Seq(Commands)
    BY <1>1, <1>5, RequestTyped
<1>7. tries' \in 0..MaxAttempts + 1
    BY <1>1, <1>5 DEF TypeOK, CountTry
<1>8. TypeOK'
    BY <1>1, <1>5, <1>6, <1>7 DEF TypeOK, telnet
<1>9. CutOff' /\ NeverCounted'
    BY <1>1, <1>3, <1>5 DEF CutOff, NeverCounted
<1> QED
    BY <1>2, <1>8, <1>9 DEF IInv

LEMMA DeliverIInv ==
    ASSUME IInv, Deliver
    PROVE  IInv'
<1> USE Bounds
<1> DEFINE r == Tail(posted)
<1>1. /\ TypeOK /\ UNCHANGED telnet /\ posted \in Seq(Signals)
      /\ UNCHANGED <<text, cmds, server, outages, clicks, wanted>>
      /\ posted # <<>> /\ posted' = r
    BY DEF IInv, Deliver, TypeOK
<1>2. /\ r \in Seq(Signals) /\ Len(r) = Len(posted) - 1
      /\ Head(posted) \in Signals /\ Head(posted) = posted[1]
      /\ Len(posted) \in Nat \ {0}
      /\ \A i \in 1..Len(posted) - 1 : r[i] = posted[i + 1]
    BY <1>1, QueueTake
<1>3. shown' = (Head(posted) = "connected")
    BY <1>2 DEF Deliver, OnTelnetConnected, OnTelnetDisconnected, OnTelnetError, Signals
<1>4. auto' = auto
    BY DEF Deliver, OnTelnetConnected, OnTelnetDisconnected, OnTelnetError
<1>5. timer' \in BOOLEAN /\ count' \in 0..MaxAttempts + 1 /\ tries' \in 0..MaxAttempts + 1
    BY <1>1 DEF TypeOK, Deliver, OnTelnetConnected, OnTelnetDisconnected,
                OnTelnetError, Reset
<1>6. TypeOK'
    BY <1>1, <1>2, <1>3, <1>4, <1>5 DEF TypeOK, telnet
<1>7. FlagIsSocket' /\ LoginCounted' /\ LoginOnce'
    BY <1>1 DEF IInv, telnet, FlagIsSocket, LoginCounted, LoginOnce
<1>8. CutOff'
    BY <1>1, <1>4, NothingAsked DEF IInv, telnet
<1>11. NeverCounted'
    BY <1>4 DEF IInv, NeverCounted, Deliver, OnTelnetConnected,
                OnTelnetDisconnected, OnTelnetError, Reset
<1>9. ASSUME sock' # "closing", r # <<>>
      PROVE  r[Len(r)] = "connected" <=> sock' = "up"
    <2>1. Len(r) \in 1..Len(posted) - 1
        BY <1>2, <1>9
    <2>2. r[Len(r)] = posted[Len(posted)]
        BY <1>2, <2>1
    <2> QED
        BY <1>1, <1>9, <2>2 DEF IInv, LastWord, telnet
<1>10. ASSUME sock' # "closing", r = <<>>
       PROVE  shown' = (sock' = "up")
    <2>1. Len(posted) = 1
        BY <1>2, <1>10
    <2> QED
        BY <1>1, <1>2, <1>3, <1>10, <2>1 DEF IInv, LastWord, telnet
<1> QED
    BY <1>1, <1>6, <1>7, <1>8, <1>9, <1>10, <1>11 DEF IInv, LastWord, StatusCatchesUp

LEMMA ConnectIInv ==
    ASSUME IInv, ConnectToServer
    PROVE  IInv'
<1>1. /\ TypeOK /\ CutOff /\ Take("connect") /\ loginSent' = FALSE
      /\ UNCHANGED window
      /\ UNCHANGED <<server, outages, clicks, wanted, logins, tries>>
    BY DEF IInv, ConnectToServer
<1>0. NeverCounted'
    BY <1>1 DEF IInv, NeverCounted, window
<1>2. cmds' \in Seq(Commands)
    BY <1>1, QueueTake DEF Take, TypeOK
<1>3. CutOff'
    <2>1. CASE wanted
        BY <1>1, <2>1 DEF CutOff
    <2>2. CASE ~wanted
        <3>1. /\ \A i \in 1..Len(cmds') : cmds'[i] = "connect" => LaterDisconnect(i)'
              /\ LaterDisconnect(0)'
            BY <1>1, <2>2, TakenCommand
        <3>2. ~auto'
            BY <1>1, <2>2 DEF CutOff, window
        <3> QED
            BY <3>1, <3>2 DEF CutOff
    <2> QED
        BY <2>1, <2>2
<1>4. CASE sock = "down" /\ sock' = "connecting"
           /\ UNCHANGED <<isConnected, loginTimer, posted>> /\ closeOnOpen' = FALSE
    <2>1. TypeOK'
        BY <1>1, <1>2, <1>4 DEF TypeOK, window
    <2>2. FlagIsSocket' /\ LoginCounted' /\ LoginOnce'
        BY <1>1, <1>4 DEF IInv, FlagIsSocket, LoginCounted, LoginOnce
    <2>3. LastWord' /\ StatusCatchesUp'
        BY <1>1, <1>4 DEF IInv, LastWord, StatusCatchesUp, window
    <2> QED
        BY <1>0, <1>3, <2>1, <2>2, <2>3 DEF IInv
<1>5. CASE isConnected /\ Closed /\ sock' = "connecting" /\ closeOnOpen' = FALSE
           /\ posted' = Append(posted, "disconnected")
    <2>1. posted' \in Seq(Signals) /\ LastWord' /\ StatusCatchesUp'
        BY <1>1, <1>5, Spoken DEF Signals
    <2>2. TypeOK'
        BY <1>1, <1>2, <1>5, <2>1 DEF TypeOK, window, Closed
    <2>3. FlagIsSocket' /\ LoginCounted' /\ LoginOnce'
        BY <1>1, <1>5 DEF IInv, FlagIsSocket, LoginCounted, LoginOnce, Closed
    <2> QED
        BY <1>0, <1>3, <2>1, <2>2, <2>3 DEF IInv
<1>6. CASE isConnected /\ isConnected' = FALSE /\ sock' = "closing"
           /\ posted' = Append(posted, "error") /\ UNCHANGED <<closeOnOpen, loginTimer>>
    <2>1. posted' \in Seq(Signals) /\ LastWord' /\ StatusCatchesUp'
        BY <1>1, <1>6, Spoken DEF Signals
    <2>2. TypeOK'
        BY <1>1, <1>2, <1>6, <2>1 DEF TypeOK, window
    <2>3. FlagIsSocket' /\ LoginCounted' /\ LoginOnce'
        BY <1>1, <1>6 DEF IInv, FlagIsSocket, LoginCounted, LoginOnce
    <2> QED
        BY <1>0, <1>3, <2>1, <2>2, <2>3 DEF IInv
<1>7. CASE sock # "down" /\ ~isConnected /\ posted' = Append(posted, "error")
           /\ UNCHANGED <<sock, closeOnOpen, isConnected, loginTimer>>
    <2>1. sock' # "up"
        BY <1>7 DEF IInv, FlagIsSocket
    <2>2. posted' \in Seq(Signals) /\ LastWord' /\ StatusCatchesUp'
        BY <1>1, <1>7, <2>1, Spoken DEF Signals
    <2>3. TypeOK'
        BY <1>1, <1>2, <1>7, <2>2 DEF TypeOK, window
    <2>4. FlagIsSocket' /\ LoginCounted' /\ LoginOnce'
        BY <1>1, <1>7 DEF IInv, FlagIsSocket, LoginCounted, LoginOnce
    <2> QED
        BY <1>0, <1>3, <2>2, <2>3, <2>4 DEF IInv
<1> QED
    BY <1>4, <1>5, <1>6, <1>7 DEF ConnectToServer

LEMMA DisconnectIInv ==
    ASSUME IInv, DisconnectFromServer
    PROVE  IInv'
<1>1. /\ TypeOK /\ CutOff /\ Take("disconnect") /\ isConnected' = FALSE
      /\ UNCHANGED window
      /\ UNCHANGED <<loginSent, server, outages, clicks, wanted, logins, tries>>
    BY DEF IInv, DisconnectFromServer
<1>0. NeverCounted'
    BY <1>1 DEF IInv, NeverCounted, window
<1>2. cmds' \in Seq(Commands)
    BY <1>1, QueueTake DEF Take, TypeOK
<1>3. sock' \in {"down", "closing"} \/ closeOnOpen'
    BY DEF DisconnectFromServer
<1>4. CutOff'
    <2>1. CASE wanted
        BY <1>1, <2>1 DEF CutOff
    <2>2. CASE ~wanted
        <3>1. \A i \in 1..Len(cmds') : cmds'[i] = "connect" => LaterDisconnect(i)'
            BY <1>1, <2>2, TakenCommand
        <3>2. ~auto'
            BY <1>1, <2>2 DEF CutOff, window
        <3> QED
            BY <1>3, <3>1, <3>2 DEF CutOff
    <2> QED
        BY <2>1, <2>2
<1>5. FlagIsSocket' /\ LoginCounted' /\ LoginOnce'
    BY <1>1 DEF IInv, FlagIsSocket, LoginCounted, LoginOnce, DisconnectFromServer
<1>6. CASE sock = "up" /\ sock' = "down" /\ loginTimer' = FALSE
           /\ posted' = Append(posted, "disconnected") /\ UNCHANGED closeOnOpen
    <2>1. posted' \in Seq(Signals) /\ LastWord' /\ StatusCatchesUp'
        BY <1>1, <1>6, Spoken DEF Signals
    <2>2. TypeOK'
        BY <1>1, <1>2, <1>6, <2>1 DEF TypeOK, window
    <2> QED
        BY <1>0, <1>4, <1>5, <2>1, <2>2 DEF IInv
<1>7. CASE /\ UNCHANGED <<loginTimer, posted>>
           /\ \/ sock = "up" /\ sock' = "closing" /\ UNCHANGED closeOnOpen
              \/ sock = "connecting" /\ closeOnOpen' = TRUE /\ UNCHANGED sock
              \/ sock \in {"down", "closing"} /\ UNCHANGED <<sock, closeOnOpen>>
    <2>1. TypeOK'
        BY <1>1, <1>2, <1>7 DEF TypeOK, window
    <2>2. LastWord' /\ StatusCatchesUp'
        BY <1>1, <1>7 DEF IInv, LastWord, StatusCatchesUp, window
    <2> QED
        BY <1>0, <1>4, <1>5, <2>1, <2>2 DEF IInv
<1> QED
    BY <1>6, <1>7 DEF DisconnectFromServer

LEMMA OpenedIInv ==
    ASSUME IInv, Opened
    PROVE  IInv'
<1>1. /\ TypeOK /\ sock = "connecting" /\ logins' = 0 /\ UNCHANGED window
      /\ UNCHANGED <<loginSent, cmds, server, outages, clicks, wanted, tries>>
    BY DEF IInv, Opened
<1>0. NeverCounted'
    BY <1>1 DEF IInv, NeverCounted, window
<1>2. CASE closeOnOpen
    <2>1. /\ sock' = "down" /\ closeOnOpen' = FALSE /\ Closed
          /\ posted' = posted \o <<"connected", "disconnected">>
        BY <1>2 DEF Opened
    <2>2. posted' \in Seq(Signals) /\ LastWord' /\ StatusCatchesUp'
        BY <1>1, <2>1, SpokenTwice DEF Signals
    <2>3. TypeOK'
        BY <1>1, <2>1, <2>2 DEF TypeOK, window, Closed
    <2>4. FlagIsSocket' /\ LoginCounted' /\ LoginOnce'
        BY <1>1, <2>1 DEF FlagIsSocket, LoginCounted, LoginOnce, Closed
    <2>5. CutOff'
        BY <1>1, <2>1, NothingAsked DEF IInv, window
    <2> QED
        BY <1>0, <2>2, <2>3, <2>4, <2>5 DEF IInv
<1>3. CASE ~closeOnOpen
    <2>1. /\ sock' = "up" /\ isConnected' = TRUE /\ loginTimer' = TRUE
          /\ posted' = Append(posted, "connected") /\ UNCHANGED closeOnOpen
        BY <1>3 DEF Opened
    <2>2. posted' \in Seq(Signals) /\ LastWord' /\ StatusCatchesUp'
        BY <1>1, <2>1, Spoken DEF Signals
    <2>3. TypeOK'
        BY <1>1, <2>1, <2>2 DEF TypeOK, window
    <2>4. FlagIsSocket' /\ LoginCounted' /\ LoginOnce'
        BY <1>1, <2>1 DEF FlagIsSocket, LoginCounted, LoginOnce
    <2>5. CutOff'
        BY <1>1, <1>3, <2>1, NothingAsked DEF IInv, window
    <2> QED
        BY <1>0, <2>2, <2>3, <2>4, <2>5 DEF IInv
<1> QED
    BY <1>1, <1>2, <1>3 DEF TypeOK

LEMMA RefusedIInv ==
    ASSUME IInv, Refused
    PROVE  IInv'
<1>1. /\ TypeOK /\ sock = "connecting" /\ sock' = "down" /\ isConnected' = FALSE
      /\ posted' = Append(posted, "error") /\ UNCHANGED window
      /\ UNCHANGED <<closeOnOpen, loginSent, loginTimer, logins, cmds, server,
                     outages, clicks, wanted, tries>>
    BY DEF IInv, Refused
<1>0. NeverCounted'
    BY <1>1 DEF IInv, NeverCounted, window
<1>2. posted' \in Seq(Signals) /\ LastWord' /\ StatusCatchesUp'
    BY <1>1, Spoken DEF Signals
<1>3. TypeOK'
    BY <1>1, <1>2 DEF TypeOK, window
<1>4. FlagIsSocket' /\ LoginCounted' /\ LoginOnce'
    BY <1>1 DEF IInv, FlagIsSocket, LoginCounted, LoginOnce
<1>5. CutOff'
    BY <1>1, NothingAsked DEF IInv, window
<1> QED
    BY <1>0, <1>2, <1>3, <1>4, <1>5 DEF IInv

LEMMA CloseDoneIInv ==
    ASSUME IInv, CloseDone
    PROVE  IInv'
<1>1. /\ TypeOK /\ sock' = "down" /\ Closed
      /\ posted' = Append(posted, "disconnected") /\ UNCHANGED window
      /\ UNCHANGED <<closeOnOpen, loginSent, logins, cmds, server,
                     outages, clicks, wanted, tries>>
    BY DEF IInv, CloseDone
<1>0. NeverCounted'
    BY <1>1 DEF IInv, NeverCounted, window
<1>2. posted' \in Seq(Signals) /\ LastWord' /\ StatusCatchesUp'
    BY <1>1, Spoken DEF Signals
<1>3. TypeOK'
    BY <1>1, <1>2 DEF TypeOK, window, Closed
<1>4. FlagIsSocket' /\ LoginCounted' /\ LoginOnce'
    BY <1>1 DEF IInv, FlagIsSocket, LoginCounted, LoginOnce, Closed
<1>5. CutOff'
    BY <1>1, NothingAsked DEF IInv, window
<1> QED
    BY <1>0, <1>2, <1>3, <1>4, <1>5 DEF IInv

LEMMA LoginIInv ==
    ASSUME IInv, Login
    PROVE  IInv'
<1>1. /\ TypeOK /\ UNCHANGED window
      /\ UNCHANGED <<sock, closeOnOpen, isConnected, cmds, posted, server,
                     outages, clicks, wanted, tries>>
    BY DEF IInv, Login, Prompted, OnLoginTimeout
<1>0. NeverCounted'
    BY <1>1 DEF IInv, NeverCounted, window
<1>2. loginTimer' = FALSE
    BY DEF Login, Prompted, OnLoginTimeout
<1>3. (~loginSent /\ SendLogin) \/ UNCHANGED <<loginSent, logins>>
    BY <1>1 DEF Login, Prompted, OnLoginTimeout, TypeOK
<1>4. loginSent' \in BOOLEAN /\ logins' \in Nat
    <2>1. CASE ~loginSent /\ SendLogin
        BY <1>1, <2>1 DEF TypeOK, SendLogin
    <2>2. CASE UNCHANGED <<loginSent, logins>>
        BY <1>1, <2>2 DEF TypeOK
    <2> QED
        BY <1>3, <2>1, <2>2
<1>5. TypeOK'
    BY <1>1, <1>2, <1>4 DEF TypeOK, window
<1>6. LastWord' /\ StatusCatchesUp' /\ CutOff'
    BY <1>1, NothingSaid, NothingAsked DEF IInv, window
<1>7. FlagIsSocket'
    BY <1>1 DEF IInv, FlagIsSocket
<1>8. /\ sock' = "connecting" => ~loginSent'
      /\ loginTimer' => sock' \in {"up", "closing"}
    <2>1. sock \in {"up", "closing"}
        BY DEF IInv, LoginCounted, Login, Prompted, OnLoginTimeout
    <2> QED
        BY <1>1, <2>1
<1>9. LoginOnce' /\ (isConnected' /\ ~loginSent' => logins' = 0)
    BY <1>1, <1>3 DEF IInv, LoginCounted, LoginOnce, SendLogin
<1> QED
    BY <1>0, <1>5, <1>6, <1>7, <1>8, <1>9 DEF IInv, LoginCounted

LEMMA ServerIInv ==
    ASSUME IInv, ServerGone \/ ServerBack
    PROVE  IInv'
<1>1. /\ TypeOK /\ UNCHANGED window
      /\ UNCHANGED <<closeOnOpen, loginSent, logins, cmds, clicks, wanted, tries>>
    BY DEF IInv, ServerGone, ServerBack, telnet
<1>4. server' \in BOOLEAN
    BY DEF ServerGone, ServerBack
<1>5. outages' \in 0..MaxOutages
    BY <1>1, Bounds DEF TypeOK, ServerGone, ServerBack
<1>0. NeverCounted'
    BY <1>1 DEF IInv, NeverCounted, window
<1>2. CASE UNCHANGED <<sock, isConnected, loginTimer, posted>>
    <2>1. TypeOK'
        BY <1>1, <1>2, <1>4, <1>5 DEF TypeOK, window
    <2>2. FlagIsSocket' /\ LoginCounted' /\ LoginOnce'
        BY <1>1, <1>2 DEF IInv, FlagIsSocket, LoginCounted, LoginOnce
    <2>3. LastWord' /\ StatusCatchesUp' /\ CutOff'
        BY <1>1, <1>2, NothingSaid, NothingAsked DEF IInv, window
    <2> QED
        BY <1>0, <2>1, <2>2, <2>3 DEF IInv
<1>3. CASE sock' = "down" /\ Closed /\ posted' = posted \o <<"error", "disconnected">>
    <2>1. posted' \in Seq(Signals) /\ LastWord' /\ StatusCatchesUp'
        BY <1>1, <1>3, SpokenTwice DEF Signals
    <2>2. TypeOK'
        BY <1>1, <1>3, <1>4, <1>5, <2>1 DEF TypeOK, window, Closed
    <2>3. FlagIsSocket' /\ LoginCounted' /\ LoginOnce'
        BY <1>1, <1>3 DEF IInv, FlagIsSocket, LoginCounted, LoginOnce, Closed
    <2>4. CutOff'
        BY <1>1, <1>3, NothingAsked DEF IInv, window
    <2> QED
        BY <1>0, <2>1, <2>2, <2>3, <2>4 DEF IInv
<1> QED
    BY <1>2, <1>3 DEF ServerGone, ServerBack, telnet

(* The inductive invariant holds throughout. *)
THEOREM LinkInvariance == Spec => []IInv
<1>1. Init => IInv
    BY InitIInv
<1>2. IInv /\ [Next]_vars => IInv'
    <2> SUFFICES ASSUME IInv, [Next]_vars
                 PROVE  IInv'
        OBVIOUS
    <2>1. CASE Next
        BY <2>1, OperatorIInv, TimeoutIInv, DeliverIInv, ConnectIInv,
           DisconnectIInv, OpenedIInv, RefusedIInv, CloseDoneIInv, LoginIInv,
           ServerIInv
        DEF Next, Serve, Socket
    <2>2. CASE UNCHANGED vars
        BY <2>2
        DEF vars, window, telnet, IInv, TypeOK, FlagIsSocket, LoginCounted,
            LoginOnce, StatusCatchesUp, LastWord, CutOff, LaterDisconnect,
            NeverCounted
    <2> QED
        BY <2>1, <2>2
<1> QED
    BY <1>1, <1>2, PTL DEF Spec

(* The variables of ClusterLink keep their types; the attempt counter of
   ReconnectionManager stays below its limit. *)
THEOREM ClusterTypes == Spec => []TypeOK
<1>1. IInv => TypeOK
    BY DEF IInv
<1> QED
    BY <1>1, LinkInvariance, PTL

(* A disconnect by the operator is not undone by what was queued before it
   (DXClusterWindow::onDisconnectClicked, TelnetClient::disconnectFromServer). *)
THEOREM DisconnectStays == Spec => []DisconnectHolds
<1>1. IInv => DisconnectHolds
    <2> SUFFICES ASSUME IInv, ~wanted, cmds = <<>>
                 PROVE  sock \in {"down", "closing"} \/ closeOnOpen
        BY DEF DisconnectHolds
    <2>1. ~LaterDisconnect(0)
        BY DEF LaterDisconnect
    <2> QED
        BY <2>1 DEF IInv, CutOff
<1> QED
    BY <1>1, LinkInvariance, PTL

(* The window shows the socket's state when no signal is under way. *)
THEOREM StatusIsTrue == Spec => []StatusCatchesUp
<1>1. IInv => StatusCatchesUp
    BY DEF IInv
<1> QED
    BY <1>1, LinkInvariance, PTL

(* The call sign is sent once over a connection (TelnetClient::sendLogin). *)
THEOREM OneLogin == Spec => []LoginOnce
<1>1. IInv => LoginOnce
    BY DEF IInv
<1> QED
    BY <1>1, LinkInvariance, PTL

(* The attempts are never counted, since every retry resets the counter: the
   limit of ReconnectionManager is out of reach, whatever it is. *)
THEOREM LimitOutOfReach == Spec => [](count < MaxAttempts)
<1>1. IInv => count < MaxAttempts
    BY Bounds DEF IInv, NeverCounted
<1> QED
    BY <1>1, LinkInvariance, PTL

-----------------------------------------------------------------------------
(***************************************************************************)
(* The worked stations, for any contests, contacts and bounds.             *)
(***************************************************************************)

LEMMA NoneFacts ==
  /\ None \notin Contests /\ None \notin Typed /\ None \notin Automatic /\ None \notin Contacts
  /\ Typed \cap Automatic = {} /\ MaxOpens \in Nat /\ MaxConnects \in Nat
BY NoneAssumption, KindsAssumption, MarksBoundsAssumption DEF Contacts

(* MarksTypeOK in two parts: the flags and the rest.                       *)
MarksFlagsOK ==
  /\ services \in BOOLEAN /\ spotsTold \in BOOLEAN /\ highlightsTold \in BOOLEAN
  /\ pending \in BOOLEAN \cup {None}

MarksDataOK ==
  /\ active \in Contests \cup {None} /\ dbFile \in Contests \cup {None}
  /\ rows \in [Contests -> SUBSET Contacts]
  /\ saved \in Typed \cup {None} /\ warnings \in Seq(Typed)
  /\ stage \in {"none", "starting", "asked", "initialized", "ready"}
  /\ spots \in Worker /\ highlights \in Worker
  /\ used \subseteq Contacts /\ opens \in 0 .. MaxOpens /\ connects \in 0 .. MaxConnects
  /\ refused \subseteq Typed

LEMMA MarksTypeParts ==
  /\ MarksTypeOK <=> MarksFlagsOK /\ MarksDataOK
  /\ MarksTypeOK' <=> MarksFlagsOK' /\ MarksDataOK'
BY DEF MarksTypeOK, MarksFlagsOK, MarksDataOK

(* A contest is active with its own file open or none; a contact waiting   *)
(* to be posted is in the log and one under a warning is refused; a worker *)
(* is told only under a contest, the spot worker only if there is one.     *)
SessionInv ==
  /\ active # None => dbFile \in {active, None}
  /\ saved # None => active # None /\ saved \in rows[active]
  /\ \A i \in DOMAIN warnings : warnings[i] \in refused
  /\ highlightsTold => active # None
  /\ spotsTold => active # None /\ stage # "none"

(* The spot worker is asked to open a file once, and is ready only after.  *)
IsOpen(m) == m.kind = "open"
OpenInv ==
  /\ stage # "asked" => \A i \in DOMAIN spots.queue : ~IsOpen(spots.queue[i])
  /\ \A i, j \in DOMAIN spots.queue :
       IsOpen(spots.queue[i]) /\ IsOpen(spots.queue[j]) => i = j

(* Until then the active contest waits in the window.                      *)
PendingInv ==
  spotsTold /\ stage \in {"starting", "asked", "initialized"} => pending = TRUE

(* After its i-th message a queue has only contacts of a set.              *)
AddsAfter(queue, i, contacts) ==
  \A j \in DOMAIN queue : j > i => queue[j].kind = "add" /\ queue[j].qso \in contacts

(* What a worker is told when a contest is open.                           *)
ContextOn == Context(TRUE)

(* The context of the active contest is the i-th message to the worker,    *)
(* the 0-th being the one handled last.                                    *)
SpotsContextAt(i) ==
  /\ AddsAfter(spots.queue, i, rows[active] \cup refused)
  /\ i > 0 => spots.queue[i] = ContextOn
  /\ i = 0 /\ spots.file = active =>
       /\ rows[active] \cap Typed \subseteq spots.cache \cup Coming(spots) \cup {saved}
       /\ spots.cache \subseteq rows[active] \cup refused
SpotsInv ==
  spotsTold /\ stage = "ready" =>
    \E i \in 0 .. Len(spots.queue) : SpotsContextAt(i)

(* WSJT-X's worker is given the file of the contest with the context.      *)
HighlightsContextAt(i) ==
  /\ AddsAfter(highlights.queue, i, rows[active])
  /\ i > 0 => highlights.queue[i] = ContextOn
  /\ i > 1 => highlights.queue[i - 1] = Open(active)
  /\ i <= 1 => highlights.file \in {active, None}
  /\ i = 0 => highlights.cache \subseteq rows[active]
  /\ i = 0 /\ highlights.file = active =>
       rows[active] \cap Automatic \subseteq highlights.cache \cup Coming(highlights)
HighlightsInv ==
  highlightsTold => \E i \in 0 .. Len(highlights.queue) : HighlightsContextAt(i)

MarksInv ==
  MarksTypeOK /\ SessionInv /\ OpenInv /\ PendingInv /\ SpotsInv /\ HighlightsInv

LEMMA MarksParts ==
  ASSUME MarksInv
  PROVE  /\ MarksFlagsOK /\ MarksDataOK /\ SessionInv /\ OpenInv /\ PendingInv
         /\ SpotsInv /\ HighlightsInv
BY MarksTypeParts DEF MarksInv

-----------------------------------------------------------------------------
(* Messages and queues                                                     *)

LEMMA MessageFacts ==
  /\ \A f \in Contests \cup {None} :
       Open(f) \in Message /\ Open(f).kind = "open" /\ Open(f).file = f
  /\ \A on \in BOOLEAN : Context(on) \in Message /\ Context(on).kind = "context"
  /\ ContextOn \in Message /\ ContextOn.kind = "context" /\ ContextOn.on
  /\ \A q \in Contacts : Add(q) \in Message /\ Add(q).kind = "add" /\ Add(q).qso = q
BY DEF Message, Open, Context, ContextOn, Add

LEMMA KindFacts ==
  ASSUME NEW m \in Message
  PROVE  /\ m.kind \in {"open", "context", "add"}
         /\ m.kind = "open" => m.file \in Contests \cup {None}
         /\ m.kind = "add" => m.qso \in Contacts /\ m = Add(m.qso)
BY DEF Message, Add

LEMMA WorkerFacts ==
  ASSUME NEW w \in Worker
  PROVE  /\ w.file \in Contests \cup {None} /\ w.cache \subseteq Contacts
         /\ w.queue \in Seq(Message) /\ Len(w.queue) \in Nat
         /\ DOMAIN w.queue = 1 .. Len(w.queue)
         /\ \A i \in DOMAIN w.queue : w.queue[i] \in Message
<1>1. /\ w.file \in Contests \cup {None} /\ w.cache \subseteq Contacts
      /\ w.queue \in Seq(Message)
  BY DEF Worker
<1> QED
  BY <1>1

(* What is posted goes to the end of the queue and changes nothing else.   *)
LEMMA PostedFacts ==
  ASSUME NEW w \in Worker, NEW messages \in Seq(Message)
  PROVE  /\ Posted(w, messages) \in Worker
         /\ Posted(w, messages).file = w.file /\ Posted(w, messages).cache = w.cache
         /\ Posted(w, messages).queue = w.queue \o messages
         /\ Len(Posted(w, messages).queue) = Len(w.queue) + Len(messages)
         /\ \A i \in 1 .. Len(w.queue) : Posted(w, messages).queue[i] = w.queue[i]
         /\ \A i \in 1 .. Len(messages) :
              Posted(w, messages).queue[Len(w.queue) + i] = messages[i]
<1>1. w.queue \o messages \in Seq(Message)
  BY WorkerFacts
<1>2. /\ Posted(w, messages) \in Worker
      /\ Posted(w, messages).file = w.file /\ Posted(w, messages).cache = w.cache
      /\ Posted(w, messages).queue = w.queue \o messages
  BY <1>1 DEF Posted, Worker
<1>3. w.queue \in Seq(Message)
  BY WorkerFacts
<1> QED
  BY <1>2, <1>3

(* The same, of a queue before and after.                                  *)
LEMMA QueueAfterPost ==
  ASSUME NEW w \in Worker, NEW messages \in Seq(Message), NEW p, p = Posted(w, messages)
  PROVE  /\ p \in Worker /\ p.file = w.file /\ p.cache = w.cache
         /\ Len(w.queue) \in Nat /\ Len(messages) \in Nat
         /\ Len(p.queue) = Len(w.queue) + Len(messages)
         /\ DOMAIN w.queue = 1 .. Len(w.queue) /\ DOMAIN p.queue = 1 .. Len(p.queue)
         /\ \A i \in 1 .. Len(w.queue) : p.queue[i] = w.queue[i]
         /\ \A i \in 1 .. Len(messages) : p.queue[Len(w.queue) + i] = messages[i]
<1>1. /\ p \in Worker /\ p.file = w.file /\ p.cache = w.cache
      /\ Len(p.queue) = Len(w.queue) + Len(messages)
      /\ \A i \in 1 .. Len(w.queue) : p.queue[i] = w.queue[i]
      /\ \A i \in 1 .. Len(messages) : p.queue[Len(w.queue) + i] = messages[i]
  BY PostedFacts
<1>2. /\ Len(w.queue) \in Nat /\ DOMAIN w.queue = 1 .. Len(w.queue)
      /\ DOMAIN p.queue = 1 .. Len(p.queue)
  BY <1>1, WorkerFacts
<1> QED
  BY <1>1, <1>2

(* A message that is handled leaves the queue; what it does to the file    *)
(* and the memory depends on its kind.                                     *)
LEMMA ReceivedFacts ==
  ASSUME NEW w \in Worker, w.queue # <<>>, rows \in [Contests -> SUBSET Contacts],
         NEW r, r \in Received(w)
  PROVE  /\ r \in Worker
         /\ r.queue = Tail(w.queue)
         /\ Len(r.queue) = Len(w.queue) - 1
         /\ \A i \in 1 .. Len(w.queue) - 1 : r.queue[i] = w.queue[i + 1]
         /\ Head(w.queue) = w.queue[1] /\ w.queue[1] \in Message /\ Len(w.queue) > 0
         /\ Head(w.queue).kind = "open" =>
              r.file \in {Head(w.queue).file, None} /\ r.cache = w.cache
         /\ Head(w.queue).kind = "context" =>
              /\ r.file = w.file
              /\ r.cache = Rebuilt(w, Head(w.queue).on)
         /\ Head(w.queue).kind = "add" =>
              /\ r.file = w.file
              /\ r.cache = w.cache \cup {Head(w.queue).qso}
<1> DEFINE m == Head(w.queue)
           v == [w EXCEPT !.queue = Tail(@)]
<1>1. w.queue \in Seq(Message)
  BY WorkerFacts
<1>2. /\ m \in Message /\ Tail(w.queue) \in Seq(Message) /\ m = w.queue[1]
      /\ Len(Tail(w.queue)) = Len(w.queue) - 1 /\ Len(w.queue) > 0
      /\ \A i \in 1 .. Len(w.queue) - 1 : Tail(w.queue)[i] = w.queue[i + 1]
  BY <1>1
<1>3. /\ v \in Worker /\ v.file = w.file /\ v.cache = w.cache
      /\ v.queue = Tail(w.queue)
  BY <1>2 DEF Worker
<1>4. Rebuilt(w, m.on) \subseteq Contacts
  BY WorkerFacts DEF Rebuilt
<1>5. Received(w) =
        CASE m.kind = "open"    -> {[v EXCEPT !.file = f] : f \in {m.file, None}}
          [] m.kind = "context" -> {[v EXCEPT !.cache = Rebuilt(w, m.on)]}
          [] m.kind = "add"     -> {[v EXCEPT !.cache = @ \cup {m.qso}]}
  BY DEF Received
<1> HIDE DEF m, v
<1>6. CASE m.kind = "open"
  <2>1. PICK f \in {m.file, None} : r = [v EXCEPT !.file = f]
    BY <1>5, <1>6
  <2>2. /\ r \in Worker /\ r.file = f
        /\ r.cache = w.cache /\ r.queue = Tail(w.queue)
    BY <1>2, <1>3, <1>6, <2>1, KindFacts DEF Worker
  <2> QED
    BY <1>2, <1>6, <2>2 DEF m
<1>7. CASE m.kind = "context"
  <2>1. r = [v EXCEPT !.cache = Rebuilt(w, m.on)]
    BY <1>5, <1>7
  <2>2. /\ r \in Worker /\ r.file = w.file
        /\ r.cache = Rebuilt(w, m.on) /\ r.queue = Tail(w.queue)
    BY <1>3, <1>4, <2>1 DEF Worker
  <2> QED
    BY <1>2, <1>7, <2>2 DEF m
<1>8. CASE m.kind = "add"
  <2>1. r = [v EXCEPT !.cache = @ \cup {m.qso}]
    BY <1>5, <1>8
  <2>2. /\ r \in Worker /\ r.file = w.file
        /\ r.cache = w.cache \cup {m.qso} /\ r.queue = Tail(w.queue)
    BY <1>2, <1>3, <1>8, <2>1, KindFacts DEF Worker
  <2> QED
    BY <1>2, <1>8, <2>2 DEF m
<1> QED
  BY <1>2, <1>6, <1>7, <1>8, KindFacts

(* What is coming, is coming or known after any message.                   *)
LEMMA ComingAfterPost ==
  ASSUME NEW w \in Worker, NEW messages \in Seq(Message)
  PROVE  /\ Coming(w) \subseteq Coming(Posted(w, messages))
         /\ \A q \in Contacts, i \in 1 .. Len(messages) :
              messages[i] = Add(q) => q \in Coming(Posted(w, messages))
<1> DEFINE p == Posted(w, messages)
<1>1. p \in Worker /\ Len(p.queue) = Len(w.queue) + Len(messages)
  BY PostedFacts
<1>2. /\ DOMAIN p.queue = 1 .. Len(p.queue) /\ DOMAIN w.queue = 1 .. Len(w.queue)
      /\ Len(w.queue) \in Nat /\ Len(messages) \in Nat
  BY <1>1, WorkerFacts
<1>3. \A i \in 1 .. Len(w.queue) : i \in DOMAIN p.queue /\ p.queue[i] = w.queue[i]
  BY <1>1, <1>2, PostedFacts
<1>4. \A i \in 1 .. Len(messages) :
        Len(w.queue) + i \in DOMAIN p.queue /\ p.queue[Len(w.queue) + i] = messages[i]
  BY <1>1, <1>2, PostedFacts
<1> QED
  BY <1>2, <1>3, <1>4 DEF Coming

LEMMA ComingAfterReceipt ==
  ASSUME NEW w \in Worker, w.queue # <<>>, rows \in [Contests -> SUBSET Contacts],
         Head(w.queue).kind = "add", NEW r, r \in Received(w)
  PROVE  w.cache \cup Coming(w) \subseteq r.cache \cup Coming(r)
<1>1. /\ r \in Worker /\ Len(r.queue) = Len(w.queue) - 1 /\ Head(w.queue) = w.queue[1]
      /\ w.queue[1] \in Message
      /\ \A i \in 1 .. Len(w.queue) - 1 : r.queue[i] = w.queue[i + 1]
      /\ r.cache = w.cache \cup {Head(w.queue).qso}
  BY ReceivedFacts
<1>2. /\ DOMAIN r.queue = 1 .. Len(r.queue) /\ DOMAIN w.queue = 1 .. Len(w.queue)
      /\ Len(w.queue) \in Nat
  BY <1>1, WorkerFacts
<1>3. ASSUME NEW q \in Contacts, NEW i \in DOMAIN w.queue, w.queue[i] = Add(q)
      PROVE  q \in r.cache \cup Coming(r)
  <2>1. CASE i = 1
    BY <1>1, <1>3, <2>1, MessageFacts
  <2>2. CASE i > 1
    <3>1. i - 1 \in DOMAIN r.queue /\ r.queue[i - 1] = w.queue[i]
      BY <1>1, <1>2, <1>3, <2>2
    <3> QED
      BY <1>3, <3>1 DEF Coming
  <2> QED
    BY <1>2, <2>1, <2>2
<1>4. Coming(w) \subseteq r.cache \cup Coming(r)
  BY <1>3 DEF Coming
<1> QED
  BY <1>1, <1>4
-----------------------------------------------------------------------------
(* What keeps each part of the invariant                                   *)

(* A step that tells the spot worker nothing: the log may only grow, by    *)
(* contacts of WSJT-X or by the one that waits to be posted.               *)
LEMMA SpotsStay ==
  ASSUME SpotsInv,
         (spotsTold /\ stage = "ready")' =>
           /\ spotsTold /\ stage = "ready" /\ spots' = spots /\ active' = active
           /\ rows[active] \subseteq rows'[active] /\ refused \subseteq refused'
           /\ rows'[active] \cap Typed \subseteq (rows[active] \cap Typed) \cup {saved'}
           /\ saved \in {None, saved'}
  PROVE  SpotsInv'
<1> SUFFICES ASSUME (spotsTold /\ stage = "ready")'
             PROVE  \E i \in 0 .. Len(spots.queue) : SpotsContextAt(i)'
  BY DEF SpotsInv
<1>1. PICK i \in 0 .. Len(spots.queue) : SpotsContextAt(i)
  BY DEF SpotsInv
<1>2. SpotsContextAt(i)'
  <2>1. AddsAfter(spots.queue, i, rows[active] \cup refused)'
    BY <1>1 DEF SpotsContextAt, AddsAfter
  <2>2. ASSUME i = 0, spots.file = active
        PROVE  /\ rows'[active] \cap Typed
                    \subseteq spots.cache \cup Coming(spots) \cup {saved'}
               /\ spots.cache \subseteq rows'[active] \cup refused'
    <3>1. None \notin Typed
      BY NoneFacts
    <3> QED
      BY <1>1, <2>2, <3>1 DEF SpotsContextAt
  <2> QED
    BY <1>1, <2>1, <2>2 DEF SpotsContextAt
<1> QED
  BY <1>2

LEMMA HighlightsStay ==
  ASSUME HighlightsInv,
         highlightsTold' =>
           /\ highlightsTold /\ highlights' = highlights /\ active' = active
           /\ rows[active] \subseteq rows'[active]
           /\ rows'[active] \cap Automatic \subseteq rows[active]
  PROVE  HighlightsInv'
<1> SUFFICES ASSUME highlightsTold'
             PROVE  \E i \in 0 .. Len(highlights.queue) : HighlightsContextAt(i)'
  BY DEF HighlightsInv
<1>1. PICK i \in 0 .. Len(highlights.queue) : HighlightsContextAt(i)
  BY DEF HighlightsInv
<1>2. HighlightsContextAt(i)'
  <2>1. AddsAfter(highlights.queue, i, rows[active])'
    BY <1>1 DEF HighlightsContextAt, AddsAfter
  <2>2. /\ i = 0 => highlights.cache \subseteq rows'[active]
        /\ i = 0 /\ highlights.file = active =>
             rows'[active] \cap Automatic \subseteq highlights.cache \cup Coming(highlights)
    BY <1>1 DEF HighlightsContextAt
  <2> QED
    BY <1>1, <2>1, <2>2 DEF HighlightsContextAt
<1> QED
  BY <1>2

(* The workers' queues before and after.                                   *)
LEMMA SpotsPosted ==
  ASSUME MarksDataOK, NEW messages \in Seq(Message), spots' = Posted(spots, messages)
  PROVE  /\ spots' \in Worker /\ spots'.file = spots.file /\ spots'.cache = spots.cache
         /\ Len(spots.queue) \in Nat /\ Len(messages) \in Nat
         /\ Len(spots'.queue) = Len(spots.queue) + Len(messages)
         /\ DOMAIN spots.queue = 1 .. Len(spots.queue)
         /\ DOMAIN spots'.queue = 1 .. Len(spots'.queue)
         /\ \A i \in 1 .. Len(spots.queue) : spots'.queue[i] = spots.queue[i]
         /\ \A i \in 1 .. Len(messages) : spots'.queue[Len(spots.queue) + i] = messages[i]
         /\ Coming(spots) \subseteq Coming(spots')
<1>1. spots \in Worker
  BY DEF MarksDataOK
<1>2. spots' \in Worker /\ spots'.file = spots.file /\ spots'.cache = spots.cache
  BY <1>1, QueueAfterPost
<1>3. /\ Len(spots.queue) \in Nat /\ Len(messages) \in Nat
      /\ Len(spots'.queue) = Len(spots.queue) + Len(messages)
  BY <1>1, QueueAfterPost
<1>4. DOMAIN spots.queue = 1 .. Len(spots.queue)
  BY <1>1, QueueAfterPost
<1>5. DOMAIN spots'.queue = 1 .. Len(spots'.queue)
  BY <1>1, QueueAfterPost
<1>6. \A i \in 1 .. Len(spots.queue) : spots'.queue[i] = spots.queue[i]
  BY <1>1, QueueAfterPost
<1>7. \A i \in 1 .. Len(messages) : spots'.queue[Len(spots.queue) + i] = messages[i]
  BY <1>1, QueueAfterPost
<1>8. Coming(spots) \subseteq Coming(spots')
  BY <1>1, ComingAfterPost
<1> QED
  BY <1>2, <1>3, <1>4, <1>5, <1>6, <1>7, <1>8

LEMMA HighlightsPosted ==
  ASSUME MarksDataOK, NEW messages \in Seq(Message), highlights' = Posted(highlights, messages)
  PROVE  /\ highlights' \in Worker /\ highlights'.file = highlights.file /\ highlights'.cache = highlights.cache
         /\ Len(highlights.queue) \in Nat /\ Len(messages) \in Nat
         /\ Len(highlights'.queue) = Len(highlights.queue) + Len(messages)
         /\ DOMAIN highlights.queue = 1 .. Len(highlights.queue)
         /\ DOMAIN highlights'.queue = 1 .. Len(highlights'.queue)
         /\ \A i \in 1 .. Len(highlights.queue) : highlights'.queue[i] = highlights.queue[i]
         /\ \A i \in 1 .. Len(messages) : highlights'.queue[Len(highlights.queue) + i] = messages[i]
         /\ Coming(highlights) \subseteq Coming(highlights')
<1>1. highlights \in Worker
  BY DEF MarksDataOK
<1>2. highlights' \in Worker /\ highlights'.file = highlights.file /\ highlights'.cache = highlights.cache
  BY <1>1, QueueAfterPost
<1>3. /\ Len(highlights.queue) \in Nat /\ Len(messages) \in Nat
      /\ Len(highlights'.queue) = Len(highlights.queue) + Len(messages)
  BY <1>1, QueueAfterPost
<1>4. DOMAIN highlights.queue = 1 .. Len(highlights.queue)
  BY <1>1, QueueAfterPost
<1>5. DOMAIN highlights'.queue = 1 .. Len(highlights'.queue)
  BY <1>1, QueueAfterPost
<1>6. \A i \in 1 .. Len(highlights.queue) : highlights'.queue[i] = highlights.queue[i]
  BY <1>1, QueueAfterPost
<1>7. \A i \in 1 .. Len(messages) : highlights'.queue[Len(highlights.queue) + i] = messages[i]
  BY <1>1, QueueAfterPost
<1>8. Coming(highlights) \subseteq Coming(highlights')
  BY <1>1, ComingAfterPost
<1> QED
  BY <1>2, <1>3, <1>4, <1>5, <1>6, <1>7, <1>8

(* Messages that are no request to open a file.                            *)
LEMMA OpensStay ==
  ASSUME MarksDataOK, OpenInv, stage # "asked" => stage' # "asked",
         stage' # "asked" => stage # "asked",
         NEW messages \in Seq(Message), spots' = Posted(spots, messages),
         \A i \in 1 .. Len(messages) : ~IsOpen(messages[i])
  PROVE  OpenInv'
<1>2. /\ DOMAIN spots.queue = 1 .. Len(spots.queue) /\ Len(spots.queue) \in Nat
      /\ DOMAIN spots'.queue = 1 .. Len(spots.queue) + Len(messages)
      /\ Len(messages) \in Nat
      /\ \A i \in 1 .. Len(spots.queue) : spots'.queue[i] = spots.queue[i]
      /\ \A i \in 1 .. Len(messages) : spots'.queue[Len(spots.queue) + i] = messages[i]
  BY SpotsPosted
<1>3. ASSUME NEW i \in DOMAIN spots'.queue, IsOpen(spots'.queue[i])
      PROVE  i \in DOMAIN spots.queue /\ IsOpen(spots.queue[i])
  <2>1. CASE i > Len(spots.queue)
    <3>1. i - Len(spots.queue) \in 1 .. Len(messages)
      BY <1>2, <1>3, <2>1
    <3>2. spots'.queue[i] = messages[i - Len(spots.queue)]
      BY <1>2, <3>1
    <3> QED
      BY <1>3, <3>1, <3>2
  <2>2. CASE i <= Len(spots.queue)
    BY <1>2, <1>3, <2>2
  <2> QED
    BY <1>2, <2>1, <2>2
<1> QED
  BY <1>3 DEF OpenInv

(* A contact goes to the spot worker that is in the log or was refused.    *)
LEMMA SpotsAdd ==
  ASSUME MarksDataOK, SpotsInv, NEW q \in Contacts, spots' = Posted(spots, <<Add(q)>>),
         spotsTold => q \in rows[active] \cup refused,
         UNCHANGED <<active, rows, refused, spotsTold, stage>>,
         saved' = saved \/ saved = q
  PROVE  SpotsInv'
<1> SUFFICES ASSUME (spotsTold /\ stage = "ready")'
             PROVE  \E i \in 0 .. Len(spots'.queue) : SpotsContextAt(i)'
  BY DEF SpotsInv
<1>1. /\ <<Add(q)>> \in Seq(Message)
      /\ Len(<<Add(q)>>) = 1 /\ <<Add(q)>>[1] = Add(q)
  BY MessageFacts
<1>2. /\ spots'.file = spots.file /\ spots'.cache = spots.cache
      /\ DOMAIN spots.queue = 1 .. Len(spots.queue) /\ Len(spots.queue) \in Nat
      /\ Len(spots'.queue) = Len(spots.queue) + 1
      /\ DOMAIN spots'.queue = 1 .. Len(spots.queue) + 1
      /\ \A i \in 1 .. Len(spots.queue) : spots'.queue[i] = spots.queue[i]
      /\ spots'.queue[Len(spots.queue) + 1] = Add(q)
  <2> DEFINE messages == <<Add(q)>>
  <2>1. messages \in Seq(Message) /\ spots' = Posted(spots, messages) /\ 1 \in 1 .. Len(messages)
    BY <1>1
  <2>2. Len(messages) = 1 /\ messages[1] = Add(q)
    BY <1>1
  <2> HIDE DEF messages
  <2>3. /\ spots'.file = spots.file /\ spots'.cache = spots.cache
        /\ DOMAIN spots.queue = 1 .. Len(spots.queue) /\ Len(spots.queue) \in Nat
    BY <2>1, SpotsPosted
  <2>4. Len(spots'.queue) = Len(spots.queue) + 1
    BY <2>1, <2>2, SpotsPosted
  <2>5. DOMAIN spots'.queue = 1 .. Len(spots'.queue)
    BY <2>1, SpotsPosted
  <2>6. \A i \in 1 .. Len(spots.queue) : spots'.queue[i] = spots.queue[i]
    BY <2>1, SpotsPosted
  <2>7. spots'.queue[Len(spots.queue) + 1] = Add(q)
    BY <2>1, <2>2, SpotsPosted
  <2> QED
    BY <2>3, <2>4, <2>5, <2>6, <2>7
<1>3. PICK i \in 0 .. Len(spots.queue) : SpotsContextAt(i)
  BY DEF SpotsInv
<1>4. AddsAfter(spots.queue, i, rows[active] \cup refused)'
  <2> SUFFICES ASSUME NEW j \in DOMAIN spots'.queue, j > i
               PROVE  /\ spots'.queue[j].kind = "add"
                      /\ spots'.queue[j].qso \in rows[active] \cup refused
    BY DEF AddsAfter
  <2>1. CASE j = Len(spots.queue) + 1
    BY <1>2, <2>1, MessageFacts
  <2>2. CASE j # Len(spots.queue) + 1
    <3>1. j \in DOMAIN spots.queue /\ spots'.queue[j] = spots.queue[j]
      BY <1>2, <2>2
    <3> QED
      BY <1>3, <3>1 DEF SpotsContextAt, AddsAfter
  <2> QED
    BY <2>1, <2>2
<1>5. i > 0 => spots'.queue[i] = ContextOn
  <2>1. i > 0 => i \in 1 .. Len(spots.queue)
    BY <1>2
  <2> QED
    BY <1>2, <1>3, <2>1 DEF SpotsContextAt
<1>6. Coming(spots) \cup {q} \subseteq Coming(spots')
  <2>1. Coming(spots) \subseteq Coming(spots')
    BY <1>1, SpotsPosted
  <2>2. q \in Coming(spots')
    <3>1. Len(spots.queue) + 1 \in DOMAIN spots'.queue
      BY <1>2
    <3> QED
      BY <1>2, <3>1 DEF Coming
  <2> QED
    BY <2>1, <2>2
<1>7. i = 0 /\ spots'.file = active =>
        /\ rows[active] \cap Typed \subseteq spots'.cache \cup Coming(spots') \cup {saved'}
        /\ spots'.cache \subseteq rows[active] \cup refused
  BY <1>2, <1>3, <1>6 DEF SpotsContextAt
<1>8. SpotsContextAt(i)'
  BY <1>4, <1>5, <1>7 DEF SpotsContextAt
<1>9. i \in 0 .. Len(spots'.queue)
  BY <1>2
<1> QED
  BY <1>8, <1>9

(* The spot worker is told that the contest is open.                       *)
LEMMA SpotsContext ==
  ASSUME MarksDataOK, NEW messages \in Seq(Message), messages # <<>>,
         messages[Len(messages)] = ContextOn, spots' = Posted(spots, messages)
  PROVE  SpotsInv'
<1>1. Len(messages) \in Nat /\ Len(messages) > 0
  OBVIOUS
<1>2. /\ Len(spots.queue) \in Nat
      /\ Len(spots'.queue) = Len(spots.queue) + Len(messages)
      /\ DOMAIN spots'.queue = 1 .. Len(spots'.queue)
      /\ spots'.queue[Len(spots.queue) + Len(messages)] = ContextOn
  <2>1. Len(messages) \in 1 .. Len(messages)
    BY <1>1
  <2>2. Len(spots.queue) \in Nat /\ Len(spots'.queue) = Len(spots.queue) + Len(messages)
    BY SpotsPosted
  <2>3. DOMAIN spots'.queue = 1 .. Len(spots'.queue)
    BY SpotsPosted
  <2>4. spots'.queue[Len(spots.queue) + Len(messages)] = messages[Len(messages)]
    BY <2>1, SpotsPosted
  <2> QED
    BY <2>2, <2>3, <2>4
<1>3. PICK i \in 0 .. Len(spots'.queue) : /\ i = Len(spots'.queue)
                                           /\ i > 0 /\ spots'.queue[i] = ContextOn
  <2>1. /\ Len(spots'.queue) \in 0 .. Len(spots'.queue) /\ Len(spots'.queue) > 0
        /\ spots'.queue[Len(spots'.queue)] = ContextOn
    BY <1>1, <1>2
  <2> QED
    BY <2>1
<1>4. \A j \in DOMAIN spots'.queue : ~(j > i)
  BY <1>2, <1>3
<1>5. SpotsContextAt(i)'
  BY <1>3, <1>4 DEF SpotsContextAt, AddsAfter
<1> QED
  BY <1>3, <1>5 DEF SpotsInv

-----------------------------------------------------------------------------
(* The initial states                                                      *)

LEMMA MarksInitInv == MarksInit => MarksInv
<1> SUFFICES ASSUME MarksInit PROVE MarksInv
  OBVIOUS
<1>1. NewWorker \in Worker /\ NewWorker.queue = <<>>
  BY DEF NewWorker, Worker
<1>2. MarksFlagsOK
  BY DEF MarksInit, MarksFlagsOK
<1>3. MarksDataOK
  BY <1>1, NoneFacts DEF MarksInit, MarksDataOK
<1>4. SessionInv /\ PendingInv /\ SpotsInv /\ HighlightsInv
  BY DEF MarksInit, SessionInv, PendingInv, SpotsInv, HighlightsInv
<1>5. OpenInv
  BY <1>1 DEF MarksInit, OpenInv
<1> QED
  BY <1>2, <1>3, <1>4, <1>5, MarksTypeParts DEF MarksInv
-----------------------------------------------------------------------------
(* The workers                                                             *)

LEMMA AddsAfterReceipt ==
  ASSUME NEW w \in Worker, w.queue # <<>>, rows \in [Contests -> SUBSET Contacts],
         NEW i \in Nat, NEW k \in Nat, i <= k + 1, NEW contacts,
         AddsAfter(w.queue, i, contacts), NEW r, r \in Received(w)
  PROVE  AddsAfter(r.queue, k, contacts)
<1>1. /\ r \in Worker /\ Len(r.queue) = Len(w.queue) - 1
      /\ \A j \in 1 .. Len(w.queue) - 1 : r.queue[j] = w.queue[j + 1]
  BY ReceivedFacts
<1>2. /\ DOMAIN r.queue = 1 .. Len(r.queue) /\ DOMAIN w.queue = 1 .. Len(w.queue)
      /\ Len(w.queue) \in Nat
  BY <1>1, WorkerFacts
<1>3. ASSUME NEW j \in DOMAIN r.queue, j > k
      PROVE  r.queue[j].kind = "add" /\ r.queue[j].qso \in contacts
  <2>1. j + 1 \in DOMAIN w.queue /\ j + 1 > i /\ r.queue[j] = w.queue[j + 1]
    BY <1>1, <1>2, <1>3
  <2> QED
    BY <2>1 DEF AddsAfter
<1> QED
  BY <1>3 DEF AddsAfter

(* The spot worker handles a message of any kind.                          *)
LEMMA SpotWorkerKeeps ==
  ASSUME MarksInv, SpotWorker
  PROVE  MarksInv'
<1> DEFINE h == Head(spots.queue)
<1>1. /\ spots.queue # <<>> /\ spots' \in Received(spots)
      /\ stage' = IF h.kind = "open" THEN "initialized" ELSE stage
      /\ UNCHANGED <<active, dbFile, services, rows, saved, warnings, pending>>
      /\ UNCHANGED <<highlights, used, opens, connects, refused, spotsTold, highlightsTold>>
  BY DEF SpotWorker, session, bounds, history
<1>2. /\ MarksFlagsOK /\ MarksDataOK /\ SessionInv /\ OpenInv /\ PendingInv
      /\ SpotsInv /\ HighlightsInv
  BY MarksParts
<1>3. spots \in Worker /\ rows \in [Contests -> SUBSET Contacts]
  BY <1>2 DEF MarksDataOK
<1>4. /\ spots' \in Worker /\ Len(spots'.queue) = Len(spots.queue) - 1
      /\ \A i \in 1 .. Len(spots.queue) - 1 : spots'.queue[i] = spots.queue[i + 1]
      /\ h = spots.queue[1] /\ h \in Message /\ Len(spots.queue) > 0
  BY <1>1, <1>3, ReceivedFacts
<1>5. /\ h.kind = "context" =>
           spots'.file = spots.file /\ spots'.cache = Rebuilt(spots, h.on)
      /\ h.kind = "add" =>
           spots'.file = spots.file /\ spots'.cache = spots.cache \cup {h.qso}
  BY <1>1, <1>3, ReceivedFacts
<1>6. /\ DOMAIN spots'.queue = 1 .. Len(spots'.queue)
      /\ DOMAIN spots.queue = 1 .. Len(spots.queue) /\ Len(spots.queue) \in Nat
  BY <1>3, <1>4, WorkerFacts
<1>7. 1 \in DOMAIN spots.queue
  BY <1>4, <1>6
<1>8. \A i \in DOMAIN spots'.queue :
        i + 1 \in DOMAIN spots.queue /\ i + 1 # 1 /\ spots'.queue[i] = spots.queue[i + 1]
  BY <1>4, <1>6
<1> HIDE DEF h
<1>9. h.kind = "open" => stage = "asked"
  BY <1>2, <1>4, <1>7 DEF OpenInv, IsOpen
<1>10. MarksFlagsOK'
  BY <1>1, <1>2 DEF MarksFlagsOK
<1>11. MarksDataOK'
  BY <1>1, <1>2, <1>4 DEF MarksDataOK
<1>12. SessionInv'
  BY <1>1, <1>2 DEF SessionInv
<1>13. OpenInv'
  <2>1. ASSUME NEW i \in DOMAIN spots'.queue, NEW j \in DOMAIN spots'.queue,
               IsOpen(spots'.queue[i]), IsOpen(spots'.queue[j])
        PROVE  i = j
    <3>1. i + 1 = j + 1
      BY <1>2, <1>8, <2>1 DEF OpenInv
    <3> QED
      BY <1>6, <3>1
  <2>2. ASSUME stage' # "asked", NEW i \in DOMAIN spots'.queue, IsOpen(spots'.queue[i])
        PROVE  FALSE
    <3>1. i + 1 \in DOMAIN spots.queue /\ i + 1 # 1 /\ IsOpen(spots.queue[i + 1])
      BY <1>8, <2>2
    <3>2. CASE h.kind = "open"
      BY <1>2, <1>4, <1>7, <3>1, <3>2 DEF OpenInv, IsOpen
    <3>3. CASE h.kind # "open"
      BY <1>1, <1>2, <2>2, <3>1, <3>3 DEF OpenInv
    <3> QED
      BY <3>2, <3>3
  <2> QED
    BY <2>1, <2>2 DEF OpenInv
<1>14. PendingInv'
  BY <1>1, <1>2, <1>9 DEF PendingInv
<1>15. SpotsInv'
  <2> SUFFICES ASSUME (spotsTold /\ stage = "ready")'
               PROVE  \E i \in 0 .. Len(spots'.queue) : SpotsContextAt(i)'
    BY DEF SpotsInv
  <2>1. h.kind # "open" /\ spotsTold /\ stage = "ready"
    BY <1>1
  <2>2. PICK i \in 0 .. Len(spots.queue) : SpotsContextAt(i)
    BY <1>2, <2>1 DEF SpotsInv
  <2>3. active \in Contests
    BY <1>2, <2>1 DEF SessionInv, MarksDataOK
  <2>4. /\ i \in Nat /\ AddsAfter(spots.queue, i, rows[active] \cup refused)
        /\ i > 0 => spots.queue[i] = ContextOn
    BY <1>6, <2>2 DEF SpotsContextAt
  <2>5. CASE i = 0
    <3>1. h.kind = "add" /\ h.qso \in rows[active] \cup refused
      BY <1>4, <1>7, <2>2, <2>5 DEF SpotsContextAt, AddsAfter
    <3>2. spots.cache \cup Coming(spots) \subseteq spots'.cache \cup Coming(spots')
      BY <1>1, <1>3, <3>1, ComingAfterReceipt DEF h
    <3>3. ASSUME spots'.file = active
          PROVE  /\ rows[active] \cap Typed
                      \subseteq spots'.cache \cup Coming(spots') \cup {saved}
                 /\ spots'.cache \subseteq rows[active] \cup refused
      BY <1>5, <2>2, <2>5, <3>1, <3>2, <3>3 DEF SpotsContextAt
    <3>4. AddsAfter(spots'.queue, 0, rows[active] \cup refused)
      <4>1. i <= 0 + 1
        BY <2>5
      <4> QED
        BY <1>1, <1>3, <2>4, <4>1, AddsAfterReceipt
    <3>5. SpotsContextAt(0)'
      BY <1>1, <3>3, <3>4 DEF SpotsContextAt
    <3>6. 0 \in 0 .. Len(spots'.queue)
      BY <1>4, <1>6
    <3> QED
      BY <3>5, <3>6
  <2>6. CASE i = 1
    <3>1. h = ContextOn
      BY <1>4, <2>4, <2>6
    <3>2. spots'.file = spots.file /\ spots'.cache = Rebuilt(spots, h.on) /\ h.on
      BY <1>5, <3>1, MessageFacts
    <3>3. ASSUME spots'.file = active
          PROVE  spots'.cache = rows[active]
      BY <2>3, <3>2, <3>3, NoneFacts DEF Rebuilt
    <3>4. AddsAfter(spots'.queue, 0, rows[active] \cup refused)
      <4>1. i <= 0 + 1
        BY <2>6
      <4> QED
        BY <1>1, <1>3, <2>4, <4>1, AddsAfterReceipt
    <3>5. SpotsContextAt(0)'
      BY <1>1, <3>3, <3>4 DEF SpotsContextAt
    <3>6. 0 \in 0 .. Len(spots'.queue)
      BY <1>4, <1>6
    <3> QED
      BY <3>5, <3>6
  <2>7. CASE i > 1
    <3>1. PICK k \in 1 .. Len(spots'.queue) : i = k + 1
      <4>1. i - 1 \in 1 .. Len(spots'.queue) /\ i = (i - 1) + 1
        BY <1>4, <1>6, <2>7
      <4> QED
        BY <4>1
    <3>2. AddsAfter(spots'.queue, k, rows[active] \cup refused)
      <4>1. k \in Nat /\ i <= k + 1
        BY <3>1
      <4> QED
        BY <1>1, <1>3, <2>4, <4>1, AddsAfterReceipt
    <3>3. spots'.queue[k] = ContextOn
      <4>1. spots'.queue[k] = spots.queue[k + 1]
        BY <1>6, <1>8, <3>1
      <4> QED
        BY <2>4, <2>7, <3>1, <4>1
    <3>4. SpotsContextAt(k)'
      BY <1>1, <3>1, <3>2, <3>3 DEF SpotsContextAt
    <3> QED
      BY <3>4
  <2> QED
    BY <1>6, <2>5, <2>6, <2>7
<1>16. HighlightsInv'
  BY <1>1, <1>2, HighlightsStay
<1> QED
  BY <1>10, <1>11, <1>12, <1>13, <1>14, <1>15, <1>16, MarksTypeParts DEF MarksInv

LEMMA HighlightWorkerKeeps ==
  ASSUME MarksInv, HighlightWorker
  PROVE  MarksInv'
<1> DEFINE h == Head(highlights.queue)
<1>1. /\ highlights.queue # <<>> /\ highlights' \in Received(highlights)
      /\ UNCHANGED <<active, dbFile, services, rows, saved, warnings, stage, pending>>
      /\ UNCHANGED <<spots, used, opens, connects, refused, spotsTold, highlightsTold>>
  BY DEF HighlightWorker, session, bounds, history, spotWindow
<1>2. /\ MarksFlagsOK /\ MarksDataOK /\ SessionInv /\ OpenInv /\ PendingInv
      /\ SpotsInv /\ HighlightsInv
  BY MarksParts
<1>3. highlights \in Worker /\ rows \in [Contests -> SUBSET Contacts]
  BY <1>2 DEF MarksDataOK
<1>4. /\ highlights' \in Worker /\ Len(highlights'.queue) = Len(highlights.queue) - 1
      /\ \A i \in 1 .. Len(highlights.queue) - 1 :
           highlights'.queue[i] = highlights.queue[i + 1]
      /\ h = highlights.queue[1] /\ h \in Message /\ Len(highlights.queue) > 0
  BY <1>1, <1>3, ReceivedFacts
<1>5. /\ h.kind = "open" =>
           highlights'.file \in {h.file, None} /\ highlights'.cache = highlights.cache
      /\ h.kind = "context" =>
           highlights'.file = highlights.file /\ highlights'.cache = Rebuilt(highlights, h.on)
      /\ h.kind = "add" =>
           highlights'.file = highlights.file
           /\ highlights'.cache = highlights.cache \cup {h.qso}
  BY <1>1, <1>3, ReceivedFacts
<1>6. /\ DOMAIN highlights'.queue = 1 .. Len(highlights'.queue)
      /\ DOMAIN highlights.queue = 1 .. Len(highlights.queue) /\ Len(highlights.queue) \in Nat
  BY <1>3, <1>4, WorkerFacts
<1>7. 1 \in DOMAIN highlights.queue
  BY <1>4, <1>6
<1> HIDE DEF h
<1>8. MarksFlagsOK'
  BY <1>1, <1>2 DEF MarksFlagsOK
<1>9. MarksDataOK'
  BY <1>1, <1>2, <1>4 DEF MarksDataOK
<1>10. SessionInv' /\ OpenInv'
  BY <1>1, <1>2 DEF SessionInv, OpenInv
<1>11. PendingInv'
  BY <1>1, <1>2 DEF PendingInv
<1>12. SpotsInv'
  BY <1>1, <1>2, SpotsStay
<1>13. HighlightsInv'
  <2> SUFFICES ASSUME highlightsTold
               PROVE  \E i \in 0 .. Len(highlights'.queue) : HighlightsContextAt(i)'
    BY <1>1 DEF HighlightsInv
  <2>1. PICK i \in 0 .. Len(highlights.queue) : HighlightsContextAt(i)
    BY <1>2 DEF HighlightsInv
  <2>2. active \in Contests
    BY <1>2 DEF SessionInv, MarksDataOK
  <2>3. /\ i \in Nat /\ AddsAfter(highlights.queue, i, rows[active])
        /\ i > 0 => highlights.queue[i] = ContextOn
    BY <1>6, <2>1 DEF HighlightsContextAt
  <2>4. 0 \in 0 .. Len(highlights'.queue)
    BY <1>4, <1>6
  <2>5. CASE i = 0
    <3>1. h.kind = "add" /\ h.qso \in rows[active]
      BY <1>4, <1>7, <2>1, <2>5 DEF HighlightsContextAt, AddsAfter
    <3>2. highlights.cache \cup Coming(highlights)
            \subseteq highlights'.cache \cup Coming(highlights')
      BY <1>1, <1>3, <3>1, ComingAfterReceipt DEF h
    <3>3. /\ highlights'.file = active =>
               rows[active] \cap Automatic \subseteq highlights'.cache \cup Coming(highlights')
          /\ highlights'.cache \subseteq rows[active]
          /\ highlights'.file \in {active, None}
      BY <1>5, <2>1, <2>5, <3>1, <3>2 DEF HighlightsContextAt
    <3>4. AddsAfter(highlights'.queue, 0, rows[active])
      <4>1. i <= 0 + 1
        BY <2>5
      <4> QED
        BY <1>1, <1>3, <2>3, <4>1, AddsAfterReceipt
    <3>5. HighlightsContextAt(0)'
      BY <1>1, <3>3, <3>4 DEF HighlightsContextAt
    <3> QED
      BY <2>4, <3>5
  <2>6. CASE i = 1
    <3>1. h = ContextOn /\ highlights.file \in {active, None}
      <4>1. h = ContextOn
        BY <1>4, <2>3, <2>6
      <4>2. highlights.file \in {active, None}
        BY <2>1, <2>6 DEF HighlightsContextAt
      <4> QED
        BY <4>1, <4>2
    <3>2. /\ highlights'.file = highlights.file
          /\ highlights'.cache = Rebuilt(highlights, h.on) /\ h.on
      BY <1>5, <3>1, MessageFacts
    <3>3. /\ highlights.file = active => highlights'.cache = rows[active]
          /\ highlights'.cache \subseteq rows[active]
      BY <2>2, <3>1, <3>2, NoneFacts DEF Rebuilt
    <3>4. AddsAfter(highlights'.queue, 0, rows[active])
      <4>1. i <= 0 + 1
        BY <2>6
      <4> QED
        BY <1>1, <1>3, <2>3, <4>1, AddsAfterReceipt
    <3>5. /\ highlights'.file = active =>
               rows[active] \cap Automatic \subseteq highlights'.cache \cup Coming(highlights')
          /\ highlights'.cache \subseteq rows[active]
          /\ highlights'.file \in {active, None}
      BY <3>1, <3>2, <3>3
    <3>6. HighlightsContextAt(0)'
      BY <1>1, <3>4, <3>5 DEF HighlightsContextAt
    <3> QED
      BY <2>4, <3>6
  <2>7. CASE i > 1
    <3>1. PICK k \in 1 .. Len(highlights'.queue) : i = k + 1
      <4>1. i - 1 \in 1 .. Len(highlights'.queue) /\ i = (i - 1) + 1
        BY <1>4, <1>6, <2>7
      <4> QED
        BY <4>1
    <3>2. AddsAfter(highlights'.queue, k, rows[active])
      <4>1. k \in Nat /\ i <= k + 1
        BY <3>1
      <4> QED
        BY <1>1, <1>3, <2>3, <4>1, AddsAfterReceipt
    <3>3. highlights'.queue[k] = ContextOn
      <4>1. highlights'.queue[k] = highlights.queue[k + 1]
        BY <1>4, <3>1
      <4> QED
        BY <2>3, <2>7, <3>1, <4>1
    <3>4. ASSUME k > 1 PROVE highlights'.queue[k - 1] = Open(active)
      <4>0. /\ Len(highlights.queue) \in Nat /\ k \in 1 .. Len(highlights.queue) - 1
            /\ i = k + 1 /\ k > 1
        BY <1>4, <1>6, <3>1, <3>4
      <4>1. k - 1 \in 1 .. Len(highlights.queue) - 1 /\ (k - 1) + 1 = k /\ i - 1 = k
        BY <4>0
      <4>2. highlights'.queue[k - 1] = highlights.queue[i - 1]
        BY <1>4, <4>1
      <4> QED
        BY <2>1, <2>7, <4>2 DEF HighlightsContextAt
    <3>5. ASSUME k <= 1 PROVE highlights'.file \in {active, None}
      <4>1. i - 1 = 1
        BY <3>1, <3>5
      <4>2. h = Open(active)
        BY <1>4, <2>1, <2>7, <4>1 DEF HighlightsContextAt
      <4> QED
        BY <1>5, <2>2, <4>2, MessageFacts
    <3>6. k # 0
      BY <3>1
    <3>7. HighlightsContextAt(k)'
      BY <1>1, <3>2, <3>3, <3>4, <3>5, <3>6 DEF HighlightsContextAt
    <3> QED
      BY <3>1, <3>7
  <2> QED
    BY <1>6, <2>5, <2>6, <2>7
<1> QED
  BY <1>8, <1>9, <1>10, <1>11, <1>12, <1>13, MarksTypeParts DEF MarksInv
-----------------------------------------------------------------------------
(* The DX cluster window                                                   *)

LEMMA ShowClusterKeeps ==
  ASSUME MarksInv, ShowCluster
  PROVE  MarksInv'
<1>1. /\ stage = "none" /\ stage' = "starting"
      /\ pending' = IF active = None THEN None ELSE TRUE
      /\ spotsTold' = (active # None)
      /\ UNCHANGED <<active, dbFile, services, rows, saved, warnings, spots, highlights>>
      /\ UNCHANGED <<used, opens, connects, refused, highlightsTold>>
  BY DEF ShowCluster, session, bounds
<1>2. /\ MarksFlagsOK /\ MarksDataOK /\ SessionInv /\ OpenInv /\ HighlightsInv
  BY MarksParts
<1>3. MarksFlagsOK'
  BY <1>1, <1>2 DEF MarksFlagsOK
<1>4. MarksDataOK'
  BY <1>1, <1>2 DEF MarksDataOK
<1>5. SessionInv' /\ OpenInv'
  BY <1>1, <1>2 DEF SessionInv, OpenInv
<1>6. PendingInv'
  BY <1>1 DEF PendingInv
<1>7. SpotsInv'
  BY <1>1 DEF SpotsInv
<1>8. HighlightsInv'
  BY <1>1, <1>2, HighlightsStay
<1> QED
  BY <1>3, <1>4, <1>5, <1>6, <1>7, <1>8, MarksTypeParts DEF MarksInv

LEMMA WorkerStartedKeeps ==
  ASSUME MarksInv, WorkerStarted
  PROVE  MarksInv'
<1> DEFINE messages == <<Open(dbFile)>>
<1>1. /\ stage = "starting" /\ stage' = "asked" /\ spots' = Posted(spots, messages)
      /\ UNCHANGED <<active, dbFile, services, rows, saved, warnings, pending, highlights>>
      /\ UNCHANGED <<used, opens, connects, refused, spotsTold, highlightsTold>>
  BY DEF WorkerStarted, session, bounds, history
<1>2. /\ MarksFlagsOK /\ MarksDataOK /\ SessionInv /\ OpenInv /\ PendingInv
      /\ HighlightsInv
  BY MarksParts
<1>3. messages \in Seq(Message) /\ Len(messages) = 1
  BY <1>2, MessageFacts DEF MarksDataOK
<1> HIDE DEF messages
<1>4. spots' \in Worker /\ Len(spots.queue) \in Nat
  BY <1>1, <1>2, <1>3, SpotsPosted
<1>5. /\ DOMAIN spots'.queue = 1 .. Len(spots'.queue)
      /\ DOMAIN spots.queue = 1 .. Len(spots.queue)
  BY <1>1, <1>2, <1>3, SpotsPosted
<1>6. Len(spots'.queue) = Len(spots.queue) + 1
  BY <1>1, <1>2, <1>3, SpotsPosted
<1>7. \A i \in 1 .. Len(spots.queue) : spots'.queue[i] = spots.queue[i]
  BY <1>1, <1>2, <1>3, SpotsPosted
<1>8. MarksFlagsOK'
  BY <1>1, <1>2 DEF MarksFlagsOK
<1>9. MarksDataOK'
  BY <1>1, <1>2, <1>4 DEF MarksDataOK
<1>10. SessionInv'
  BY <1>1, <1>2 DEF SessionInv
<1>11. OpenInv'
  <2>1. ASSUME NEW i \in DOMAIN spots'.queue, IsOpen(spots'.queue[i])
        PROVE  i = Len(spots.queue) + 1
    <3>1. CASE i \in 1 .. Len(spots.queue)
      BY <1>1, <1>2, <1>5, <1>7, <2>1, <3>1 DEF OpenInv
    <3>2. CASE i \notin 1 .. Len(spots.queue)
      BY <1>4, <1>5, <1>6, <3>2
    <3> QED
      BY <3>1, <3>2
  <2> QED
    BY <1>1, <2>1 DEF OpenInv
<1>12. PendingInv'
  BY <1>1, <1>2 DEF PendingInv
<1>13. SpotsInv'
  BY <1>1 DEF SpotsInv
<1>14. HighlightsInv'
  BY <1>1, <1>2, HighlightsStay
<1> QED
  BY <1>8, <1>9, <1>10, <1>11, <1>12, <1>13, <1>14, MarksTypeParts DEF MarksInv

(* The contexts that are posted, none of which opens a file.               *)
LEMMA ContextMessages ==
  /\ \A on \in BOOLEAN :
       /\ <<Context(on)>> \in Seq(Message) /\ Len(<<Context(on)>>) = 1
       /\ ~IsOpen(<<Context(on)>>[1])
  /\ <<ContextOn>> \in Seq(Message) /\ Len(<<ContextOn>>) = 1
  /\ ~IsOpen(<<ContextOn>>[1]) /\ <<ContextOn>>[1] = ContextOn
  /\ <<Context(FALSE), ContextOn>> \in Seq(Message)
  /\ Len(<<Context(FALSE), ContextOn>>) = 2
  /\ <<Context(FALSE), ContextOn>>[2] = ContextOn
  /\ \A i \in 1 .. 2 : ~IsOpen(<<Context(FALSE), ContextOn>>[i])
<1>1. \A on \in BOOLEAN : Context(on) \in Message /\ ~IsOpen(Context(on))
  BY MessageFacts DEF IsOpen
<1>2. ContextOn \in Message /\ ~IsOpen(ContextOn)
  BY MessageFacts DEF IsOpen
<1>3. PICK off \in Message : off = Context(FALSE) /\ ~IsOpen(off)
  BY <1>1
<1>4. /\ <<off, ContextOn>> \in Seq(Message) /\ Len(<<off, ContextOn>>) = 2
      /\ <<off, ContextOn>>[2] = ContextOn /\ <<off, ContextOn>>[1] = off
  BY <1>2
<1>5. \A i \in 1 .. 2 : ~IsOpen(<<off, ContextOn>>[i])
  <2> SUFFICES ASSUME NEW i \in 1 .. 2 PROVE ~IsOpen(<<off, ContextOn>>[i])
    OBVIOUS
  <2>1. i = 1 \/ i = 2
    OBVIOUS
  <2> QED
    BY <1>2, <1>3, <1>4, <2>1
<1>6. ASSUME NEW on \in BOOLEAN
      PROVE  /\ <<Context(on)>> \in Seq(Message) /\ Len(<<Context(on)>>) = 1
             /\ ~IsOpen(<<Context(on)>>[1])
  <2>1. PICK m \in Message : m = Context(on) /\ ~IsOpen(m)
    BY <1>1
  <2>2. <<m>> \in Seq(Message) /\ Len(<<m>>) = 1 /\ <<m>>[1] = m
    OBVIOUS
  <2> QED
    BY <2>1, <2>2
<1>7. /\ <<ContextOn>> \in Seq(Message) /\ Len(<<ContextOn>>) = 1
      /\ <<ContextOn>>[1] = ContextOn
  BY <1>2
<1> QED
  BY <1>2, <1>3, <1>4, <1>5, <1>6, <1>7

LEMMA OnWorkerInitializedKeeps ==
  ASSUME MarksInv, OnWorkerInitialized
  PROVE  MarksInv'
<1>1. /\ stage = "initialized" /\ stage' = "ready" /\ pending' = None
      /\ spots' = IF pending = None THEN spots ELSE Posted(spots, <<Context(pending)>>)
      /\ UNCHANGED <<active, dbFile, services, rows, saved, warnings, highlights>>
      /\ UNCHANGED <<used, opens, connects, refused, spotsTold, highlightsTold>>
  BY DEF OnWorkerInitialized, session, bounds, history
<1>2. /\ MarksFlagsOK /\ MarksDataOK /\ SessionInv /\ OpenInv /\ PendingInv
      /\ HighlightsInv
  BY MarksParts
<1>3. MarksFlagsOK'
  BY <1>1, <1>2 DEF MarksFlagsOK
<1>4. CASE pending = None
  <2>1. spots' = spots
    BY <1>1, <1>4
  <2>2. MarksDataOK'
    BY <1>1, <1>2, <2>1 DEF MarksDataOK
  <2>3. SessionInv' /\ OpenInv'
    BY <1>1, <1>2, <2>1 DEF SessionInv, OpenInv
  <2>4. ~spotsTold
    BY <1>1, <1>2, <1>4, PendingAssumption DEF PendingInv
  <2>5. PendingInv' /\ SpotsInv'
    BY <1>1, <2>4 DEF PendingInv, SpotsInv
  <2>6. HighlightsInv'
    BY <1>1, <1>2, HighlightsStay
  <2> QED
    BY <1>3, <2>2, <2>3, <2>5, <2>6, MarksTypeParts DEF MarksInv
<1>5. CASE pending # None
  <2>1. pending \in BOOLEAN
    BY <1>2, <1>5 DEF MarksFlagsOK
  <2>2. PICK messages \in Seq(Message) :
          /\ spots' = Posted(spots, messages) /\ Len(messages) = 1 /\ ~IsOpen(messages[1])
          /\ messages = <<Context(pending)>>
    <3>1. spots' = Posted(spots, <<Context(pending)>>)
      BY <1>1, <1>5
    <3> QED
      BY <2>1, <3>1, ContextMessages
  <2>3. spots' \in Worker
    BY <1>2, <2>2, SpotsPosted
  <2>4. MarksDataOK'
    BY <1>1, <1>2, <2>3 DEF MarksDataOK
  <2>5. SessionInv'
    BY <1>1, <1>2 DEF SessionInv
  <2>6. OpenInv'
    <3>1. \A i \in 1 .. Len(messages) : ~IsOpen(messages[i])
      <4>1. \A i \in 1 .. 1 : i = 1
        OBVIOUS
      <4> QED
        BY <2>2, <4>1
    <3> QED
      BY <1>1, <1>2, <2>2, <3>1, OpensStay
  <2>7. PendingInv'
    BY <1>1 DEF PendingInv
  <2>8. SpotsInv'
    <3>1. CASE spotsTold
      <4>1. pending = TRUE
        BY <1>1, <1>2, <3>1 DEF PendingInv
      <4>2. messages = <<ContextOn>>
        BY <2>2, <4>1 DEF ContextOn
      <4>3. messages # <<>> /\ messages[Len(messages)] = ContextOn
        BY <2>2, <4>2, ContextMessages
      <4> QED
        BY <1>2, <2>2, <4>3, SpotsContext
    <3>2. CASE ~spotsTold
      BY <1>1, <3>2 DEF SpotsInv
    <3> QED
      BY <3>1, <3>2
  <2>9. HighlightsInv'
    BY <1>1, <1>2, HighlightsStay
  <2> QED
    BY <1>3, <2>4, <2>5, <2>6, <2>7, <2>8, <2>9, MarksTypeParts DEF MarksInv
<1> QED
  BY <1>4, <1>5

-----------------------------------------------------------------------------
(* Contests                                                                *)

(* However the window is told of a contest, or of none.                    *)
LEMMA SetActiveContestFacts ==
  ASSUME MarksInv, NEW on \in BOOLEAN, SetActiveContest(on), stage' = stage
  PROVE  /\ spots' \in Worker /\ OpenInv'
         /\ pending' \in BOOLEAN \cup {None}
<1>1. MarksFlagsOK /\ MarksDataOK /\ OpenInv
  BY MarksParts
<1>2. CASE UNCHANGED spots
  <2>1. spots' \in Worker
    BY <1>1, <1>2 DEF MarksDataOK
  <2>2. OpenInv'
    BY <1>1, <1>2 DEF OpenInv
  <2>3. pending' = pending \/ pending' = on
    <3>1. CASE stage = "ready"
      BY <3>1 DEF SetActiveContest
    <3>2. CASE stage # "ready"
      BY <3>2 DEF SetActiveContest
    <3> QED
      BY <3>1, <3>2
  <2>4. pending' \in BOOLEAN \cup {None}
    BY <1>1, <2>3 DEF MarksFlagsOK
  <2> QED
    BY <2>1, <2>2, <2>4
<1>3. CASE stage = "ready" /\ spots' = Posted(spots, <<Context(on)>>) /\ UNCHANGED pending
  <2>1. PICK messages \in Seq(Message) :
          spots' = Posted(spots, messages) /\ Len(messages) = 1 /\ ~IsOpen(messages[1])
    BY <1>3, ContextMessages
  <2>2. \A i \in 1 .. Len(messages) : ~IsOpen(messages[i])
    <3>1. \A i \in 1 .. 1 : i = 1
      OBVIOUS
    <3> QED
      BY <2>1, <3>1
  <2>3. OpenInv'
    BY <1>1, <2>1, <2>2, OpensStay
  <2>4. spots' \in Worker
    BY <1>1, <2>1, SpotsPosted
  <2>5. pending' \in BOOLEAN \cup {None}
    BY <1>1, <1>3 DEF MarksFlagsOK
  <2> QED
    BY <2>3, <2>4, <2>5
<1> QED
  BY <1>2, <1>3 DEF SetActiveContest
LEMMA OpenContestKeeps ==
  ASSUME MarksInv, NEW c \in Contests, OpenContest(c)
  PROVE  MarksInv'
<1>1. /\ saved = None /\ opens < MaxOpens /\ opens' = opens + 1
      /\ active' = c /\ dbFile' = c /\ services' = TRUE
      /\ spotsTold' = (stage # "none") /\ highlightsTold' = FALSE
      /\ UNCHANGED <<rows, saved, warnings, stage, highlights, used, connects, refused>>
  BY DEF OpenContest, MayOpen, AtEventLoop
<1>2. /\ MarksFlagsOK /\ MarksDataOK /\ SessionInv /\ OpenInv
  BY MarksParts
<1>3. /\ spots' \in Worker /\ OpenInv' /\ pending' \in BOOLEAN \cup {None}
      /\ PendingInv' /\ SpotsInv'
  <2>1. CASE stage = "ready" /\ active # None
    <3>1. PICK messages \in Seq(Message) :
            /\ spots' = Posted(spots, messages) /\ Len(messages) = 2
            /\ messages[2] = ContextOn /\ \A i \in 1 .. 2 : ~IsOpen(messages[i])
      <4>1. spots' = Posted(spots, <<Context(FALSE), ContextOn>>)
        BY <2>1 DEF OpenContest, ContextOn
      <4> QED
        BY <4>1, ContextMessages
    <3>2. spots' \in Worker
      BY <1>2, <3>1, SpotsPosted
    <3>3. OpenInv'
      BY <1>1, <1>2, <3>1, OpensStay
    <3>4. pending' \in BOOLEAN \cup {None}
      BY <1>2, <2>1 DEF MarksFlagsOK, OpenContest
    <3>5. PendingInv'
      BY <1>1, <2>1 DEF PendingInv
    <3>6. SpotsInv'
      <4>1. messages # <<>> /\ messages[Len(messages)] = ContextOn
        BY <3>1
      <4> QED
        BY <1>2, <3>1, <4>1, SpotsContext
    <3> QED
      BY <3>2, <3>3, <3>4, <3>5, <3>6
  <2>2. CASE ~(stage = "ready" /\ active # None)
    <3>1. SetActiveContest(TRUE)
      BY <2>2 DEF OpenContest
    <3>2. spots' \in Worker /\ OpenInv' /\ pending' \in BOOLEAN \cup {None}
      BY <1>1, <3>1, SetActiveContestFacts
    <3>3. PendingInv'
      BY <1>1, <3>1 DEF PendingInv, SetActiveContest
    <3>4. SpotsInv'
      <4>1. CASE stage = "ready"
        <5>1. PICK messages \in Seq(Message) :
                /\ spots' = Posted(spots, messages) /\ Len(messages) = 1
                /\ messages[1] = ContextOn
          <6>1. spots' = Posted(spots, <<ContextOn>>)
            BY <3>1, <4>1 DEF SetActiveContest, ContextOn
          <6> QED
            BY <6>1, ContextMessages
        <5>2. messages # <<>> /\ messages[Len(messages)] = ContextOn
          BY <5>1
        <5> QED
          BY <1>2, <5>1, <5>2, SpotsContext
      <4>2. CASE stage # "ready"
        BY <1>1, <4>2 DEF SpotsInv
      <4> QED
        BY <4>1, <4>2
    <3> QED
      BY <3>2, <3>3, <3>4
  <2> QED
    BY <2>1, <2>2
<1>4. MarksFlagsOK'
  BY <1>1, <1>2, <1>3 DEF MarksFlagsOK
<1>5. MarksDataOK'
  <2>1. opens' \in 0 .. MaxOpens
    BY <1>1, <1>2, NoneFacts DEF MarksDataOK
  <2> QED
    BY <1>1, <1>2, <1>3, <2>1 DEF MarksDataOK
<1>6. SessionInv'
  BY <1>1, <1>2, NoneFacts DEF SessionInv
<1>7. HighlightsInv'
  BY <1>1 DEF HighlightsInv
<1> QED
  BY <1>3, <1>4, <1>5, <1>6, <1>7, MarksTypeParts DEF MarksInv

LEMMA ActivateFailsKeeps ==
  ASSUME MarksInv, NEW c \in Contests, ActivateFails(c)
  PROVE  MarksInv'
<1>1. /\ saved = None /\ opens < MaxOpens /\ opens' = opens + 1
      /\ active' = None /\ dbFile' \in {c, None}
      /\ spotsTold' = FALSE /\ highlightsTold' = FALSE
      /\ UNCHANGED <<services, rows, saved, warnings, stage, highlights, used>>
      /\ UNCHANGED <<connects, refused>>
      /\ UNCHANGED <<pending, spots>> \/ SetActiveContest(FALSE)
  BY DEF ActivateFails, MayOpen, AtEventLoop
<1>2. /\ MarksFlagsOK /\ MarksDataOK /\ SessionInv /\ OpenInv
  BY MarksParts
<1>3. spots' \in Worker /\ OpenInv' /\ pending' \in BOOLEAN \cup {None}
  <2>1. CASE UNCHANGED <<pending, spots>>
    <3>1. spots' \in Worker
      BY <1>2, <2>1 DEF MarksDataOK
    <3>2. OpenInv'
      BY <1>1, <1>2, <2>1 DEF OpenInv
    <3>3. pending' \in BOOLEAN \cup {None}
      BY <1>2, <2>1 DEF MarksFlagsOK
    <3> QED
      BY <3>1, <3>2, <3>3
  <2>2. CASE SetActiveContest(FALSE)
    BY <1>1, <2>2, SetActiveContestFacts
  <2> QED
    BY <1>1, <2>1, <2>2
<1>4. MarksFlagsOK'
  BY <1>1, <1>2, <1>3 DEF MarksFlagsOK
<1>5. MarksDataOK'
  <2>1. opens' \in 0 .. MaxOpens
    BY <1>1, <1>2, NoneFacts DEF MarksDataOK
  <2> QED
    BY <1>1, <1>2, <1>3, <2>1 DEF MarksDataOK
<1>6. SessionInv'
  BY <1>1, <1>2, NoneFacts DEF SessionInv
<1>7. PendingInv' /\ SpotsInv' /\ HighlightsInv'
  BY <1>1 DEF PendingInv, SpotsInv, HighlightsInv
<1> QED
  BY <1>3, <1>4, <1>5, <1>6, <1>7, MarksTypeParts DEF MarksInv

LEMMA ReopenFailsKeeps ==
  ASSUME MarksInv, ReopenFails \/ UNCHANGED marksVars
  PROVE  MarksInv'
<1>1. /\ dbFile' \in {dbFile, None} /\ opens' \in {opens, opens + 1}
      /\ opens' = opens \/ opens < MaxOpens
      /\ UNCHANGED <<active, services, rows, saved, warnings, stage, pending, spots>>
      /\ UNCHANGED <<highlights, used, connects, refused, spotsTold, highlightsTold>>
  BY DEF ReopenFails, MayOpen, marksVars, session, spotWindow, bounds, history
<1>2. /\ MarksFlagsOK /\ MarksDataOK /\ SessionInv /\ OpenInv /\ PendingInv
      /\ SpotsInv /\ HighlightsInv
  BY MarksParts
<1>3. MarksFlagsOK'
  BY <1>1, <1>2 DEF MarksFlagsOK
<1>4. MarksDataOK'
  <2>1. opens' \in 0 .. MaxOpens
    BY <1>1, <1>2, NoneFacts DEF MarksDataOK
  <2>2. dbFile' \in Contests \cup {None}
    BY <1>1, <1>2 DEF MarksDataOK
  <2> QED
    BY <1>1, <1>2, <2>1, <2>2 DEF MarksDataOK
<1>5. SessionInv' /\ OpenInv'
  BY <1>1, <1>2 DEF SessionInv, OpenInv
<1>6. PendingInv'
  BY <1>1, <1>2 DEF PendingInv
<1>7. SpotsInv'
  BY <1>1, <1>2, SpotsStay
<1>8. HighlightsInv'
  BY <1>1, <1>2, HighlightsStay
<1> QED
  BY <1>3, <1>4, <1>5, <1>6, <1>7, <1>8, MarksTypeParts DEF MarksInv

-----------------------------------------------------------------------------
(* Logging and changing the log                                            *)

LEMMA SaveKeeps ==
  ASSUME MarksInv, NEW q \in Typed, Save(q)
  PROVE  MarksInv'
<1>1. /\ saved = None /\ active # None /\ dbFile # None /\ saved' = q
      /\ used' = used \cup {q} /\ rows' = [rows EXCEPT ![dbFile] = @ \cup {q}]
      /\ UNCHANGED <<active, dbFile, services, warnings, stage, pending, spots>>
      /\ UNCHANGED <<highlights, opens, connects, refused, spotsTold, highlightsTold>>
  BY DEF Save, MayLog, AtEventLoop, CanSave, spotWindow, history
<1>2. /\ MarksFlagsOK /\ MarksDataOK /\ SessionInv /\ OpenInv /\ PendingInv
      /\ SpotsInv /\ HighlightsInv
  BY MarksParts
<1>3. active \in Contests /\ dbFile = active /\ q \in Contacts
  BY <1>1, <1>2 DEF SessionInv, MarksDataOK, Contacts
<1>4. rows'[active] = rows[active] \cup {q} /\ rows' \in [Contests -> SUBSET Contacts]
  BY <1>1, <1>2, <1>3 DEF MarksDataOK
<1>5. MarksFlagsOK'
  BY <1>1, <1>2 DEF MarksFlagsOK
<1>6. MarksDataOK'
  BY <1>1, <1>2, <1>3, <1>4 DEF MarksDataOK
<1>7. SessionInv' /\ OpenInv'
  BY <1>1, <1>2, <1>4 DEF SessionInv, OpenInv
<1>8. PendingInv'
  BY <1>1, <1>2 DEF PendingInv
<1>9. SpotsInv'
  BY <1>1, <1>2, <1>4, SpotsStay
<1>10. HighlightsInv'
  BY <1>1, <1>2, <1>4, NoneFacts, HighlightsStay
<1> QED
  BY <1>5, <1>6, <1>7, <1>8, <1>9, <1>10, MarksTypeParts DEF MarksInv

LEMMA RefuseKeeps ==
  ASSUME MarksInv, NEW q \in Typed, Refuse(q)
  PROVE  MarksInv'
<1>1. /\ used' = used \cup {q} /\ warnings' = <<q>> \o warnings
      /\ refused' = refused \cup {q}
      /\ UNCHANGED <<active, dbFile, services, rows, saved, stage, pending, spots>>
      /\ UNCHANGED <<highlights, opens, connects, spotsTold, highlightsTold>>
  BY DEF Refuse, MayLog, spotWindow, session
<1>2. /\ MarksFlagsOK /\ MarksDataOK /\ SessionInv /\ OpenInv /\ PendingInv
      /\ SpotsInv /\ HighlightsInv
  BY MarksParts
<1>3. warnings \in Seq(Typed) /\ q \in Contacts
  BY <1>2 DEF MarksDataOK, Contacts
<1>4. /\ warnings' \in Seq(Typed)
      /\ \A i \in DOMAIN warnings' :
           warnings'[i] = q \/ \E j \in DOMAIN warnings : warnings'[i] = warnings[j]
  <2>1. <<q>> \in Seq(Typed) /\ Len(<<q>>) = 1 /\ <<q>>[1] = q
    OBVIOUS
  <2>2. /\ warnings' \in Seq(Typed) /\ Len(warnings') = 1 + Len(warnings)
        /\ \A i \in 1 .. Len(warnings') :
             warnings'[i] = IF i <= 1 THEN <<q>>[i] ELSE warnings[i - 1]
    BY <1>1, <1>3, <2>1, ConcatProperties
  <2>3. ASSUME NEW i \in DOMAIN warnings'
        PROVE  warnings'[i] = q \/ \E j \in DOMAIN warnings : warnings'[i] = warnings[j]
    <3>1. i \in 1 .. Len(warnings')
      BY <2>2
    <3>2. CASE i = 1
      BY <2>1, <2>2, <3>1, <3>2
    <3>3. CASE i # 1
      <4>1. i - 1 \in DOMAIN warnings
        BY <1>3, <2>2, <3>1, <3>3
      <4> QED
        BY <2>2, <3>1, <3>3, <4>1
    <3> QED
      BY <3>2, <3>3
  <2> QED
    BY <2>2, <2>3
<1>5. MarksFlagsOK'
  BY <1>1, <1>2 DEF MarksFlagsOK
<1>6. MarksDataOK'
  BY <1>1, <1>2, <1>3, <1>4 DEF MarksDataOK
<1>7. SessionInv'
  <2>1. \A i \in DOMAIN warnings' : warnings'[i] \in refused'
    BY <1>1, <1>2, <1>4 DEF SessionInv
  <2> QED
    BY <1>1, <1>2, <2>1 DEF SessionInv
<1>8. OpenInv' /\ PendingInv'
  BY <1>1, <1>2 DEF OpenInv, PendingInv
<1>9. SpotsInv'
  BY <1>1, <1>2, SpotsStay
<1>10. HighlightsInv'
  BY <1>1, <1>2, HighlightsStay
<1> QED
  BY <1>5, <1>6, <1>7, <1>8, <1>9, <1>10, MarksTypeParts DEF MarksInv

(* A contact told to the spot worker, if there is one.                     *)
LEMMA TellSpotsFacts ==
  ASSUME MarksInv, NEW q \in Contacts, TellSpots(q),
         spotsTold => q \in rows[active] \cup refused,
         UNCHANGED <<active, rows, refused, spotsTold, stage>>,
         saved' = saved \/ saved = q
  PROVE  spots' \in Worker /\ OpenInv' /\ SpotsInv'
<1>1. MarksDataOK /\ SessionInv /\ OpenInv /\ SpotsInv
  BY MarksParts
<1>2. CASE stage = "none"
  <2>1. spots' = spots
    BY <1>2 DEF TellSpots
  <2>2. spots' \in Worker
    BY <1>1, <2>1 DEF MarksDataOK
  <2>3. OpenInv' /\ SpotsInv'
    BY <1>1, <1>2, <2>1 DEF OpenInv, SpotsInv
  <2> QED
    BY <2>2, <2>3
<1>3. CASE stage # "none"
  <2>1. spots' = Posted(spots, <<Add(q)>>)
    BY <1>3 DEF TellSpots
  <2>2. SpotsInv'
    BY <1>1, <2>1, SpotsAdd
  <2>3. PICK m \in Message : m = Add(q) /\ ~IsOpen(m)
    BY MessageFacts DEF IsOpen
  <2>4. PICK messages \in Seq(Message) :
          spots' = Posted(spots, messages) /\ \A i \in 1 .. Len(messages) : ~IsOpen(messages[i])
    <3>1. /\ <<m>> \in Seq(Message) /\ spots' = Posted(spots, <<m>>)
          /\ \A i \in 1 .. Len(<<m>>) : <<m>>[i] = m
      BY <2>1, <2>3
    <3> QED
      BY <2>3, <3>1
  <2>5. spots' \in Worker
    BY <1>1, <2>4, SpotsPosted
  <2>6. OpenInv'
    BY <1>1, <2>4, OpensStay
  <2> QED
    BY <2>2, <2>5, <2>6
<1> QED
  BY <1>2, <1>3

LEMMA PostKeeps ==
  ASSUME MarksInv, Post
  PROVE  MarksInv'
<1>1. /\ saved # None /\ TellSpots(saved) /\ saved' = None
      /\ UNCHANGED <<active, dbFile, services, rows, warnings, stage, pending>>
      /\ UNCHANGED <<highlights, used, opens, connects, refused, spotsTold, highlightsTold>>
  BY DEF Post, session, spotWindow, bounds, history
<1>2. /\ MarksFlagsOK /\ MarksDataOK /\ SessionInv /\ PendingInv /\ HighlightsInv
  BY MarksParts
<1>3. saved \in Contacts /\ saved \in rows[active]
  BY <1>1, <1>2 DEF MarksDataOK, SessionInv, Contacts
<1>4. spots' \in Worker /\ OpenInv' /\ SpotsInv'
  BY <1>1, <1>3, TellSpotsFacts
<1>5. MarksFlagsOK'
  BY <1>1, <1>2 DEF MarksFlagsOK
<1>6. MarksDataOK'
  BY <1>1, <1>2, <1>4 DEF MarksDataOK
<1>7. SessionInv' /\ PendingInv'
  BY <1>1, <1>2 DEF SessionInv, PendingInv
<1>8. HighlightsInv'
  BY <1>1, <1>2, HighlightsStay
<1> QED
  BY <1>4, <1>5, <1>6, <1>7, <1>8, MarksTypeParts DEF MarksInv

LEMMA DismissKeeps ==
  ASSUME MarksInv, Dismiss
  PROVE  MarksInv'
<1>1. /\ warnings # <<>> /\ TellSpots(Head(warnings)) /\ warnings' = Tail(warnings)
      /\ UNCHANGED <<active, dbFile, services, rows, saved, stage, pending>>
      /\ UNCHANGED <<highlights, used, opens, connects, refused, spotsTold, highlightsTold>>
  BY DEF Dismiss, session, spotWindow, bounds, history
<1>2. /\ MarksFlagsOK /\ MarksDataOK /\ SessionInv /\ PendingInv /\ HighlightsInv
  BY MarksParts
<1>3. warnings \in Seq(Typed)
  BY <1>2 DEF MarksDataOK
<1>4. /\ Head(warnings) = warnings[1] /\ 1 \in DOMAIN warnings /\ Head(warnings) \in Typed
      /\ warnings' \in Seq(Typed)
      /\ \A i \in DOMAIN warnings' : i + 1 \in DOMAIN warnings
                                     /\ warnings'[i] = warnings[i + 1]
  BY <1>1, <1>3
<1>5. Head(warnings) \in Contacts /\ Head(warnings) \in refused
  BY <1>2, <1>4 DEF SessionInv, Contacts
<1>6. spots' \in Worker /\ OpenInv' /\ SpotsInv'
  BY <1>1, <1>5, TellSpotsFacts
<1>7. MarksFlagsOK'
  BY <1>1, <1>2 DEF MarksFlagsOK
<1>8. MarksDataOK'
  BY <1>1, <1>2, <1>4, <1>6 DEF MarksDataOK
<1>9. SessionInv'
  <2>1. \A i \in DOMAIN warnings' : warnings'[i] \in refused
    BY <1>2, <1>4 DEF SessionInv
  <2> QED
    BY <1>1, <1>2, <2>1 DEF SessionInv
<1>10. PendingInv'
  BY <1>1, <1>2 DEF PendingInv
<1>11. HighlightsInv'
  BY <1>1, <1>2, HighlightsStay
<1> QED
  BY <1>6, <1>7, <1>8, <1>9, <1>10, <1>11, MarksTypeParts DEF MarksInv

LEMMA ChangeLogKeeps ==
  ASSUME MarksInv, ChangeLog
  PROVE  MarksInv'
<1>1. /\ saved = None /\ warnings = <<>> /\ dbFile # None
      /\ \/ rows' = [rows EXCEPT ![dbFile] = {}] /\ used' = used
         \/ \E q \in Typed : /\ used' = used \cup {q}
                             /\ \E old : rows' = [rows EXCEPT ![dbFile] = (@ \ old) \cup {q}]
      /\ spotsTold' = FALSE /\ highlightsTold' = FALSE
      /\ UNCHANGED <<active, dbFile, services, saved, warnings, stage, pending, spots>>
      /\ UNCHANGED <<highlights, opens, connects, refused>>
  BY DEF ChangeLog, Idle, AtEventLoop, CanSave, spotWindow
<1>2. /\ MarksFlagsOK /\ MarksDataOK /\ SessionInv /\ OpenInv
  BY MarksParts
<1>3. MarksFlagsOK'
  BY <1>1, <1>2 DEF MarksFlagsOK
<1>4. rows' \in [Contests -> SUBSET Contacts] /\ used' \subseteq Contacts
  BY <1>1, <1>2 DEF MarksDataOK, Contacts
<1>5. MarksDataOK'
  BY <1>1, <1>2, <1>4 DEF MarksDataOK
<1>6. SessionInv' /\ OpenInv'
  BY <1>1, <1>2 DEF SessionInv, OpenInv
<1>7. PendingInv' /\ SpotsInv' /\ HighlightsInv'
  BY <1>1 DEF PendingInv, SpotsInv, HighlightsInv
<1> QED
  BY <1>3, <1>5, <1>6, <1>7, MarksTypeParts DEF MarksInv
-----------------------------------------------------------------------------
(* WSJT-X                                                                  *)

LEMMA LogWsjtxKeeps ==
  ASSUME MarksInv, NEW q \in Automatic, LogWsjtx(q)
  PROVE  MarksInv'
<1>1. /\ saved = None /\ active # None /\ dbFile # None
      /\ used' = used \cup {q} /\ rows' = [rows EXCEPT ![dbFile] = @ \cup {q}]
      /\ highlights' = Posted(highlights, <<Add(q)>>)
      /\ UNCHANGED <<active, dbFile, services, saved, warnings, stage, pending, spots>>
      /\ UNCHANGED <<opens, connects, refused, spotsTold, highlightsTold>>
  BY DEF LogWsjtx, AtEventLoop, CanSave, spotWindow, history
<1>2. /\ MarksFlagsOK /\ MarksDataOK /\ SessionInv /\ OpenInv /\ PendingInv
      /\ SpotsInv /\ HighlightsInv
  BY MarksParts
<1>3. active \in Contests /\ dbFile = active /\ q \in Contacts
  BY <1>1, <1>2 DEF SessionInv, MarksDataOK, Contacts
<1>4. rows'[active] = rows[active] \cup {q} /\ rows' \in [Contests -> SUBSET Contacts]
  BY <1>1, <1>2, <1>3 DEF MarksDataOK
<1>5. PICK messages \in Seq(Message) :
        /\ highlights' = Posted(highlights, messages) /\ Len(messages) = 1
        /\ messages[1] = Add(q)
  <2>1. PICK m \in Message : m = Add(q)
    BY <1>3, MessageFacts
  <2>2. /\ <<m>> \in Seq(Message) /\ Len(<<m>>) = 1 /\ <<m>>[1] = m
        /\ highlights' = Posted(highlights, <<m>>)
    BY <1>1, <2>1
  <2> QED
    BY <2>1, <2>2
<1>6. /\ highlights' \in Worker
      /\ highlights'.file = highlights.file /\ highlights'.cache = highlights.cache
  BY <1>2, <1>5, HighlightsPosted
<1>7. /\ Len(highlights.queue) \in Nat
      /\ Len(highlights'.queue) = Len(highlights.queue) + 1
  BY <1>2, <1>5, HighlightsPosted
<1>8. /\ DOMAIN highlights.queue = 1 .. Len(highlights.queue)
      /\ DOMAIN highlights'.queue = 1 .. Len(highlights'.queue)
  BY <1>2, <1>5, HighlightsPosted
<1>9. \A i \in 1 .. Len(highlights.queue) : highlights'.queue[i] = highlights.queue[i]
  BY <1>2, <1>5, HighlightsPosted
<1>10. highlights'.queue[Len(highlights.queue) + 1] = Add(q)
  BY <1>2, <1>5, HighlightsPosted
<1>11. MarksFlagsOK'
  BY <1>1, <1>2 DEF MarksFlagsOK
<1>12. MarksDataOK'
  BY <1>1, <1>2, <1>3, <1>4, <1>6 DEF MarksDataOK
<1>13. SessionInv' /\ OpenInv'
  BY <1>1, <1>2, <1>4 DEF SessionInv, OpenInv
<1>14. PendingInv'
  BY <1>1, <1>2 DEF PendingInv
<1>15. SpotsInv'
  BY <1>1, <1>2, <1>4, NoneFacts, SpotsStay
<1>16. HighlightsInv'
  <2> SUFFICES ASSUME highlightsTold
               PROVE  \E i \in 0 .. Len(highlights'.queue) : HighlightsContextAt(i)'
    BY <1>1 DEF HighlightsInv
  <2>1. PICK i \in 0 .. Len(highlights.queue) : HighlightsContextAt(i)
    BY <1>2 DEF HighlightsInv
  <2>2. AddsAfter(highlights'.queue, i, rows'[active])
    <3> SUFFICES ASSUME NEW j \in DOMAIN highlights'.queue, j > i
                 PROVE  /\ highlights'.queue[j].kind = "add"
                        /\ highlights'.queue[j].qso \in rows'[active]
      BY DEF AddsAfter
    <3>1. CASE j = Len(highlights.queue) + 1
      BY <1>3, <1>4, <1>10, <3>1, MessageFacts
    <3>2. CASE j # Len(highlights.queue) + 1
      <4>1. j \in DOMAIN highlights.queue /\ highlights'.queue[j] = highlights.queue[j]
        BY <1>7, <1>8, <1>9, <3>2
      <4> QED
        BY <1>4, <2>1, <4>1 DEF HighlightsContextAt, AddsAfter
    <3> QED
      BY <3>1, <3>2
  <2>3. i > 0 => highlights'.queue[i] = ContextOn
    <3>1. i > 0 => i \in 1 .. Len(highlights.queue)
      BY <1>7
    <3> QED
      BY <1>9, <2>1, <3>1 DEF HighlightsContextAt
  <2>4. i > 1 => highlights'.queue[i - 1] = Open(active)
    <3>1. i > 1 => i - 1 \in 1 .. Len(highlights.queue)
      BY <1>7
    <3> QED
      BY <1>9, <2>1, <3>1 DEF HighlightsContextAt
  <2>5. Coming(highlights) \cup {q} \subseteq Coming(highlights')
    <3>1. Coming(highlights) \subseteq Coming(highlights')
      BY <1>2, <1>5, HighlightsPosted
    <3>2. Len(highlights.queue) + 1 \in DOMAIN highlights'.queue
      BY <1>7, <1>8
    <3>3. q \in Coming(highlights')
      BY <1>3, <1>10, <3>2 DEF Coming
    <3> QED
      BY <3>1, <3>3
  <2>6. /\ i = 0 => highlights'.cache \subseteq rows'[active]
        /\ i = 0 /\ highlights'.file = active =>
             rows'[active] \cap Automatic \subseteq highlights'.cache \cup Coming(highlights')
    BY <1>4, <1>6, <2>1, <2>5 DEF HighlightsContextAt
  <2>7. i <= 1 => highlights'.file \in {active, None}
    BY <1>6, <2>1 DEF HighlightsContextAt
  <2>8. HighlightsContextAt(i)'
    BY <1>1, <2>2, <2>3, <2>4, <2>6, <2>7 DEF HighlightsContextAt
  <2>9. i \in 0 .. Len(highlights'.queue)
    BY <1>7
  <2> QED
    BY <2>8, <2>9
<1> QED
  BY <1>11, <1>12, <1>13, <1>14, <1>15, <1>16, MarksTypeParts DEF MarksInv

LEMMA WsjtxConnectsKeeps ==
  ASSUME MarksInv, WsjtxConnects
  PROVE  MarksInv'
<1>1. /\ saved = None /\ connects < MaxConnects /\ connects' = connects + 1
      /\ UNCHANGED <<active, dbFile, services, rows, saved, warnings, stage, pending>>
      /\ UNCHANGED <<spots, used, opens, refused, spotsTold>>
      /\ IF CanSave THEN highlights' = SetContext(dbFile) /\ highlightsTold' = TRUE
                    ELSE highlights' = highlights /\ highlightsTold' = highlightsTold
  BY DEF WsjtxConnects, AtEventLoop, spotWindow, session
<1>2. /\ MarksFlagsOK /\ MarksDataOK /\ SessionInv /\ OpenInv /\ PendingInv
      /\ SpotsInv /\ HighlightsInv
  BY MarksParts
<1>3. connects' \in 0 .. MaxConnects
  BY <1>1, <1>2, NoneFacts DEF MarksDataOK
<1>4. MarksFlagsOK'
  <2>1. highlightsTold' \in BOOLEAN
    <3>1. CASE CanSave
      BY <1>1, <3>1
    <3>2. CASE ~CanSave
      BY <1>1, <1>2, <3>2 DEF MarksFlagsOK
    <3> QED
      BY <3>1, <3>2
  <2> QED
    BY <1>1, <1>2, <2>1 DEF MarksFlagsOK
<1>5. SessionInv' /\ OpenInv'
  BY <1>1, <1>2 DEF SessionInv, OpenInv, CanSave
<1>6. PendingInv'
  BY <1>1, <1>2 DEF PendingInv
<1>7. SpotsInv'
  BY <1>1, <1>2, SpotsStay
<1>8. CASE ~CanSave
  <2>1. MarksDataOK'
    BY <1>1, <1>2, <1>3, <1>8 DEF MarksDataOK
  <2>2. HighlightsInv'
    BY <1>1, <1>2, <1>8, HighlightsStay
  <2> QED
    BY <1>4, <1>5, <1>6, <1>7, <2>1, <2>2, MarksTypeParts DEF MarksInv
<1>9. CASE CanSave
  <2>1. active \in Contests /\ dbFile = active
    BY <1>2, <1>9 DEF CanSave, SessionInv, MarksDataOK
  <2>2. PICK messages \in Seq(Message) :
          /\ highlights' = Posted(highlights, messages) /\ Len(messages) = 2
          /\ messages[1] = Open(active) /\ messages[2] = ContextOn
    <3>1. highlights' = Posted(highlights, <<Open(active), ContextOn>>)
      BY <1>1, <1>9, <2>1 DEF SetContext, ContextOn
    <3>2. PICK m \in Message, on \in Message : m = Open(active) /\ on = ContextOn
      BY <2>1, MessageFacts
    <3>3. /\ <<m, on>> \in Seq(Message) /\ Len(<<m, on>>) = 2
          /\ <<m, on>>[1] = m /\ <<m, on>>[2] = on
      OBVIOUS
    <3> QED
      BY <3>1, <3>2, <3>3
  <2>3. highlights' \in Worker /\ Len(highlights.queue) \in Nat
    BY <1>2, <2>2, HighlightsPosted
  <2>4. Len(highlights'.queue) = Len(highlights.queue) + 2
    BY <1>2, <2>2, HighlightsPosted
  <2>5. DOMAIN highlights'.queue = 1 .. Len(highlights'.queue)
    BY <1>2, <2>2, HighlightsPosted
  <2>6. \A i \in 1 .. Len(messages) :
          highlights'.queue[Len(highlights.queue) + i] = messages[i]
    BY <1>2, <2>2, HighlightsPosted
  <2>7. /\ highlights'.queue[Len(highlights.queue) + 1] = Open(active)
        /\ highlights'.queue[Len(highlights.queue) + 2] = ContextOn
    BY <2>2, <2>6
  <2>8. MarksDataOK'
    BY <1>1, <1>2, <1>3, <2>3 DEF MarksDataOK
  <2>9. PICK i \in 0 .. Len(highlights'.queue) :
          /\ i = Len(highlights'.queue) /\ i > 1
          /\ i - 1 = Len(highlights.queue) + 1 /\ i = Len(highlights.queue) + 2
    <3>1. /\ Len(highlights'.queue) \in 0 .. Len(highlights'.queue)
          /\ Len(highlights'.queue) > 1
          /\ Len(highlights'.queue) - 1 = Len(highlights.queue) + 1
      BY <2>3, <2>4
    <3> QED
      BY <2>4, <3>1
  <2>10. \A j \in DOMAIN highlights'.queue : ~(j > i)
    BY <2>5, <2>9
  <2>11. AddsAfter(highlights'.queue, i, rows'[active])
    BY <2>10 DEF AddsAfter
  <2>12. highlights'.queue[i] = ContextOn /\ highlights'.queue[i - 1] = Open(active)
    BY <2>7, <2>9
  <2>13. ~(i <= 1) /\ i # 0
    BY <2>9
  <2>14. HighlightsContextAt(i)'
    BY <1>1, <2>11, <2>12, <2>13 DEF HighlightsContextAt
  <2>15. HighlightsInv'
    BY <2>14 DEF HighlightsInv
  <2> QED
    BY <1>4, <1>5, <1>6, <1>7, <2>8, <2>15, MarksTypeParts DEF MarksInv
<1> QED
  BY <1>8, <1>9

-----------------------------------------------------------------------------
(* Every step keeps the invariant                                          *)

LEMMA MarksNextKeeps == MarksInv /\ [MarksNext]_marksVars => MarksInv'
<1> SUFFICES ASSUME MarksInv, [MarksNext]_marksVars PROVE MarksInv'
  OBVIOUS
<1>1. CASE SpotWorker
  BY <1>1, SpotWorkerKeeps
<1>2. CASE HighlightWorker
  BY <1>2, HighlightWorkerKeeps
<1>3. CASE ShowCluster
  BY <1>3, ShowClusterKeeps
<1>4. CASE WorkerStarted
  BY <1>4, WorkerStartedKeeps
<1>5. CASE OnWorkerInitialized
  BY <1>5, OnWorkerInitializedKeeps
<1>6. ASSUME NEW c \in Contests, OpenContest(c) \/ ActivateFails(c) PROVE MarksInv'
  BY <1>6, OpenContestKeeps, ActivateFailsKeeps
<1>7. CASE ReopenFails \/ UNCHANGED marksVars
  BY <1>7, ReopenFailsKeeps
<1>8. ASSUME NEW q \in Typed, Save(q) \/ Refuse(q) PROVE MarksInv'
  BY <1>8, SaveKeeps, RefuseKeeps
<1>9. ASSUME NEW q \in Automatic, LogWsjtx(q) PROVE MarksInv'
  BY <1>9, LogWsjtxKeeps
<1>10. CASE Post
  BY <1>10, PostKeeps
<1>11. CASE Dismiss
  BY <1>11, DismissKeeps
<1>12. CASE ChangeLog
  BY <1>12, ChangeLogKeeps
<1>13. CASE WsjtxConnects
  BY <1>13, WsjtxConnectsKeeps
<1> QED
  BY <1>1, <1>2, <1>3, <1>4, <1>5, <1>6, <1>7, <1>8, <1>9, <1>10, <1>11, <1>12, <1>13
  DEF MarksNext

THEOREM MarksInvariance == MarksSpec => []MarksInv
BY MarksInitInv, MarksNextKeeps, PTL DEF MarksSpec

(* Every variable of the workers and of the session keeps its type: only   *)
(* contacts are remembered and only messages are posted.                   *)
THEOREM MarksTypes == MarksSpec => []MarksTypeOK
<1>1. MarksInv => MarksTypeOK
  BY DEF MarksInv
<1> QED
  BY <1>1, MarksInvariance, PTL

(* A spot worker with the file of the active contest knows every contact   *)
(* of it, or the message is on its way, and marks no other but one that    *)
(* was refused, for any contests and contacts and however long the queue:  *)
(* the last context precedes every contact it does not count               *)
(* (DXClusterWindow::setActiveContest, updateUIAfterQSOLogged).            *)
THEOREM SpotsKnowTheLog == MarksSpec => []SpotsShowTheLog
<1>1. MarksInv => SpotsShowTheLog
  <2> SUFFICES ASSUME MarksInv, stage = "ready", spotsTold, UpToDate(spots),
                      spots.file = active
               PROVE  SpotsAreMarked
    BY DEF SpotsShowTheLog
  <2>1. MarksDataOK /\ SpotsInv
    BY MarksParts
  <2>2. PICK i \in 0 .. Len(spots.queue) : SpotsContextAt(i)
    BY <2>1 DEF SpotsInv
  <2>3. DOMAIN spots.queue = 1 .. Len(spots.queue) /\ Len(spots.queue) \in Nat
    BY <2>1, WorkerFacts DEF MarksDataOK
  <2>4. i = 0
    <3> SUFFICES ASSUME i # 0 PROVE FALSE
      OBVIOUS
    <3>1. i \in DOMAIN spots.queue /\ i > 0
      BY <2>3
    <3>2. spots.queue[i] = ContextOn
      BY <2>2, <3>1 DEF SpotsContextAt
    <3>3. spots.queue[i].kind = "add"
      BY <3>1 DEF UpToDate
    <3>4. ContextOn.kind = "context"
      BY MessageFacts
    <3> QED
      BY <3>2, <3>3, <3>4
  <2>5. /\ AddsAfter(spots.queue, 0, rows[active] \cup refused)
        /\ rows[active] \cap Typed \subseteq spots.cache \cup Coming(spots) \cup {saved}
        /\ spots.cache \subseteq rows[active] \cup refused
    BY <2>2, <2>4 DEF SpotsContextAt
  <2>6. Coming(spots) \subseteq rows[active] \cup refused
    <3> SUFFICES ASSUME NEW q \in Contacts, NEW j \in DOMAIN spots.queue,
                        spots.queue[j] = Add(q)
                 PROVE  q \in rows[active] \cup refused
      BY DEF Coming
    <3>1. j > 0
      BY <2>3
    <3>2. spots.queue[j].qso \in rows[active] \cup refused
      BY <2>5, <3>1 DEF AddsAfter
    <3> QED
      BY <3>2, MessageFacts
  <2> QED
    BY <2>5, <2>6 DEF SpotsAreMarked
<1> QED
  BY <1>1, MarksInvariance, PTL

(* Once WSJT-X connected under a contest, its worker marks only what is in *)
(* the log, and with the file open it knows every station worked with      *)
(* WSJT-X in that contest, or the message is on its way: the file goes to  *)
(* it before the context, and every contact after                          *)
(* (WSJTXController::setContestContext, onWSJTXQSOReady).                  *)
THEOREM HighlightsKnowTheLog == MarksSpec => []HighlightsShowTheLog
<1>1. MarksInv => HighlightsShowTheLog
  <2> SUFFICES ASSUME MarksInv, highlightsTold, UpToDate(highlights)
               PROVE  /\ highlights.cache \subseteq rows[active]
                      /\ highlights.file = active => HighlightsAreMarked
    BY DEF HighlightsShowTheLog
  <2>1. MarksDataOK /\ HighlightsInv
    BY MarksParts
  <2>2. PICK i \in 0 .. Len(highlights.queue) : HighlightsContextAt(i)
    BY <2>1 DEF HighlightsInv
  <2>3. DOMAIN highlights.queue = 1 .. Len(highlights.queue) /\ Len(highlights.queue) \in Nat
    BY <2>1, WorkerFacts DEF MarksDataOK
  <2>4. i = 0
    <3> SUFFICES ASSUME i # 0 PROVE FALSE
      OBVIOUS
    <3>1. i \in DOMAIN highlights.queue /\ i > 0
      BY <2>3
    <3>2. highlights.queue[i] = ContextOn
      BY <2>2, <3>1 DEF HighlightsContextAt
    <3>3. highlights.queue[i].kind = "add"
      BY <3>1 DEF UpToDate
    <3>4. ContextOn.kind = "context"
      BY MessageFacts
    <3> QED
      BY <3>2, <3>3, <3>4
  <2> QED
    BY <2>2, <2>4 DEF HighlightsContextAt, HighlightsAreMarked
<1> QED
  BY <1>1, MarksInvariance, PTL
=============================================================================
