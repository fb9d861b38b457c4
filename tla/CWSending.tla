------------------------------ MODULE CWSending ------------------------------
(***************************************************************************)
(* CW over a serial line: CWService and its DtrRtsCWSender on the main     *)
(* thread, DtrRtsWorker with its MorseEncoder on a thread of its own, and  *)
(* the iambic keyer on a third. With a DTR/RTS profile messages and paddle *)
(* key the line; with a CAT profile the paddle keys the radio's PTT (what  *)
(* the radio does with text sent by CAT is not modelled). Radio switches   *)
(* and Preferences activate profiles.                                      *)
(***************************************************************************)
EXTENDS Naturals, Sequences

CONSTANTS
    MaxElements,  \* dits and dahs in a message
    MaxActs,      \* bound: what the operator does
    MaxQueue      \* bound: a paddle element takes so long that the queues
                  \* drain to this length

ASSUME CWAssumption == {MaxElements, MaxActs, MaxQueue} \subseteq Nat

VARIABLES
    output,    \* m_outputMode
    sender,    \* the state of the DTR/RTS sender; "none" when there is none
    portOpen,  \* its m_portOpen
    wired,     \* whether the keyer is connected to the output
    paddled,   \* keyDown and keyUp queued to the sender
    requests,  \* calls queued to the worker
    posted,    \* the worker's signals queued to the sender
    port,      \* the worker's port
    encoder,   \* the encoder's state
    left,      \* elements it has still to start
    line,      \* the DTR or RTS line: the transmitter is keyed
    tone,      \* the iambic keyer is between its keyDown and its keyUp
    ptt,       \* the PTT of the radio, by sendKeyDown and sendKeyUp
    acts,      \* what the operator did
    escaped,   \* history: Escape came after the last message
    overlap    \* history: that message was asked for before the one
               \* before it was over

main == <<output, sender, portOpen, wired>>
queues == <<paddled, requests, posted>>
worker == <<port, encoder, left, line>>
vars == <<main, queues, worker, tone, ptt, acts, escaped, overlap>>

Requests == [op : {"send"}, n : 0..MaxElements] \cup [op : {"stop", "down", "up"}]
Stop == [op |-> "stop"]
Key(down) == [op |-> IF down THEN "down" ELSE "up"]

Drained == paddled = <<>> /\ requests = <<>> /\ posted = <<>>

(* createSenderFromProfile: a DTR/RTS sender starts its worker. *)
CreateSender(o) ==
    IF o = "DtrRts" THEN sender' = "Idle" /\ port' = "starting"
                    ELSE sender' = "none" /\ port' = "none"

Init ==
    /\ output \in {"CAT", "DtrRts"} /\ wired = TRUE /\ portOpen = FALSE
    /\ sender = (IF output = "DtrRts" THEN "Idle" ELSE "none")
    /\ port = (IF output = "DtrRts" THEN "starting" ELSE "none")
    /\ paddled = <<>> /\ requests = <<>> /\ posted = <<>>
    /\ encoder = "Idle" /\ left = 0 /\ line = FALSE
    /\ tone = FALSE /\ ptt = FALSE /\ acts = 0
    /\ escaped = FALSE /\ overlap = FALSE

Act == acts < MaxActs /\ acts' = acts + 1

-----------------------------------------------------------------------------
(* The main thread. *)

(* DtrRtsCWSender::send by a function key, once the port is known to be open *)
Send(n) ==
    /\ Act /\ portOpen /\ wired
    /\ sender' = "Sending"
    /\ requests' = Append(requests, [op |-> "send", n |-> n])
    /\ escaped' = FALSE
    /\ overlap' = ~(requests = <<>> /\ posted = <<>> /\ encoder = "Idle")
    /\ UNCHANGED <<output, portOpen, wired, paddled, posted, worker, tone, ptt>>

(* stopAllCW: the sender is asked to stop unless it is idle. *)
Escape ==
    /\ Act /\ wired
    /\ IF sender \in {"none", "Idle"}
       THEN UNCHANGED <<sender, requests>>
       ELSE sender' = "Stopping" /\ requests' = Append(requests, Stop)
    /\ escaped' = TRUE
    /\ UNCHANGED <<output, portOpen, wired, paddled, posted, worker, tone, ptt, overlap>>

(* Mutant of DestroySender: the worker leaves the line as it is. *)
DestroySenderKeyed ==
    /\ Act /\ wired /\ wired' = FALSE
    /\ sender' = "none" /\ portOpen' = FALSE /\ port' = "none"
    /\ paddled' = <<>> /\ requests' = <<>> /\ posted' = <<>>
    /\ encoder' = "Idle" /\ left' = 0
    /\ UNCHANGED <<output, line, tone, ptt, escaped, overlap>>
(* activateCWProfile as far as destroySender: the keyer is disconnected, the
   old sender's worker ends, lowers the line and closes the port, and what was
   queued to either is gone. *)
DestroySender ==
    /\ Act /\ wired /\ wired' = FALSE
    /\ sender' = "none" /\ portOpen' = FALSE /\ port' = "none"
    /\ paddled' = <<>> /\ requests' = <<>> /\ posted' = <<>>
    /\ encoder' = "Idle" /\ left' = 0 /\ line' = FALSE
    /\ UNCHANGED <<output, tone, ptt, escaped, overlap>>

(* the rest of activateCWProfile, the keyer thread having run in between *)
ActivateCWProfile(o) ==
    /\ ~wired /\ wired' = TRUE /\ output' = o
    /\ CreateSender(o)
    /\ UNCHANGED <<portOpen, queues, encoder, left, line, tone, ptt, acts, escaped, overlap>>

(* The sender passes the paddle on to its worker. *)
PassPaddle ==
    /\ paddled # <<>> /\ wired
    /\ requests' = Append(requests, Head(paddled)) /\ paddled' = Tail(paddled)
    /\ UNCHANGED <<main, posted, worker, tone, ptt, acts, escaped, overlap>>

(* The sender hears of its worker. *)
OnWorker ==
    /\ posted # <<>> /\ wired /\ posted' = Tail(posted)
    /\ IF Head(posted) = "initialized"
       THEN portOpen' = (port = "open") /\ UNCHANGED sender
       ELSE sender' = "Idle" /\ UNCHANGED portOpen
    /\ UNCHANGED <<output, wired, paddled, requests, worker, tone, ptt, acts, escaped, overlap>>

-----------------------------------------------------------------------------
(* The keyer thread: sent straight to the radio or queued to the sender. *)

SetTone(down) ==
    /\ tone = ~down /\ tone' = down
    /\ ptt' = IF wired /\ output = "CAT" THEN down ELSE ptt
    /\ paddled' = IF wired /\ output = "DtrRts" THEN Append(paddled, Key(down)) ELSE paddled
    /\ UNCHANGED <<main, requests, posted, worker, acts, escaped, overlap>>

KeyDown == Len(paddled) + Len(requests) < MaxQueue /\ SetTone(TRUE)
KeyUp == SetTone(FALSE)

-----------------------------------------------------------------------------
(* The worker thread. *)

(* init; the port may be missing or in use *)
InitWorker ==
    /\ port = "starting" /\ port' \in {"open", "failed"}
    /\ posted' = Append(posted, "initialized")
    /\ UNCHANGED <<main, paddled, requests, encoder, left, line, tone, ptt, acts, escaped, overlap>>

Take(op) ==
    /\ port \in {"open", "failed"}
    /\ requests # <<>> /\ Head(requests).op = op /\ requests' = Tail(requests)
    /\ UNCHANGED <<main, paddled, port, tone, ptt, acts, escaped, overlap>>

(* setKeyLine does nothing on a port that is not open. *)
SetKeyLine(down) == line' = (down /\ port = "open")

(* MorseEncoder::stop tells the sender when it was sending. *)
Stopped == IF encoder = "Idle" THEN <<>> ELSE <<"complete">>

(* doSend: a message without a known character is over at once. *)
DoSend ==
    /\ Take("send")
    /\ LET n == Head(requests).n IN
       IF n = 0
       THEN /\ encoder' = "Idle" /\ left' = 0 /\ SetKeyLine(FALSE)
            /\ posted' = posted \o Stopped \o <<"complete">>
       ELSE /\ encoder' = "Element" /\ left' = n - 1 /\ SetKeyLine(TRUE)
            /\ posted' = posted \o Stopped

(* Mutant of DoStop: between two elements the encoder's timer goes on. *)
DoStopElement ==
    /\ Take("stop") /\ SetKeyLine(FALSE)
    /\ IF encoder = "Gap"
       THEN UNCHANGED <<encoder, left, posted>>
       ELSE encoder' = "Idle" /\ left' = 0 /\ posted' = posted \o Stopped
(* Mutant of DoStop: the encoder does not say that it stopped. *)
DoStopSilent ==
    /\ Take("stop") /\ SetKeyLine(FALSE)
    /\ encoder' = "Idle" /\ left' = 0 /\ UNCHANGED posted
(* doStop *)
DoStop ==
    /\ Take("stop") /\ SetKeyLine(FALSE)
    /\ encoder' = "Idle" /\ left' = 0
    /\ posted' = posted \o Stopped

(* doKeyDown and doKeyUp: whatever the encoder does with the line *)
DoKey(down) ==
    /\ Take(Key(down).op) /\ SetKeyLine(down)
    /\ UNCHANGED <<encoder, left, posted>>

(* The encoder's timer: an element ends, and a gap or the end follows; a gap
   is followed by an element, or by the end when only unknown characters are
   left. *)
OnTimerExpired ==
    /\ \/ /\ encoder = "Element" /\ SetKeyLine(FALSE)
          /\ encoder' = "Gap" /\ UNCHANGED <<left, posted>>
       \/ /\ encoder = "Element" /\ left = 0 /\ SetKeyLine(FALSE)
          /\ encoder' = "Idle" /\ posted' = Append(posted, "complete")
          /\ UNCHANGED left
       \/ /\ encoder = "Gap" /\ left > 0 /\ SetKeyLine(TRUE)
          /\ encoder' = "Element" /\ left' = left - 1 /\ UNCHANGED posted
       \/ /\ encoder = "Gap" /\ left = 0 /\ SetKeyLine(FALSE)
          /\ encoder' = "Idle" /\ posted' = Append(posted, "complete")
          /\ UNCHANGED left
    /\ UNCHANGED <<main, paddled, requests, port, tone, ptt, acts, escaped, overlap>>

Main == DestroySender \/ (\E o \in {"CAT", "DtrRts"} : ActivateCWProfile(o))
            \/ PassPaddle \/ OnWorker
Worker == InitWorker \/ DoSend \/ DoStop \/ (\E down \in BOOLEAN : DoKey(down))
Next ==
    \/ \E n \in 0..MaxElements : Send(n)
    \/ Escape \/ Main \/ KeyDown \/ KeyUp \/ Worker \/ OnTimerExpired

(* Both threads run their event loops, and a running timer fires. Nobody has
   to send, stop, key or switch, but a switch that was begun is finished. *)
Fairness ==
    /\ WF_vars(PassPaddle) /\ WF_vars(OnWorker) /\ WF_vars(Worker)
    /\ WF_vars(\E o \in {"CAT", "DtrRts"} : ActivateCWProfile(o))
    /\ WF_vars(OnTimerExpired)
Spec == Init /\ [][Next]_vars /\ Fairness

-----------------------------------------------------------------------------
TypeOK ==
    /\ output \in {"CAT", "DtrRts"} /\ sender \in {"none", "Idle", "Sending", "Stopping"}
    /\ {portOpen, wired, line, tone, ptt, escaped, overlap} \subseteq BOOLEAN
    /\ paddled \in Seq([op : {"down", "up"}])
    /\ requests \in Seq(Requests)
    /\ posted \in Seq({"initialized", "complete"})
    /\ port \in {"none", "starting", "open", "failed"}
    /\ encoder \in {"Idle", "Element", "Gap"} /\ left \in 0..MaxElements
    /\ acts \in 0..MaxActs

Under(op, q) == \E i \in 1..Len(q) : q[i].op = op

(* The transmitter is keyed over the line only by an element of a message, by
   a tone of the paddle, or until the end of that tone has made its way through
   the two queues, wherever a stop, a second message or a change of profile
   comes in between. *)
KeyedIsMeant ==
    line => encoder = "Element" \/ tone \/ Under("up", paddled) \/ Under("up", requests)

(* CWService.h:186, "Stop all CW output": after Escape the encoder is silent
   once the queues are served, and stays so until the next message. *)
EscapeStops == escaped /\ Drained => encoder = "Idle"

(* So it is, however soon Escape follows, when the message did not replace
   another that was not over yet. *)
EscapeStopsOne == ~overlap => EscapeStops

(* A sender that is sending or stopping becomes idle: the end of a message, the
   end by a stop and the end by a change of profile all reach it. *)
ComesToIdle == sender \in {"Sending", "Stopping"} ~> sender \in {"none", "Idle"}
=============================================================================
