--------------------------- MODULE CWSendingProofs ---------------------------
(***************************************************************************)
(* Proofs about CW over a serial line, for messages of any length, any     *)
(* number of acts and queues of any length.                                *)
(***************************************************************************)
EXTENDS CWSending, TLAPS

Follows(i, op, q) == \E j \in (i + 1)..Len(q) : q[j].op = op

(* Every a in the queue has a b behind it, unless done. *)
Answered(a, b, q, done) ==
    \A i \in 1..Len(q) : q[i].op = a => done \/ Follows(i, b, q)

Single(op, q) ==
    \A i, j \in 1..Len(q) : q[i].op = op /\ q[j].op = op => i = j

Completed == \E i \in 1..Len(posted) : posted[i] = "complete"

(* Nothing is keyed or queued without a DTR/RTS sender. *)
Off ==
    ~wired \/ output = "CAT" =>
        /\ port = "none" /\ sender = "none" /\ ~portOpen
        /\ ~line /\ encoder = "Idle" /\ Drained

(* Every keyDown on its way has its keyUp behind it or to come. *)
DownsEnd ==
    /\ Answered("down", "up", paddled, tone)
    /\ Answered("down", "up", requests, tone \/ Under("up", paddled))

(* A message that replaced no other: it is sent once, ... *)
OneSend ==
    ~overlap /\ Under("send", requests) =>
        encoder = "Idle" /\ Single("send", requests)

(* ... the main thread knows that it is being sent, ... *)
Known ==
    ~overlap /\ (encoder # "Idle" \/ Under("send", requests)) =>
        sender \in {"Sending", "Stopping"} /\ ~Completed

(* ... and after Escape a stop comes behind it. *)
StopComes ==
    escaped /\ ~overlap =>
        /\ encoder # "Idle" => Under("stop", requests)
        /\ Answered("send", "stop", requests, FALSE)

IInv ==
    /\ TypeOK /\ Off /\ DownsEnd /\ KeyedIsMeant
    /\ OneSend /\ Known /\ StopComes

-----------------------------------------------------------------------------
(* Queues. *)

LEMMA Bounds == MaxElements \in Nat /\ MaxActs \in Nat /\ MaxQueue \in Nat
    BY CWAssumption DEF CWAssumption

LEMMA QueuePut ==
    ASSUME NEW S, NEW q \in Seq(S), NEW s \in S
    PROVE  /\ Append(q, s) \in Seq(S) /\ Len(Append(q, s)) = Len(q) + 1
           /\ Append(q, s) # <<>> /\ Len(q) \in Nat
           /\ \A i \in 1..Len(q) : Append(q, s)[i] = q[i]
           /\ Append(q, s)[Len(q) + 1] = s
    OBVIOUS

LEMMA QueueTake ==
    ASSUME NEW S, NEW q \in Seq(S), q # <<>>
    PROVE  /\ Tail(q) \in Seq(S) /\ Len(Tail(q)) = Len(q) - 1
           /\ Head(q) \in S /\ Head(q) = q[1] /\ Len(q) \in Nat \ {0}
           /\ \A i \in 1..Len(q) - 1 : Tail(q)[i] = q[i + 1]
    OBVIOUS

LEMMA UnderPut ==
    ASSUME NEW S, NEW q \in Seq(S), NEW s \in S, NEW op
    PROVE  Under(op, Append(q, s)) <=> Under(op, q) \/ s.op = op
<1> DEFINE r == Append(q, s)
<1>1. /\ Len(r) = Len(q) + 1 /\ Len(q) \in Nat
      /\ \A i \in 1..Len(q) : r[i] = q[i]
      /\ r[Len(q) + 1] = s
    BY QueuePut
<1>2. (\E i \in 1..Len(r) : r[i].op = op) <=> (\E i \in 1..Len(q) : q[i].op = op) \/ s.op = op
    <2> HIDE DEF r
    <2>1. 1..Len(r) = 1..Len(q) \cup {Len(q) + 1}
        BY <1>1
    <2> QED
        BY <1>1, <2>1
<1> QED
    BY <1>2 DEF Under

LEMMA UnderTake ==
    ASSUME NEW S, NEW q \in Seq(S), q # <<>>, NEW op
    PROVE  Under(op, q) <=> Under(op, Tail(q)) \/ Head(q).op = op
<1> DEFINE r == Tail(q)
<1>1. /\ Len(r) = Len(q) - 1 /\ Head(q) = q[1] /\ Len(q) \in Nat \ {0}
      /\ \A i \in 1..Len(q) - 1 : r[i] = q[i + 1]
    BY QueueTake
<1> HIDE DEF r
<1>2. ASSUME NEW i \in 1..Len(q), q[i].op = op
      PROVE  (\E j \in 1..Len(r) : r[j].op = op) \/ Head(q).op = op
    <2>1. i = 1 \/ (i - 1 \in 1..Len(r) /\ r[i - 1] = q[i])
        BY <1>1
    <2> QED
        BY <1>1, <1>2, <2>1
<1>3. ASSUME NEW j \in 1..Len(r), r[j].op = op
      PROVE  \E i \in 1..Len(q) : q[i].op = op
    <2>1. j + 1 \in 1..Len(q) /\ q[j + 1] = r[j]
        BY <1>1
    <2> QED
        BY <1>3, <2>1
<1>4. Head(q).op = op => \E i \in 1..Len(q) : q[i].op = op
    BY <1>1
<1> QED
    BY <1>2, <1>3, <1>4 DEF Under, r

LEMMA AnsweredDone ==
    ASSUME NEW a, NEW b, NEW q, NEW d \in BOOLEAN, NEW e \in BOOLEAN,
           Answered(a, b, q, d), d => e
    PROVE  Answered(a, b, q, e)
    BY DEF Answered

(* Something else is queued behind the others. *)
LEMMA AnsweredPut ==
    ASSUME NEW S, NEW q \in Seq(S), NEW s \in S, NEW a, NEW b,
           NEW d \in BOOLEAN, Answered(a, b, q, d), s.op # a
    PROVE  Answered(a, b, Append(q, s), d)
<1> DEFINE r == Append(q, s)
<1>1. /\ Len(r) = Len(q) + 1 /\ Len(q) \in Nat
      /\ \A i \in 1..Len(q) : r[i] = q[i]
      /\ r[Len(q) + 1] = s
    BY QueuePut
<1> HIDE DEF r
<1>2. ASSUME NEW i \in 1..Len(r), r[i].op = a, ~d
      PROVE  \E j \in (i + 1)..Len(r) : r[j].op = b
    <2>1. i \in 1..Len(q) /\ q[i].op = a
        BY <1>1, <1>2
    <2>2. PICK j \in (i + 1)..Len(q) : q[j].op = b
        BY <1>2, <2>1 DEF Answered, Follows
    <2>3. j \in (i + 1)..Len(r) /\ r[j] = q[j]
        BY <1>1, <2>2
    <2> QED
        BY <2>2, <2>3
<1> QED
    BY <1>2 DEF Answered, Follows, r

(* An answer queued behind the others answers them all. *)
LEMMA AnsweredAll ==
    ASSUME NEW S, NEW q \in Seq(S), NEW s \in S, NEW a, NEW b,
           s.op = b, a # b
    PROVE  Answered(a, b, Append(q, s), FALSE)
<1> DEFINE r == Append(q, s)
<1>1. /\ Len(r) = Len(q) + 1 /\ Len(q) \in Nat
      /\ \A i \in 1..Len(q) : r[i] = q[i]
      /\ r[Len(q) + 1] = s
    BY QueuePut
<1> HIDE DEF r
<1>2. ASSUME NEW i \in 1..Len(r), r[i].op = a
      PROVE  \E j \in (i + 1)..Len(r) : r[j].op = b
    <2>1. i # Len(q) + 1
        BY <1>1, <1>2
    <2>2. Len(q) + 1 \in (i + 1)..Len(r)
        BY <1>1, <2>1
    <2> QED
        BY <1>1, <2>2
<1> QED
    BY <1>2 DEF Answered, Follows, r

LEMMA AnsweredTake ==
    ASSUME NEW S, NEW q \in Seq(S), q # <<>>, NEW a, NEW b,
           NEW d \in BOOLEAN, Answered(a, b, q, d)
    PROVE  /\ Answered(a, b, Tail(q), d)
           /\ Head(q).op = a => d \/ Under(b, Tail(q))
<1> DEFINE r == Tail(q)
<1>1. /\ Len(r) = Len(q) - 1 /\ Head(q) = q[1] /\ Len(q) \in Nat \ {0}
      /\ \A i \in 1..Len(q) - 1 : r[i] = q[i + 1]
    BY QueueTake
<1> HIDE DEF r
<1>2. ASSUME NEW i \in 0..Len(r), q[i + 1].op = a, ~d
      PROVE  \E j \in (i + 1)..Len(r) : r[j].op = b
    <2>1. i + 1 \in 1..Len(q)
        BY <1>1
    <2>2. PICK k \in (i + 2)..Len(q) : q[k].op = b
        BY <1>2, <2>1 DEF Answered, Follows
    <2>3. k - 1 \in (i + 1)..Len(r) /\ r[k - 1] = q[k]
        BY <1>1, <2>2
    <2> QED
        BY <2>2, <2>3
<1>3. ASSUME NEW i \in 1..Len(r), r[i].op = a, ~d
      PROVE  \E j \in (i + 1)..Len(r) : r[j].op = b
    BY <1>1, <1>2, <1>3
<1>4. ASSUME Head(q).op = a, ~d
      PROVE  \E j \in 1..Len(r) : r[j].op = b
    BY <1>1, <1>2, <1>4
<1> QED
    BY <1>3, <1>4 DEF Answered, Follows, Under, r

LEMMA SinglePut ==
    ASSUME NEW S, NEW q \in Seq(S), NEW s \in S, NEW op,
           \/ Single(op, q) /\ s.op # op
           \/ ~Under(op, q)
    PROVE  Single(op, Append(q, s))
<1> DEFINE r == Append(q, s)
<1>1. /\ Len(r) = Len(q) + 1 /\ Len(q) \in Nat
      /\ \A i \in 1..Len(q) : r[i] = q[i]
      /\ r[Len(q) + 1] = s
    BY QueuePut
<1> HIDE DEF r
<1>2. ASSUME NEW i \in 1..Len(r), NEW j \in 1..Len(r), r[i].op = op, r[j].op = op
      PROVE  i = j
    <2>1. \A k \in 1..Len(r) : k \in 1..Len(q) \/ k = Len(q) + 1
        BY <1>1
    <2> QED
        BY <1>1, <1>2, <2>1 DEF Single, Under
<1> QED
    BY <1>2 DEF Single, r

LEMMA SingleTake ==
    ASSUME NEW S, NEW q \in Seq(S), q # <<>>, NEW op, Single(op, q)
    PROVE  Single(op, Tail(q)) /\ (Head(q).op = op => ~Under(op, Tail(q)))
<1> DEFINE r == Tail(q)
<1>1. /\ Len(r) = Len(q) - 1 /\ Head(q) = q[1] /\ Len(q) \in Nat \ {0}
      /\ \A i \in 1..Len(q) - 1 : r[i] = q[i + 1]
    BY QueueTake
<1> HIDE DEF r
<1>2. \A i \in 1..Len(r) : i + 1 \in 1..Len(q) /\ i + 1 # 1 /\ r[i] = q[i + 1]
    BY <1>1
<1>3. ASSUME NEW i \in 1..Len(r), NEW j \in 1..Len(r), r[i].op = op, r[j].op = op
      PROVE  i = j
    <2>1. i + 1 = j + 1
        BY <1>2, <1>3 DEF Single
    <2> QED
        BY <2>1
<1>4. ASSUME Head(q).op = op, NEW i \in 1..Len(r), r[i].op = op
      PROVE  FALSE
    <2>1. 1 \in 1..Len(q)
        BY <1>1
    <2> QED
        BY <1>1, <1>2, <1>4, <2>1 DEF Single
<1> QED
    BY <1>3, <1>4 DEF Single, Under, r

(* A signal is posted behind the others. *)
LEMMA Post ==
    ASSUME TypeOK, NEW s \in {"initialized", "complete"}
    PROVE  /\ Append(posted, s) \in Seq({"initialized", "complete"})
           /\ posted' = Append(posted, s) /\ s # "complete" => (Completed' <=> Completed)
<1> DEFINE r == Append(posted, s)
<1>1. /\ r \in Seq({"initialized", "complete"})
      /\ Len(r) = Len(posted) + 1 /\ Len(posted) \in Nat
      /\ \A i \in 1..Len(posted) : r[i] = posted[i]
      /\ r[Len(posted) + 1] = s
    BY QueuePut DEF TypeOK
<1>2. s # "complete" => ((\E i \in 1..Len(r) : r[i] = "complete") <=>
                         (\E i \in 1..Len(posted) : posted[i] = "complete"))
    <2> HIDE DEF r
    <2>1. 1..Len(r) = 1..Len(posted) \cup {Len(posted) + 1}
        BY <1>1
    <2> QED
        BY <1>1, <2>1
<1> QED
    BY <1>1, <1>2 DEF Completed

-----------------------------------------------------------------------------
(* One lemma for each kind of step. *)

LEMMA InitIInv == Init => IInv
<1> SUFFICES ASSUME Init
             PROVE  IInv
    OBVIOUS
<1>1. TypeOK
    <2>1. {portOpen, wired, line, tone, ptt, escaped, overlap} \subseteq BOOLEAN
        BY Zenon DEF Init
    <2>2. /\ output \in {"CAT", "DtrRts"} /\ encoder = "Idle" /\ left = 0 /\ acts = 0
          /\ paddled = <<>> /\ requests = <<>> /\ posted = <<>>
          /\ sender \in {"none", "Idle"} /\ port \in {"none", "starting"}
        BY DEF Init
    <2> QED
        BY <2>1, <2>2, Bounds DEF TypeOK
<1>2. Off
    BY DEF Init, Off, Drained
<1>3. DownsEnd /\ KeyedIsMeant
    BY DEF Init, DownsEnd, Answered, KeyedIsMeant
<1>4. ~Under("send", requests) /\ encoder = "Idle"
    BY DEF Init, Under
<1>5. StopComes
    BY Zenon DEF Init, StopComes
<1> QED
    BY <1>1, <1>2, <1>3, <1>4, <1>5 DEF IInv, OneSend, Known

(* Steps that leave the queues to the worker alone. *)
LEMMA QueuesKept ==
    ASSUME UNCHANGED <<paddled, requests>>
    PROVE  /\ DownsEnd /\ tone' = tone => DownsEnd'
           /\ KeyedIsMeant /\ UNCHANGED <<line, encoder, tone>> => KeyedIsMeant'
           /\ OneSend /\ overlap' = overlap /\ (encoder = "Idle" => encoder' = "Idle") => OneSend'
           /\ /\ StopComes /\ UNCHANGED <<escaped, overlap>>
              /\ encoder = "Idle" => encoder' = "Idle"
              => StopComes'
    BY DEF DownsEnd, KeyedIsMeant, OneSend, StopComes, Answered, Follows, Under, Single

LEMMA SendIInv ==
    ASSUME IInv, NEW n \in 0..MaxElements, Send(n)
    PROVE  IInv'
<1> DEFINE e == [op |-> "send", n |-> n]
<1>1. /\ TypeOK /\ Off /\ DownsEnd /\ KeyedIsMeant /\ e \in Requests
      /\ requests \in Seq(Requests) /\ requests' = Append(requests, e)
      /\ e.op = "send"
    BY DEF IInv, TypeOK, Requests, Send
<1>2. /\ UNCHANGED <<output, portOpen, wired, paddled, posted, port, encoder,
                     left, line, tone, ptt>>
      /\ sender' = "Sending" /\ escaped' = FALSE /\ portOpen /\ wired
    BY DEF Send, worker
<1>3. requests' \in Seq(Requests)
    BY <1>1, QueuePut
<1>4. acts' \in 0..MaxActs
    BY <1>1, Bounds DEF Send, Act, TypeOK
<1>5. overlap' \in BOOLEAN
    BY DEF Send
<1>6. TypeOK'
    BY <1>1, <1>2, <1>3, <1>4, <1>5 DEF TypeOK
<1>7. Off'
    BY <1>1, <1>2 DEF Off
<1>8. \A op : Under(op, requests') <=> Under(op, requests) \/ op = "send"
    BY <1>1, UnderPut
<1>9. DownsEnd'
    <2>1. Answered("down", "up", requests, tone \/ Under("up", paddled))
        BY <1>1 DEF DownsEnd
    <2>2. Answered("down", "up", requests', tone \/ Under("up", paddled))
        BY <1>1, <2>1, AnsweredPut DEF TypeOK
    <2> QED
        BY <1>1, <1>2, <2>2 DEF DownsEnd
<1>10. KeyedIsMeant'
    BY <1>1, <1>2, <1>8 DEF KeyedIsMeant
<1>11. CASE overlap'
    BY <1>2, <1>6, <1>7, <1>9, <1>10, <1>11 DEF IInv, OneSend, Known, StopComes
<1>12. CASE ~overlap'
    <2>1. requests = <<>> /\ posted = <<>> /\ encoder = "Idle"
        BY <1>12 DEF Send
    <2>2. ~Under("send", requests)
        BY <2>1 DEF Under
    <2>3. Single("send", requests')
        BY <1>1, <2>2, SinglePut
    <2>4. OneSend'
        BY <1>2, <2>1, <2>3 DEF OneSend
    <2>5. Known'
        BY <1>2, <2>1 DEF Known, Completed
    <2>6. StopComes'
        BY <1>2 DEF StopComes
    <2> QED
        BY <1>6, <1>7, <1>9, <1>10, <2>4, <2>5, <2>6 DEF IInv
<1> QED
    BY <1>11, <1>12

LEMMA EscapeIInv ==
    ASSUME IInv, Escape
    PROVE  IInv'
<1>1. /\ TypeOK /\ Off /\ DownsEnd /\ KeyedIsMeant /\ OneSend /\ Known /\ StopComes
      /\ requests \in Seq(Requests) /\ Stop \in Requests /\ Stop.op = "stop"
    BY DEF IInv, TypeOK, Requests, Stop
<1>2. /\ UNCHANGED <<output, portOpen, wired, paddled, posted, port, encoder,
                     left, line, tone, ptt, overlap>>
      /\ escaped' = TRUE /\ wired
    BY DEF Escape, worker
<1>3. acts' \in 0..MaxActs
    BY <1>1, Bounds DEF Escape, Act, TypeOK
<1>4. CASE sender \in {"none", "Idle"}
    <2>1. UNCHANGED <<sender, requests>>
        BY <1>4 DEF Escape
    <2>2. TypeOK'
        BY <1>1, <1>2, <1>3, <2>1 DEF TypeOK
    <2>3. Off'
        BY <1>1, <1>2, <2>1 DEF Off, Drained
    <2>4. DownsEnd' /\ KeyedIsMeant' /\ OneSend'
        BY <1>1, <1>2, <2>1, QueuesKept
    <2>5. Known'
        BY <1>1, <1>2, <2>1 DEF Known, Completed
    <2>6. ~overlap => encoder = "Idle" /\ ~Under("send", requests)
        BY <1>1, <1>4 DEF Known
    <2>7. StopComes'
        BY <1>2, <2>1, <2>6 DEF StopComes, Answered, Under
    <2> QED
        BY <2>2, <2>3, <2>4, <2>5, <2>7 DEF IInv
<1>5. CASE sender \notin {"none", "Idle"}
    <2>1. sender' = "Stopping" /\ requests' = Append(requests, Stop)
        BY <1>5 DEF Escape
    <2>2. requests' \in Seq(Requests)
        BY <1>1, <2>1, QueuePut
    <2>3. TypeOK'
        BY <1>1, <1>2, <1>3, <2>1, <2>2 DEF TypeOK
    <2>4. Off'
        BY <1>1, <1>2, <1>5 DEF Off
    <2>5. \A op : Under(op, requests') <=> Under(op, requests) \/ op = "stop"
        BY <1>1, <2>1, UnderPut
    <2>6. DownsEnd'
        <3>1. Answered("down", "up", requests, tone \/ Under("up", paddled))
            BY <1>1 DEF DownsEnd
        <3>2. Answered("down", "up", requests', tone \/ Under("up", paddled))
            BY <1>1, <2>1, <3>1, AnsweredPut
        <3> QED
            BY <1>1, <1>2, <3>2 DEF DownsEnd
    <2>7. KeyedIsMeant'
        BY <1>1, <1>2, <2>5 DEF KeyedIsMeant
    <2>8. OneSend'
        <3>1. Single("send", requests) => Single("send", requests')
            BY <1>1, <2>1, SinglePut
        <3> QED
            BY <1>1, <1>2, <2>5, <3>1 DEF OneSend
    <2>9. Known'
        BY <1>1, <1>2, <2>1, <2>5 DEF Known, Completed
    <2>10. StopComes'
        <3>1. Answered("send", "stop", requests', FALSE)
            BY <1>1, <2>1, AnsweredAll
        <3> QED
            BY <2>5, <3>1 DEF StopComes
    <2> QED
        BY <2>3, <2>4, <2>6, <2>7, <2>8, <2>9, <2>10 DEF IInv
<1> QED
    BY <1>4, <1>5

LEMMA DestroyIInv ==
    ASSUME IInv, DestroySender
    PROVE  IInv'
<1>1. /\ TypeOK /\ wired' = FALSE /\ sender' = "none" /\ portOpen' = FALSE /\ port' = "none"
      /\ paddled' = <<>> /\ requests' = <<>> /\ posted' = <<>>
      /\ encoder' = "Idle" /\ left' = 0 /\ line' = FALSE
      /\ UNCHANGED <<output, tone, ptt, escaped, overlap>>
    BY DEF IInv, DestroySender
<1>2. acts' \in 0..MaxActs
    BY <1>1, Bounds DEF DestroySender, Act, TypeOK
<1>3. TypeOK'
    <2>1. ({portOpen, wired, line, tone, ptt, escaped, overlap} \subseteq BOOLEAN)'
        BY <1>1, Zenon DEF TypeOK
    <2>2. 0 \in 0..MaxElements
        BY Bounds
    <2> QED
        BY <1>1, <1>2, <2>1, <2>2 DEF TypeOK
<1>4. Off' /\ KeyedIsMeant'
    BY <1>1 DEF Off, Drained, KeyedIsMeant
<1>5. DownsEnd'
    BY <1>1 DEF DownsEnd, Answered
<1>6. ~Under("send", requests')
    BY <1>1 DEF Under
<1>7. Answered("send", "stop", requests', FALSE)
    BY <1>1 DEF Answered
<1> QED
    BY <1>1, <1>3, <1>4, <1>5, <1>6, <1>7 DEF IInv, OneSend, Known, StopComes

LEMMA ActivateIInv ==
    ASSUME IInv, NEW o \in {"CAT", "DtrRts"}, ActivateCWProfile(o)
    PROVE  IInv'
<1>1. /\ TypeOK /\ Off /\ ~wired /\ output' = o /\ wired' = TRUE
      /\ UNCHANGED <<portOpen, paddled, requests, posted, encoder, left, line,
                     tone, ptt, acts, escaped, overlap>>
    BY DEF IInv, ActivateCWProfile, queues
<1>2. /\ sender' \in {"none", "Idle"} /\ port' \in {"none", "starting"}
      /\ o = "CAT" => sender' = "none" /\ port' = "none"
    BY DEF ActivateCWProfile, CreateSender
<1>3. TypeOK'
    BY <1>1, <1>2 DEF TypeOK
<1>4. Off'
    BY <1>1, <1>2 DEF Off, Drained
<1>5. DownsEnd' /\ KeyedIsMeant' /\ OneSend' /\ StopComes'
    BY <1>1, QueuesKept DEF IInv
<1>6. encoder' = "Idle" /\ ~Under("send", requests')
    BY <1>1 DEF Off, Drained, Under
<1> QED
    BY <1>3, <1>4, <1>5, <1>6 DEF IInv, Known

LEMMA PassIInv ==
    ASSUME IInv, PassPaddle
    PROVE  IInv'
<1> DEFINE e == Head(paddled)
           K == [op : {"down", "up"}]
<1>1. /\ TypeOK /\ Off /\ DownsEnd /\ KeyedIsMeant /\ OneSend /\ Known /\ StopComes
      /\ paddled \in Seq(K) /\ paddled # <<>> /\ requests \in Seq(Requests)
      /\ requests' = Append(requests, e) /\ paddled' = Tail(paddled)
      /\ tone \in BOOLEAN
    BY DEF IInv, TypeOK, PassPaddle
<1>2. UNCHANGED <<output, sender, portOpen, wired, posted, port, encoder, left,
                  line, tone, ptt, acts, escaped, overlap>>
    BY DEF PassPaddle, main, worker
<1>3. e \in K /\ paddled' \in Seq(K)
    BY <1>1, QueueTake
<1>4. e \in Requests /\ e.op \in {"down", "up"}
    BY <1>3 DEF Requests
<1>5. requests' \in Seq(Requests)
    BY <1>1, <1>4, QueuePut
<1>6. TypeOK'
    BY <1>1, <1>2, <1>3, <1>5 DEF TypeOK
<1>7. Off'
    BY <1>1, <1>2 DEF Off, Drained
<1>8. \A op : Under(op, requests') <=> Under(op, requests) \/ e.op = op
    BY <1>1, <1>4, UnderPut
<1>9. \A op : Under(op, paddled) <=> Under(op, paddled') \/ e.op = op
    BY <1>1, UnderTake
<1>10. DownsEnd'
    <2>1. /\ Answered("down", "up", paddled', tone)
          /\ e.op = "down" => tone \/ Under("up", paddled')
        BY <1>1, AnsweredTake DEF DownsEnd
    <2>2. CASE e.op = "down"
        BY <1>2, <2>1, <2>2 DEF DownsEnd, Answered
    <2>3. CASE e.op = "up"
        <3>1. Answered("down", "up", requests', FALSE)
            BY <1>1, <1>4, <2>3, AnsweredAll
        <3> QED
            BY <1>2, <2>1, <3>1 DEF DownsEnd, Answered
    <2> QED
        BY <1>4, <2>2, <2>3
<1>11. KeyedIsMeant'
    BY <1>1, <1>2, <1>8, <1>9 DEF KeyedIsMeant
<1>12. OneSend'
    <2>1. Single("send", requests) => Single("send", requests')
        BY <1>1, <1>4, SinglePut
    <2> QED
        BY <1>1, <1>2, <1>4, <1>8, <2>1 DEF OneSend
<1>13. Known'
    BY <1>1, <1>2, <1>4, <1>8 DEF Known, Completed
<1>14. StopComes'
    <2>1. Answered("send", "stop", requests, FALSE) => Answered("send", "stop", requests', FALSE)
        BY <1>1, <1>4, AnsweredPut
    <2> QED
        BY <1>1, <1>2, <1>8, <2>1 DEF StopComes
<1> QED
    BY <1>6, <1>7, <1>10, <1>11, <1>12, <1>13, <1>14 DEF IInv

LEMMA OnWorkerIInv ==
    ASSUME IInv, OnWorker
    PROVE  IInv'
<1> DEFINE P == {"initialized", "complete"}
<1>1. /\ TypeOK /\ Off /\ Known /\ posted \in Seq(P) /\ posted # <<>> /\ posted' = Tail(posted)
      /\ wired
    BY DEF IInv, TypeOK, OnWorker
<1>2. UNCHANGED <<output, wired, paddled, requests, port, encoder, left, line,
                  tone, ptt, acts, escaped, overlap>>
    BY DEF OnWorker, worker
<1>3. /\ posted' \in Seq(P) /\ Len(posted') = Len(posted) - 1
      /\ Head(posted) \in P /\ Head(posted) = posted[1] /\ Len(posted) \in Nat \ {0}
      /\ \A i \in 1..Len(posted) - 1 : posted'[i] = posted[i + 1]
    BY <1>1, QueueTake
<1>4. sender' \in {"Idle", sender} /\ portOpen' \in BOOLEAN
    BY <1>1 DEF OnWorker, TypeOK
<1>5. TypeOK'
    BY <1>1, <1>2, <1>3, <1>4 DEF TypeOK
<1>6. Off'
    BY <1>1, <1>2 DEF Off, Drained
<1>7. DownsEnd' /\ KeyedIsMeant' /\ OneSend' /\ StopComes'
    BY <1>2, QueuesKept DEF IInv
<1>8. Completed' => Completed
    <2>1. \A i \in 1..Len(posted') : i + 1 \in 1..Len(posted) /\ posted'[i] = posted[i + 1]
        BY <1>3
    <2> QED
        BY <2>1 DEF Completed
<1>9. ~Completed => Head(posted) = "initialized"
    BY <1>3 DEF Completed
<1>10. Known'
    <2>1. Head(posted) = "initialized" => sender' = sender
        BY DEF OnWorker
    <2> QED
        BY <1>1, <1>2, <1>8, <1>9, <2>1 DEF Known
<1> QED
    BY <1>5, <1>6, <1>7, <1>10 DEF IInv

LEMMA ToneIInv ==
    ASSUME IInv, NEW down \in BOOLEAN, SetTone(down)
    PROVE  IInv'
<1> DEFINE K == [op : {"down", "up"}]
<1>1. /\ TypeOK /\ Off /\ DownsEnd /\ KeyedIsMeant /\ OneSend /\ Known /\ StopComes
      /\ paddled \in Seq(K) /\ Key(down) \in K
      /\ down => Key(down).op = "down"
      /\ ~down => Key(down).op = "up"
    BY DEF IInv, TypeOK, Key
<1>2. /\ UNCHANGED <<output, sender, portOpen, wired, requests, posted, port,
                     encoder, left, line, acts, escaped, overlap>>
      /\ tone' = down
    BY DEF SetTone, main, worker
<1>3. ptt' \in BOOLEAN
    BY <1>1 DEF SetTone, TypeOK
<1>4. OneSend' /\ Known' /\ StopComes'
    BY <1>1, <1>2 DEF OneSend, Known, StopComes, Completed
<1>5. CASE wired /\ output = "DtrRts"
    <2>1. paddled' = Append(paddled, Key(down))
        BY <1>5 DEF SetTone
    <2>2. paddled' \in Seq(K)
        BY <1>1, <2>1, QueuePut
    <2>3. TypeOK'
        BY <1>1, <1>2, <1>3, <2>2 DEF TypeOK
    <2>4. Off'
        BY <1>2, <1>5 DEF Off
    <2>5. \A op : Under(op, paddled') <=> Under(op, paddled) \/ Key(down).op = op
        BY <1>1, <2>1, UnderPut
    <2>6. CASE down
        BY <1>2, <1>4, <2>3, <2>4, <2>6 DEF IInv, DownsEnd, KeyedIsMeant, Answered
    <2>7. CASE ~down
        <3>1. Answered("down", "up", paddled', FALSE)
            BY <1>1, <2>1, <2>7, AnsweredAll
        <3>2. Under("up", paddled')
            BY <1>1, <2>5, <2>7
        <3>3. DownsEnd' /\ KeyedIsMeant'
            BY <3>1, <3>2 DEF DownsEnd, KeyedIsMeant, Answered
        <3> QED
            BY <1>4, <2>3, <2>4, <3>3 DEF IInv
    <2> QED
        BY <2>6, <2>7
<1>6. CASE ~(wired /\ output = "DtrRts")
    <2>1. paddled' = paddled
        BY <1>6 DEF SetTone
    <2>2. ~line /\ Drained
        BY <1>1, <1>6 DEF Off, TypeOK
    <2>3. TypeOK'
        BY <1>1, <1>2, <1>3, <2>1 DEF TypeOK
    <2>4. Off'
        BY <1>1, <1>2, <2>1 DEF Off, Drained
    <2>5. DownsEnd' /\ KeyedIsMeant'
        BY <1>2, <2>1, <2>2 DEF DownsEnd, KeyedIsMeant, Answered, Drained
    <2> QED
        BY <1>4, <2>3, <2>4, <2>5 DEF IInv
<1> QED
    BY <1>5, <1>6

LEMMA InitWorkerIInv ==
    ASSUME IInv, InitWorker
    PROVE  IInv'
<1>1. /\ TypeOK /\ Off /\ Known /\ port = "starting" /\ port' \in {"open", "failed"}
      /\ posted' = Append(posted, "initialized")
      /\ UNCHANGED <<output, sender, portOpen, wired, paddled, requests, encoder,
                     left, line, tone, ptt, acts, escaped, overlap>>
    BY DEF IInv, InitWorker, main
<1>2. posted' \in Seq({"initialized", "complete"}) /\ (Completed' <=> Completed)
    BY <1>1, Post
<1>3. TypeOK'
    BY <1>1, <1>2 DEF TypeOK
<1>4. Off' /\ Known'
    BY <1>1, <1>2 DEF Off, Known
<1>5. DownsEnd' /\ KeyedIsMeant' /\ OneSend' /\ StopComes'
    BY <1>1, QueuesKept DEF IInv
<1> QED
    BY <1>3, <1>4, <1>5 DEF IInv

(* What is known when the worker has taken a request. *)
TakenFacts(op) ==
    /\ requests' \in Seq(Requests) /\ Head(requests) \in Requests
    /\ Head(requests).op = op
    /\ UNCHANGED <<output, sender, portOpen, wired, paddled, port, tone, ptt,
                   acts, escaped, overlap>>
    /\ port # "none" /\ Off' /\ DownsEnd'
    /\ \A o : Under(o, requests) <=> Under(o, requests') \/ o = op
    /\ op = "down" => tone \/ Under("up", paddled) \/ Under("up", requests')
    /\ ~overlap /\ Under("send", requests') => Single("send", requests')
    /\ ~overlap /\ op = "send" => encoder = "Idle" /\ ~Under("send", requests')
    /\ escaped /\ ~overlap =>
         /\ Answered("send", "stop", requests', FALSE)
         /\ op = "send" => Under("stop", requests')

LEMMA Taken ==
    ASSUME IInv, NEW op, Take(op)
    PROVE  TakenFacts(op)
<1>1. /\ TypeOK /\ Off /\ DownsEnd /\ OneSend /\ StopComes
      /\ requests \in Seq(Requests) /\ requests # <<>> /\ requests' = Tail(requests)
      /\ Head(requests).op = op /\ port # "none" /\ tone \in BOOLEAN
      /\ UNCHANGED <<output, sender, portOpen, wired, paddled, port, tone, ptt,
                     acts, escaped, overlap>>
    BY DEF IInv, TypeOK, Take, main
<1>2. requests' \in Seq(Requests) /\ Head(requests) \in Requests
    BY <1>1, QueueTake
<1>3. Off'
    BY <1>1 DEF Off
<1>4. \A o : Under(o, requests) <=> Under(o, requests') \/ o = op
    BY <1>1, UnderTake
<1>5. DownsEnd' /\ (op = "down" => tone \/ Under("up", paddled) \/ Under("up", requests'))
    <2>1. Answered("down", "up", requests, tone \/ Under("up", paddled))
        BY <1>1 DEF DownsEnd
    <2>2. tone \/ Under("up", paddled) \in BOOLEAN
        BY <1>1 DEF Under
    <2>3. /\ Answered("down", "up", requests', tone \/ Under("up", paddled))
          /\ op = "down" => (tone \/ Under("up", paddled)) \/ Under("up", requests')
        BY <1>1, <2>1, <2>2, AnsweredTake
    <2> QED
        BY <1>1, <2>3 DEF DownsEnd
<1>6. Single("send", requests) =>
        Single("send", requests') /\ (op = "send" => ~Under("send", requests'))
    BY <1>1, SingleTake
<1>7. Answered("send", "stop", requests, FALSE) =>
        /\ Answered("send", "stop", requests', FALSE)
        /\ op = "send" => Under("stop", requests')
    BY <1>1, AnsweredTake
<1> QED
    BY <1>1, <1>2, <1>3, <1>4, <1>5, <1>6, <1>7 DEF OneSend, StopComes, TakenFacts

LEMMA StoppedTyped == Stopped \in Seq({"initialized", "complete"})
<1>1. <<>> \in Seq({"initialized", "complete"})
    OBVIOUS
<1>2. <<"complete">> \in Seq({"initialized", "complete"})
    OBVIOUS
<1> QED
    BY <1>1, <1>2 DEF Stopped

LEMMA DoSendIInv ==
    ASSUME IInv, DoSend
    PROVE  IInv'
<1> DEFINE n == Head(requests).n
<1>1. Take("send") /\ TypeOK /\ Off /\ OneSend /\ Known /\ StopComes
    BY DEF IInv, DoSend
<1>t. TakenFacts("send")
    BY <1>1, Taken
<1>2. Under("send", requests)
    BY <1>t DEF TakenFacts
<1>3. n \in 0..MaxElements
    BY <1>t, <1>1 DEF Requests, TakenFacts
<1>4. ~overlap => /\ encoder = "Idle" /\ Stopped = <<>>
                  /\ ~Under("send", requests') /\ ~Completed
                  /\ sender \in {"Sending", "Stopping"}
    BY <1>t, <1>1, <1>2 DEF Known, Stopped, TakenFacts
<1>5. /\ posted \in Seq({"initialized", "complete"})
      /\ Stopped \in Seq({"initialized", "complete"})
    BY <1>1, StoppedTyped DEF TypeOK
<1>6. CASE n = 0
    <2>1. /\ encoder' = "Idle" /\ left' = 0 /\ line' = FALSE
          /\ posted' = posted \o Stopped \o <<"complete">>
        BY <1>6 DEF DoSend, SetKeyLine
    <2>2. posted' \in Seq({"initialized", "complete"})
        BY <1>5, <2>1
    <2>3. TypeOK'
        BY <1>t, <1>1, <1>3, <1>6, <2>1, <2>2 DEF TypeOK, TakenFacts
    <2>4. KeyedIsMeant' /\ OneSend' /\ Known'
        BY <1>t, <1>1, <1>4, <2>1 DEF KeyedIsMeant, OneSend, Known, TakenFacts
    <2>5. StopComes'
        BY <1>t, <1>1, <2>1 DEF StopComes, TakenFacts
    <2> QED
        BY <1>t, <1>1, <2>3, <2>4, <2>5 DEF IInv, TakenFacts
<1>7. CASE n # 0
    <2>1. /\ encoder' = "Element" /\ left' = n - 1 /\ line' \in BOOLEAN
          /\ posted' = posted \o Stopped
        BY <1>7 DEF DoSend, SetKeyLine
    <2>2. posted' \in Seq({"initialized", "complete"}) /\ (Stopped = <<>> => posted' = posted)
        BY <1>5, <2>1
    <2>3. left' \in 0..MaxElements
        BY <1>3, <1>7, <2>1, Bounds
    <2>4. TypeOK'
        BY <1>t, <1>1, <2>1, <2>2, <2>3 DEF TypeOK, TakenFacts
    <2>5. KeyedIsMeant'
        BY <2>1 DEF KeyedIsMeant
    <2>6. OneSend' /\ Known'
        BY <1>t, <1>1, <1>4, <2>1, <2>2 DEF OneSend, Known, Completed, TakenFacts
    <2>7. StopComes'
        BY <1>t, <1>1 DEF StopComes, TakenFacts
    <2> QED
        BY <1>t, <1>1, <2>4, <2>5, <2>6, <2>7 DEF IInv, TakenFacts
<1> QED
    BY <1>6, <1>7

LEMMA DoStopIInv ==
    ASSUME IInv, DoStop
    PROVE  IInv'
<1>1. /\ Take("stop") /\ TypeOK /\ OneSend /\ Known /\ line' = FALSE
      /\ encoder' = "Idle" /\ left' = 0 /\ posted' = posted \o Stopped
      /\ StopComes
    BY DEF IInv, DoStop, SetKeyLine
<1>t. TakenFacts("stop")
    BY <1>1, Taken
<1>2. /\ posted \in Seq({"initialized", "complete"})
      /\ Stopped \in Seq({"initialized", "complete"})
    BY <1>1, StoppedTyped DEF TypeOK
<1>3. posted' \in Seq({"initialized", "complete"}) /\ (Stopped = <<>> => posted' = posted)
    BY <1>1, <1>2
<1>4. TypeOK'
    <2>1. left' \in 0..MaxElements
        BY <1>1, Bounds
    <2>2. line' \in BOOLEAN
        BY <1>1, Zenon
    <2>3. encoder' \in {"Idle", "Element", "Gap"}
        BY <1>1
    <2> QED
        BY <1>t, <1>1, <1>3, <2>1, <2>2, <2>3 DEF TypeOK, TakenFacts
<1>5. KeyedIsMeant' /\ OneSend' /\ StopComes'
    BY <1>t, <1>1 DEF KeyedIsMeant, OneSend, StopComes, TakenFacts
<1>6. Known'
    <2>1. ~overlap /\ Under("send", requests') =>
             encoder = "Idle" /\ ~Completed /\ sender \in {"Sending", "Stopping"}
        BY <1>t, <1>1 DEF OneSend, Known, TakenFacts
    <2>2. encoder = "Idle" => posted' = posted
        BY <1>3 DEF Stopped
    <2> QED
        BY <1>t, <1>1, <2>1, <2>2 DEF Known, Completed, TakenFacts
<1> QED
    BY <1>t, <1>1, <1>4, <1>5, <1>6 DEF IInv, TakenFacts

LEMMA DoKeyIInv ==
    ASSUME IInv, NEW down \in BOOLEAN, DoKey(down)
    PROVE  IInv'
<1> DEFINE op == Key(down).op
<1>1. /\ Take(op) /\ TypeOK /\ OneSend /\ Known /\ StopComes
      /\ line' \in BOOLEAN /\ (line' => down)
      /\ UNCHANGED <<encoder, left, posted>>
    BY DEF IInv, DoKey, SetKeyLine
<1>2. op \in {"down", "up"} /\ (down => op = "down")
    BY DEF Key
<1> HIDE DEF op
<1>t. TakenFacts(op)
    BY <1>1, Taken
<1>3. TypeOK'
    BY <1>t, <1>1 DEF TypeOK, TakenFacts
<1>4. KeyedIsMeant'
    BY <1>t, <1>1, <1>2 DEF KeyedIsMeant, TakenFacts
<1>5. OneSend' /\ Known'
    BY <1>t, <1>1, <1>2 DEF OneSend, Known, Completed, TakenFacts
<1>6. StopComes'
    BY <1>t, <1>1, <1>2 DEF StopComes, TakenFacts
<1> QED
    BY <1>t, <1>1, <1>3, <1>4, <1>5, <1>6 DEF IInv, TakenFacts

LEMMA TimerIInv ==
    ASSUME IInv, OnTimerExpired
    PROVE  IInv'
<1>1. /\ TypeOK /\ Off /\ DownsEnd /\ OneSend /\ Known /\ encoder \in {"Element", "Gap"}
      /\ UNCHANGED <<output, sender, portOpen, wired, paddled, requests, port, tone,
                     ptt, acts, escaped, overlap>>
    BY DEF IInv, OnTimerExpired, main
<1>2. ~overlap => ~Under("send", requests)
    BY <1>1 DEF OneSend
<1>3. encoder' \in {"Idle", "Element", "Gap"} /\ line' \in BOOLEAN
    BY DEF OnTimerExpired, SetKeyLine
<1>4. left' \in 0..MaxElements
    <2>1. left' = left \/ (left > 0 /\ left' = left - 1)
        BY DEF OnTimerExpired
    <2> QED
        BY <1>1, <2>1, Bounds DEF TypeOK
<1>5. posted' \in Seq({"initialized", "complete"})
    BY <1>1, Post DEF OnTimerExpired, TypeOK
<1>6. encoder' # "Idle" => posted' = posted
    BY DEF OnTimerExpired
<1>7. line' => encoder' = "Element"
    BY DEF OnTimerExpired, SetKeyLine
<1>8. TypeOK'
    BY <1>1, <1>3, <1>4, <1>5 DEF TypeOK
<1>9. Off'
    BY <1>1 DEF Off
<1>10. DownsEnd' /\ OneSend'
    BY <1>1, <1>2 DEF DownsEnd, OneSend
<1>11. KeyedIsMeant'
    BY <1>7 DEF KeyedIsMeant
<1>12. Known'
    BY <1>1, <1>2, <1>6 DEF Known, Completed
<1>13. StopComes'
    BY <1>1, <1>2 DEF IInv, StopComes
<1> QED
    BY <1>8, <1>9, <1>10, <1>11, <1>12, <1>13 DEF IInv

-----------------------------------------------------------------------------
(* The inductive invariant holds throughout. *)
THEOREM SendingInvariance == Spec => []IInv
<1>1. Init => IInv
    BY InitIInv
<1>2. IInv /\ [Next]_vars => IInv'
    <2> SUFFICES ASSUME IInv, [Next]_vars
                 PROVE  IInv'
        OBVIOUS
    <2>1. CASE Next
        <3>1. CASE Main
            BY <3>1, DestroyIInv, ActivateIInv, PassIInv, OnWorkerIInv DEF Main
        <3>2. CASE Worker
            BY <3>2, InitWorkerIInv, DoSendIInv, DoStopIInv, DoKeyIInv DEF Worker
        <3>3. CASE KeyDown \/ KeyUp
            BY <3>3, ToneIInv DEF KeyDown, KeyUp
        <3> QED
            BY <2>1, <3>1, <3>2, <3>3, SendIInv, EscapeIInv, TimerIInv DEF Next
    <2>2. CASE UNCHANGED vars
        BY <2>2
        DEF vars, main, queues, worker, IInv, TypeOK, Off, Drained, DownsEnd,
            KeyedIsMeant, OneSend, Known, Completed, StopComes
    <2> QED
        BY <2>1, <2>2
<1> QED
    BY <1>1, <1>2, PTL DEF Spec

(* The variables of CWSending keep their types. *)
THEOREM SendingTypes == Spec => []TypeOK
<1>1. IInv => TypeOK
    BY DEF IInv
<1> QED
    BY <1>1, SendingInvariance, PTL

(* The line is keyed only by an element, by a tone, or until the keyUp on its
   way arrives (DtrRtsWorker::setKeyLine, CWService::activateCWProfile). *)
THEOREM NeverKeyedForNothing == Spec => []KeyedIsMeant
<1>1. IInv => KeyedIsMeant
    BY DEF IInv
<1> QED
    BY <1>1, SendingInvariance, PTL

(* Escape silences a message that replaced no other (DtrRtsCWSender::stop). *)
THEOREM EscapeReaches == Spec => []EscapeStopsOne
<1>1. IInv => EscapeStopsOne
    <2> SUFFICES ASSUME IInv, ~overlap, escaped, Drained
                 PROVE  encoder = "Idle"
        BY DEF EscapeStopsOne, EscapeStops
    <2>1. ~Under("stop", requests)
        BY DEF Drained, Under
    <2> QED
        BY <2>1 DEF IInv, StopComes
<1> QED
    BY <1>1, SendingInvariance, PTL
=============================================================================
