---------------------------- MODULE QsoLogProofs -----------------------------
(***************************************************************************)
(* Proofs about QsoLog for every number of files, contacts, dialogs and    *)
(* activations and for both exchange formats.                              *)
(***************************************************************************)
EXTENDS QsoLog, SequenceTheorems, FiniteSetTheorems, TLAPS

FiniteLog == \A f \in Files : IsFiniteSet(files[f].rows)

\* Every id in a file is one the file handed out, and one row's; and a contact
\* has one id wherever it is stored, also in a file it was written to by mistake
IdsInUse ==
  /\ \A f \in Files : \A r \in files[f].rows :
       r.id \in 1 .. files[f].last /\ r.qso <= born
  /\ \A f \in Files : \A r, s \in files[f].rows : r.id = s.id => r = s
  /\ \A f, g \in Files : \A r \in files[f].rows, s \in files[g].rows :
       r.qso = s.qso => r.id = s.id

\* The row an edit dialog holds is stored under its id in the file of the
\* contest that is shown, whatever happened since the dialog was opened
EditsAreCurrent ==
  \A i \in DOMAIN frames : frames[i].kind = "edit" =>
    \E r \in db : r.id = frames[i].rec.id /\ r.qso = frames[i].rec.qso

\* The numbers sent since the last activation are below the next one
SerialsBelow ==
  \A a \in spent : /\ a.load <= loads
                   /\ a.load = loads /\ "log" \notin misuse => a.serial < nextSerial

\* The frame of an operator's command has nothing below it
Clears == {"askBackup", "backupFailed", "confirmClear"}
Commands == Clears \cup {"edit", "choose"}
CommandsLast ==
  \A i, j \in DOMAIN frames : frames[i].kind \in Commands => j <= i

IInv == /\ TypeOK /\ FiniteLog
        /\ ActiveIsWhole
        /\ SerialsBelow /\ SerialsAdvance
        /\ CommandsLast
        /\ IdsInUse /\ EditsAreCurrent /\ ShownIdsAreStored

-----------------------------------------------------------------------------
(* Frames, kind by kind                                                     *)

LEMMA AskBackupIsFrame ==
  ASSUME NEW k \in {"askBackup", "backupFailed"}, NEW v \in BOOLEAN, NEW a \in Nat
  PROVE  [kind |-> k, valid |-> v, asked |-> a] \in Frame
  BY DEF Frame

LEMMA ConfirmIsFrame ==
  ASSUME NEW v \in BOOLEAN, NEW a \in Nat, NEW b \in Backup
  PROVE  [kind |-> "confirmClear", valid |-> v, asked |-> a, backup |-> b] \in Frame
  BY DEF Frame

LEMMA EditIsFrame ==
  ASSUME NEW i \in Nat \ {0}, NEW r \in Row, NEW c \in Nat
  PROVE  [kind |-> "edit", row |-> i, rec |-> r, contest |-> c] \in Frame
  BY DEF Frame

LEMMA SaveIssueIsFrame ==
  ASSUME NEW c \in BOOLEAN, NEW m \in BOOLEAN
  PROVE  [kind |-> "saveIssue", checked |-> c, mults |-> m] \in Frame
  BY DEF Frame

LEMMA PlainIsFrame ==
  ASSUME NEW k \in {"choose", "mismatch", "error"}
  PROVE  [kind |-> k] \in Frame
  BY DEF Frame

\* What a frame of a kind carries
LEMMA FrameFields ==
  ASSUME NEW f \in Frame
  PROVE  /\ f.kind \in {"askBackup", "backupFailed", "confirmClear"} =>
              f.valid \in BOOLEAN /\ f.asked \in Nat
         /\ f.kind = "confirmClear" => f.backup \in Backup
         /\ f.kind = "edit" => f.row \in Nat \ {0} /\ f.rec \in Row /\ f.contest \in Nat
         /\ f.kind = "saveIssue" => f.checked \in BOOLEAN /\ f.mults \in BOOLEAN
  BY DEF Frame

-----------------------------------------------------------------------------
(* The stack                                                                *)

LEMMA PushStack ==
  ASSUME frames \in Seq(Frame), NEW f \in Frame, Push(f)
  PROVE  /\ frames' \in Seq(Frame)
         /\ \A i \in DOMAIN frames' :
              frames'[i] = f \/ \E j \in DOMAIN frames : frames'[i] = frames[j]
<1>1. <<f>> \in Seq(Frame) /\ Len(<<f>>) = 1 /\ <<f>>[1] = f
  OBVIOUS
<1>2. frames' = <<f>> \o frames
  BY DEF Push
<1>3. /\ frames' \in Seq(Frame)
      /\ Len(frames') = 1 + Len(frames)
      /\ \A i \in 1 .. 1 + Len(frames) :
           frames'[i] = IF i <= 1 THEN <<f>>[i] ELSE frames[i - 1]
  BY <1>1, <1>2, ConcatProperties
<1>4. QED
  BY <1>1, <1>3, LenProperties

LEMMA PopStack ==
  ASSUME frames \in Seq(Frame), NEW k, Top(k), Pop
  PROVE  /\ frames' \in Seq(Frame)
         /\ Head(frames) \in Frame
         /\ \A i \in DOMAIN frames' : \E j \in DOMAIN frames : frames'[i] = frames[j]
<1>1. frames # <<>> /\ frames' = Tail(frames)
  BY DEF Top, Pop
<1>2. /\ frames' \in Seq(Frame) /\ Head(frames) \in Frame
      /\ Len(frames') = Len(frames) - 1
      /\ \A i \in 1 .. Len(frames') : frames'[i] = frames[i + 1]
  BY <1>1, HeadTailProperties
<1>3. QED
  BY <1>2, LenProperties

LEMMA ReplaceStack ==
  ASSUME frames \in Seq(Frame), NEW k, Top(k), NEW f \in Frame, Replace(f)
  PROVE  /\ frames' \in Seq(Frame)
         /\ Head(frames) \in Frame
         /\ \A i \in DOMAIN frames' :
              frames'[i] = f \/ \E j \in DOMAIN frames : frames'[i] = frames[j]
<1>1. frames # <<>> /\ frames' = <<f>> \o Tail(frames)
  BY DEF Top, Replace
<1> DEFINE t == Tail(frames)
<1>2. /\ t \in Seq(Frame) /\ Head(frames) \in Frame
      /\ Len(t) = Len(frames) - 1
      /\ \A i \in 1 .. Len(t) : t[i] = frames[i + 1]
  BY <1>1, HeadTailProperties
<1>3. <<f>> \in Seq(Frame) /\ Len(<<f>>) = 1 /\ <<f>>[1] = f
  OBVIOUS
<1> HIDE DEF t
<1>4. frames' = <<f>> \o t
  BY <1>1 DEF t
<1>5. /\ frames' \in Seq(Frame)
      /\ Len(frames') = 1 + Len(t)
      /\ \A i \in 1 .. 1 + Len(t) :
           frames'[i] = IF i <= 1 THEN <<f>>[i] ELSE t[i - 1]
  BY <1>2, <1>3, <1>4, ConcatProperties
<1>6. \A i \in DOMAIN frames' :
        frames'[i] = f \/ (i - 1 \in 1 .. Len(t) /\ frames'[i] = frames[i])
  BY <1>2, <1>3, <1>5, LenProperties
<1>7. QED
  BY <1>2, <1>5, <1>6, LenProperties

\* The topmost frame is one of the frames
LEMMA TopFrame ==
  ASSUME frames \in Seq(Frame), NEW k, Top(k)
  PROVE  /\ Head(frames) \in Frame /\ Head(frames).kind = k
         /\ 1 \in DOMAIN frames /\ Head(frames) = frames[1]
<1>1. frames # <<>> /\ Head(frames).kind = k
  BY DEF Top
<1>2. Len(frames) \in Nat \ {0}
  BY <1>1, EmptySeq
<1>3. Head(frames) = frames[1]
  BY <1>2
<1>4. QED
  BY <1>1, <1>2, <1>3, HeadTailProperties, LenProperties

-----------------------------------------------------------------------------
(* Rows and what the helpers return                                         *)

LEMMA NewRowIsRow ==
  ASSUME TypeOK, NEW id \in Nat, NEW t \in Nat, NEW sent \in Seq(Nat)
  PROVE  /\ NewRow(id, t, sent) \in Row
         /\ NewRow(id, t, sent).id = id /\ NewRow(id, t, sent).qso = born + 1
  BY DEF TypeOK, NewRow, Row

LEMMA SentIsSeq ==
  ASSUME NEW n \in Nat
  PROVE  SentExchange(n) \in Seq(Nat)
  BY DEF SentExchange

LEMMA RowFields ==
  ASSUME NEW r \in Row
  PROVE  r.id \in Nat /\ r.qso \in Nat \ {0} /\ r.sent \in Seq(Nat)
  BY DEF Row

\* Appending to the table
LEMMA Appended ==
  ASSUME TypeOK, NEW r \in Row, mem' = Append(mem, r)
  PROVE  /\ mem' \in Seq(Row)
         /\ \A i \in DOMAIN mem' : mem'[i] = r \/ (i \in DOMAIN mem /\ mem'[i] = mem[i])
<1>1. mem \in Seq(Row)
  BY DEF TypeOK
<1>2. QED
  BY <1>1, AppendProperties, LenProperties

\* The table a reload shows holds rows of the file
LEMMA LoadedIsTable ==
  ASSUME NEW R \in SUBSET Row, IsFiniteSet(R), mem' \in Loaded(R)
  PROVE  mem' \in Seq(Row) /\ \A i \in DOMAIN mem' : mem'[i] \in R
<1>1. Cardinality(R) \in Nat
  BY FS_CardinalityType
<1>2. mem' \in [1 .. Cardinality(R) -> R]
  BY DEF Loaded
<1>3. QED
  BY <1>1, <1>2

LEMMA NextSerialIsPositive ==
  ASSUME NEW R \in SUBSET Row, NEW n \in NextSerialAfter(R)
  PROVE  n \in Nat \ {0}
<1>1. SerialsIn(R) \subseteq Nat
  <2>1. \A r \in R : ToInt(r.sent) \in Nat
    BY RowFields DEF ToInt
  <2>2. QED
    BY <2>1 DEF SerialsIn
<1>2. QED
  BY <1>1 DEF NextSerialAfter, Greatest

LEMMA QsosAreNats ==
  ASSUME NEW R \in SUBSET Row
  PROVE  Qsos(R) \in SUBSET Nat
  BY RowFields DEF Qsos

LEMMA MemRowsAreRows ==
  ASSUME TypeOK
  PROVE  MemRows \in SUBSET Row
<1>1. mem \in Seq(Row)
  BY DEF TypeOK
<1>2. \A i \in DOMAIN mem : mem[i] \in Row
  BY <1>1
<1>3. QED
  BY <1>2 DEF MemRows

-----------------------------------------------------------------------------
(* What the three writes to the open file do to the files                   *)

LEMMA StoreFields ==
  ASSUME TypeOK, NEW f \in Files
  PROVE  files[f].rows \in SUBSET Row /\ files[f].last \in Nat
  BY DEF TypeOK, Store

LEMMA Inserted ==
  ASSUME TypeOK, FiniteLog, NEW r \in Row, Insert(r)
  PROVE  /\ files' \in [Files -> Store] /\ FiniteLog'
         /\ files'[file].rows = files[file].rows \cup {r} /\ files'[file].last = r.id
         /\ \A f \in Files \ {file} : files'[f] = files[f]
<1> DEFINE new == [rows |-> files[file].rows \cup {r}, last |-> r.id]
<1>1. files \in [Files -> Store] /\ file \in Files
  BY DEF TypeOK
<1>2. new \in Store /\ new.rows = files[file].rows \cup {r} /\ new.last = r.id
  BY <1>1, StoreFields, RowFields DEF Store
<1>3. files' = [files EXCEPT ![file] = new]
  BY DEF Insert
<1> HIDE DEF new
<1>4. /\ files' \in [Files -> Store] /\ files'[file] = new
      /\ \A f \in Files \ {file} : files'[f] = files[f]
  BY <1>1, <1>2, <1>3
<1>5. IsFiniteSet(new.rows)
  BY <1>1, <1>2, FS_AddElement DEF FiniteLog
<1>6. FiniteLog'
  BY <1>4, <1>5 DEF FiniteLog
<1>7. QED
  BY <1>2, <1>4, <1>6

LEMMA Rewritten ==
  ASSUME TypeOK, FiniteLog, NEW e \in Row,
         files' = [files EXCEPT ![file].rows = Written(@, e)]
  PROVE  /\ files' \in [Files -> Store] /\ FiniteLog'
         /\ files'[file].rows = Written(files[file].rows, e)
         /\ files'[file].last = files[file].last
         /\ \A f \in Files \ {file} : files'[f] = files[f]
<1> DEFINE R == files[file].rows
           w == Written(R, e)
<1>1. files \in [Files -> Store] /\ file \in Files
  BY DEF TypeOK
<1>2. R \in SUBSET Row
  BY <1>1, StoreFields
<1>3. w \in SUBSET Row /\ IsFiniteSet(w)
  <2>1. w \in SUBSET Row
    BY <1>2 DEF Written
  <2> DEFINE g == [r \in R |-> IF r.id = e.id THEN e ELSE r]
  <2>2. g \in Surjection(R, w)
    BY DEF Surjection, Written
  <2>3. IsFiniteSet(w)
    BY <1>1, <2>2, FS_Surjection DEF FiniteLog
  <2>4. QED
    BY <2>1, <2>3
<1> HIDE DEF w
<1>4. files' = [files EXCEPT ![file] = [files[file] EXCEPT !.rows = w]]
  BY <1>1 DEF w
<1>5. /\ [files[file] EXCEPT !.rows = w] \in Store
      /\ [files[file] EXCEPT !.rows = w].rows = w
      /\ [files[file] EXCEPT !.rows = w].last = files[file].last
  BY <1>1, <1>3 DEF Store
<1>6. /\ files' \in [Files -> Store]
      /\ files'[file].rows = w /\ files'[file].last = files[file].last
      /\ \A f \in Files \ {file} : files'[f] = files[f]
  BY <1>1, <1>4, <1>5
<1>7. FiniteLog'
  BY <1>3, <1>6 DEF FiniteLog
<1>8. QED
  BY <1>6, <1>7 DEF w

LEMMA Emptied ==
  ASSUME TypeOK, FiniteLog, files' = [files EXCEPT ![file].rows = {}]
  PROVE  /\ files' \in [Files -> Store] /\ FiniteLog'
         /\ files'[file].rows = {} /\ files'[file].last = files[file].last
         /\ \A f \in Files \ {file} : files'[f] = files[f]
<1>1. files \in [Files -> Store] /\ file \in Files
  BY DEF TypeOK
<1>2. files' = [files EXCEPT ![file] = [files[file] EXCEPT !.rows = {}]]
  BY <1>1
<1>3. /\ [files[file] EXCEPT !.rows = {}] \in Store
      /\ [files[file] EXCEPT !.rows = {}].rows = {}
      /\ [files[file] EXCEPT !.rows = {}].last = files[file].last
  BY <1>1 DEF Store
<1>4. /\ files' \in [Files -> Store]
      /\ files'[file].rows = {} /\ files'[file].last = files[file].last
      /\ \A f \in Files \ {file} : files'[f] = files[f]
  BY <1>1, <1>2, <1>3
<1>5. FiniteLog'
  BY <1>4, FS_EmptySet DEF FiniteLog
<1>6. QED
  BY <1>4, <1>5

-----------------------------------------------------------------------------
(* Types                                                                    *)

\* Loading the contest gives the session values of their types
LEMMA ActivateTypes ==
  ASSUME TypeOK, FiniteLog, NEW f \in Files, Activate(f)
  PROVE  /\ loads' \in Nat /\ dbOpen' \in BOOLEAN /\ active' \in BOOLEAN
         /\ file' \in Files /\ path' \in Files
         /\ contest' \in Nat /\ logger' \in Nat
         /\ mem' \in Seq(Row) /\ nextSerial' \in Nat \ {0}
<1>1. loads \in Nat /\ files[f].rows \in SUBSET Row /\ IsFiniteSet(files[f].rows)
  BY StoreFields DEF TypeOK, FiniteLog
<1>2. mem' \in Seq(Row)
  BY <1>1, LoadedIsTable DEF Activate
<1>3. nextSerial' \in Nat \ {0}
  BY <1>1, NextSerialIsPositive DEF Activate
<1>4. QED
  BY <1>1, <1>2, <1>3 DEF Activate

\* Logging a contact, saved or not
LEMMA LogContactTypes ==
  ASSUME TypeOK, FiniteLog, LogContact, misuse' \in SUBSET {"log", "edit", "issue"}
  PROVE  TypeOK' /\ FiniteLog'
<1> DEFINE sent == SentExchange(nextSerial)
<1>1. /\ born \in Nat /\ nextSerial \in Nat \ {0} /\ loads \in Nat
      /\ sinceCheck \in Nat /\ contest \in Nat /\ logger \in Nat
      /\ mem \in Seq(Row) /\ frames \in Seq(Frame)
      /\ files \in [Files -> Store] /\ NextId \in Nat /\ path \in Files
      /\ refused \in SUBSET Nat
      /\ spent \in SUBSET [qso : Nat \ {0}, serial : Nat, load : Nat, file : Files]
  BY StoreFields DEF TypeOK, NextId
<1>2. sent \in Seq(Nat)
  BY <1>1, SentIsSeq
<1>3. /\ born' \in Nat /\ nextSerial' \in Nat \ {0}
      /\ spent' \in SUBSET [qso : Nat \ {0}, serial : Nat, load : Nat, file : Files]
  <2>1. born' = born + 1 /\ spent' = spent \cup {Sent}
        /\ nextSerial' \in {nextSerial, nextSerial + 1}
    BY DEF LogContact, Logged
  <2>2. Sent \in [qso : Nat \ {0}, serial : Nat, load : Nat, file : Files]
    BY <1>1 DEF Sent
  <2>3. QED
    BY <1>1, <2>1, <2>2
<1>4. /\ files' \in [Files -> Store] /\ FiniteLog'
      /\ mem' \in Seq(Row) /\ frames' \in Seq(Frame)
      /\ sinceCheck' \in Nat /\ refused' \in SUBSET Nat
  <2>1. CASE LogSaved
    <3> DEFINE r == NewRow(NextId, born + 1, sent)
    <3>1. r \in Row
      BY <1>1, <1>2, NewRowIsRow
    <3>2. Insert(r) /\ mem' = Append(mem, r) /\ UNCHANGED <<frames, refused>>
      BY <2>1 DEF LogSaved
    <3>3. sinceCheck' \in Nat
      BY <1>1, <2>1 DEF LogSaved, Counted
    <3> HIDE DEF r
    <3>4. mem' \in Seq(Row)
      BY <3>1, <3>2, Appended
    <3>5. files' \in [Files -> Store] /\ FiniteLog'
      BY <3>1, <3>2, Inserted
    <3>6. QED
      BY <1>1, <3>2, <3>3, <3>4, <3>5
  <2>2. CASE LogRefused
    <3> DEFINE r == NewRow(NoId, born + 1, sent)
               f == [kind |-> "saveIssue", checked |-> ChecksNow, mults |-> contest # 0]
    <3>1. r \in Row
      BY <1>1, <1>2, NewRowIsRow DEF NoId
    <3>2. ChecksNow \in BOOLEAN /\ (contest # 0) \in BOOLEAN
      BY DEF ChecksNow
    <3>3. f \in Frame
      BY <3>2, SaveIssueIsFrame
    <3>4. mem' = Append(mem, r) /\ refused' = refused \cup {born + 1}
      BY <2>2 DEF LogRefused
    <3>5. Push(f) /\ UNCHANGED <<files, sinceCheck>>
      BY <2>2 DEF LogRefused
    <3> HIDE DEF r, f
    <3>6. mem' \in Seq(Row)
      BY <3>1, <3>4, Appended
    <3>7. frames' \in Seq(Frame)
      BY <1>1, <3>3, <3>5, PushStack
    <3>8. QED
      BY <1>1, <3>4, <3>5, <3>6, <3>7 DEF FiniteLog
  <2>3. QED
    BY <2>1, <2>2 DEF LogContact
<1>5. UNCHANGED <<file, dbOpen, path, active, contest, logger, loads, lastClear>>
  BY DEF LogContact, connection
<1>6. QED
  BY <1>3, <1>4, <1>5 DEF TypeOK

\* What only moves the stack
LEMMA StackTypes ==
  ASSUME TypeOK, FiniteLog, frames' \in Seq(Frame),
         UNCHANGED <<files, file, session, born, loads, history>>, dbOpen' \in BOOLEAN
  PROVE  TypeOK' /\ FiniteLog'
  BY DEF TypeOK, FiniteLog, session, history

LEMMA TypeStep ==
  ASSUME TypeOK, FiniteLog, [Next]_vars
  PROVE  TypeOK' /\ FiniteLog'
<1> USE DEF connection, session, history
<1>a. /\ files \in [Files -> Store] /\ mem \in Seq(Row) /\ dbOpen \in BOOLEAN
      /\ file \in Files /\ path \in Files /\ NextId \in Nat
      /\ frames \in Seq(Frame) /\ born \in Nat /\ loads \in Nat /\ contest \in Nat
      /\ active \in BOOLEAN /\ sinceCheck \in Nat
  BY StoreFields DEF TypeOK, NextId
<1>b. misuse \in SUBSET {"log", "edit", "issue"}
  BY DEF TypeOK
<1>1. CASE LogFromEntryLine
  BY <1>1, <1>b, LogContactTypes DEF LogFromEntryLine
<1>2. CASE LogFromWeb
  BY <1>2, <1>b, LogContactTypes DEF LogFromWeb
<1>3. ASSUME NEW t \in {0, born + 1}, LogFromWsjtx(t)
      PROVE  TypeOK' /\ FiniteLog'
  <2> DEFINE r == NewRow(NextId, t, <<>>)
             s == NewRow(NoId, t, <<>>)
  <2>1. r \in Row /\ s \in Row
    <3>1. <<>> \in Seq(Nat) /\ t \in Nat /\ NoId \in Nat
      BY <1>a DEF NoId
    <3>2. QED
      BY <1>a, <3>1, NewRowIsRow
  <2>2. /\ Insert(r) /\ mem' = Append(mem, s) /\ born' = born + 1
        /\ UNCHANGED <<file, dbOpen, path, nextSerial, active, contest, logger, sinceCheck,
                       frames, loads, history>>
    BY <1>3 DEF LogFromWsjtx
  <2> HIDE DEF r, s
  <2>3. mem' \in Seq(Row)
    BY <2>1, <2>2, Appended
  <2>4. files' \in [Files -> Store] /\ FiniteLog'
    BY <2>1, <2>2, Inserted
  <2>5. born' \in Nat
    BY <1>a, <2>2
  <2>6. QED
    BY <2>2, <2>3, <2>4, <2>5 DEF TypeOK
<1>4. CASE DismissSaveIssue
  <2>1. frames' \in Seq(Frame)
    BY <1>a, <1>4, PopStack DEF DismissSaveIssue
  <2>2. sinceCheck' \in Nat
    BY <1>a, <1>4 DEF DismissSaveIssue, Counted
  <2>3. misuse' \in SUBSET {"log", "edit", "issue"}
    BY <1>b, <1>4 DEF DismissSaveIssue
  <2>4. QED
    BY <1>4, <2>1, <2>2, <2>3 DEF DismissSaveIssue, TypeOK, FiniteLog
<1>5. CASE DismissError
  BY <1>a, <1>5, PopStack, StackTypes DEF DismissError
<1>6. ASSUME NEW g \in Files, OpenContest(g)
      PROVE  TypeOK' /\ FiniteLog'
  <2>1. CASE Activate(g) /\ Pop
    <3>1. frames' \in Seq(Frame)
      BY <1>a, <1>6, <2>1, PopStack DEF OpenContest
    <3>2. QED
      BY <1>6, <2>1, <3>1, ActivateTypes DEF OpenContest, TypeOK, FiniteLog
  <2>2. CASE ActivateFails(g) /\ Replace([kind |-> "error"])
    <3>1. frames' \in Seq(Frame)
      BY <1>a, <1>6, <2>2, PlainIsFrame, ReplaceStack DEF OpenContest
    <3>2. QED
      BY <1>6, <2>2, <3>1 DEF OpenContest, ActivateFails, TypeOK, FiniteLog
  <2>3. QED
    BY <1>6, <2>1, <2>2 DEF OpenContest
<1>7. CASE Restart
  <2>1. CASE Activate(path)
    BY <1>a, <1>7, <2>1, ActivateTypes DEF Restart, TypeOK, FiniteLog
  <2> DEFINE Bare == /\ file' = path /\ dbOpen' \in BOOLEAN
                     /\ mem' = <<>> /\ nextSerial' = 1 /\ loads' = loads + 1
                     /\ active' = FALSE /\ contest' = 0 /\ logger' = 0 /\ UNCHANGED path
  <2>2. CASE Bare
    <3>1. frames' \in Seq(Frame) /\ sinceCheck' \in Nat
      BY <1>7 DEF Restart
    <3>2. mem' \in Seq(Row)
      BY <2>2
    <3>3. dbOpen' \in BOOLEAN /\ active' \in BOOLEAN
      BY <2>2, Zenon
    <3>a. /\ nextSerial' = 1 /\ loads' = loads + 1 /\ contest' = 0 /\ logger' = 0
          /\ file' = path /\ path' = path
      BY <2>2, Zenon
    <3>b. /\ nextSerial' \in Nat \ {0} /\ loads' \in Nat
          /\ contest' \in Nat /\ logger' \in Nat /\ file' \in Files /\ path' \in Files
      BY <1>a, <3>a
    <3>4. UNCHANGED <<files, born, history>>
      BY <1>7 DEF Restart
    <3> HIDE DEF Bare
    <3>5. QED
      BY <3>1, <3>2, <3>3, <3>4, <3>b DEF TypeOK, FiniteLog
  <2>3. QED
    BY <1>7, <2>1, <2>2 DEF Restart
<1>8. CASE PeriodicCheck
  BY <1>a, <1>8, PlainIsFrame, PushStack, StackTypes DEF PeriodicCheck
<1>9. CASE AnswerMismatch
  <2>1. UNCHANGED <<files, sinceCheck, born, history>>
    BY <1>9 DEF AnswerMismatch
  <2>2. CASE Pop /\ UNCHANGED <<connection, path, mem, nextSerial, active, contest,
                                 logger, loads>>
    BY <1>a, <1>9, <2>1, <2>2, PopStack, StackTypes DEF AnswerMismatch
  <2>3. CASE Pop /\ Activate(path)
    <3>1. frames' \in Seq(Frame)
      BY <1>a, <1>9, <2>3, PopStack DEF AnswerMismatch
    <3>2. QED
      BY <1>a, <2>1, <2>3, <3>1, ActivateTypes DEF TypeOK, FiniteLog
  <2>4. CASE Pop /\ ReopenFails
    <3>1. frames' \in Seq(Frame)
      BY <1>a, <1>9, <2>4, PopStack DEF AnswerMismatch
    <3>2. QED
      BY <2>1, <2>4, <3>1 DEF ReopenFails, TypeOK, FiniteLog
  <2>5. CASE Replace([kind |-> "error"]) /\ ActivateFails(path)
    <3>1. frames' \in Seq(Frame)
      BY <1>a, <1>9, <2>5, PlainIsFrame, ReplaceStack DEF AnswerMismatch
    <3>2. QED
      BY <1>a, <2>1, <2>5, <3>1 DEF ActivateFails, TypeOK, FiniteLog
  <2>6. QED
    BY <1>9, <2>2, <2>3, <2>4, <2>5 DEF AnswerMismatch
<1>10. ASSUME NEW i \in DOMAIN mem, StartEdit(i)
       PROVE  TypeOK' /\ FiniteLog'
  <2>1. i \in Nat \ {0} /\ mem[i] \in Row
    BY <1>a, LenProperties, ElementOfSeq
  <2>2. [kind |-> "edit", row |-> i, rec |-> mem[i], contest |-> contest] \in Frame
    BY <1>a, <2>1, EditIsFrame
  <2>3. QED
    BY <1>a, <1>10, <2>2, PushStack, StackTypes DEF StartEdit
<1>11. CASE CancelEdit
  BY <1>a, <1>11, PopStack, StackTypes DEF CancelEdit
<1>12. CASE AcceptEdit
  <2> DEFINE f == Head(frames)
             e == [id |-> f.rec.id, qso |-> f.rec.qso, t |-> f.rec.t, ed |-> 1,
                   sent |-> f.rec.sent]
             w == [files EXCEPT ![file].rows = Written(@, e)]
  <2>1. f \in Frame /\ f.kind = "edit" /\ frames' \in Seq(Frame)
    BY <1>a, <1>12, PopStack, TopFrame DEF AcceptEdit
  <2>2. e \in Row
    <3>1. f.rec \in Row
      BY <2>1, FrameFields
    <3>2. QED
      BY <3>1 DEF Row
  <2>3. misuse' \in SUBSET {"log", "edit", "issue"}
    BY <1>b, <1>12 DEF AcceptEdit
  <2>4. UNCHANGED <<file, dbOpen, path, nextSerial, active, contest, logger, sinceCheck,
                    born, loads, spent, refused, lastClear>>
    BY <1>12 DEF AcceptEdit
  <2>5. \/ files' = w /\ mem' = [i \in DOMAIN mem |-> IF i = f.row THEN e ELSE mem[i]]
        \/ UNCHANGED <<files, mem>>
    BY <1>12 DEF AcceptEdit
  <2>6. files' = w => files' \in [Files -> Store] /\ FiniteLog'
    <3> HIDE DEF e
    <3>1. QED
      BY <2>2, Rewritten
  <2>7. [i \in DOMAIN mem |-> IF i = f.row THEN e ELSE mem[i]] \in Seq(Row)
    <3> HIDE DEF e, f
    <3>1. DOMAIN mem = 1 .. Len(mem) /\ Len(mem) \in Nat
      BY <1>a, LenProperties
    <3>2. \A i \in 1 .. Len(mem) : mem[i] \in Row
      BY <1>a, ElementOfSeq
    <3>3. QED
      BY <2>2, <3>1, <3>2
  <2> HIDE DEF f, e, w
  <2>8. files' \in [Files -> Store] /\ FiniteLog' /\ mem' \in Seq(Row)
    BY <1>a, <2>5, <2>6, <2>7 DEF FiniteLog
  <2>9. QED
    BY <2>1, <2>3, <2>4, <2>8 DEF TypeOK
<1>13. CASE StartClear
  <2>1. [kind |-> "askBackup", valid |-> active, asked |-> born] \in Frame
    BY <1>a, AskBackupIsFrame
  <2>2. QED
    BY <1>a, <1>13, <2>1, PushStack, StackTypes DEF StartClear
<1>14. CASE AnswerBackup
  <2>1. /\ Top("askBackup")
        /\ UNCHANGED <<files, connection, session, born, loads, history>>
    BY <1>14 DEF AnswerBackup
  <2>2. Head(frames).valid \in BOOLEAN /\ Head(frames).asked \in Nat
    BY <1>a, <2>1, TopFrame, FrameFields
  <2>3. NoBackup \in Backup /\ [taken |-> TRUE, qsos |-> BackupNow] \in Backup
    BY <1>a, StoreFields, QsosAreNats DEF NoBackup, Backup, BackupNow
  <2>4. CASE Pop
    BY <1>a, <2>1, <2>4, PopStack, StackTypes
  <2>5. ASSUME NEW b \in Backup, Confirm(b)
        PROVE  frames' \in Seq(Frame)
    BY <1>a, <2>1, <2>2, <2>5, ConfirmIsFrame, ReplaceStack DEF Confirm
  <2>6. CASE Replace([kind |-> "backupFailed", valid |-> Head(frames).valid,
                      asked |-> Head(frames).asked])
    <3>1. frames' \in Seq(Frame)
      BY <1>a, <2>1, <2>2, <2>6, AskBackupIsFrame, ReplaceStack
    <3>2. QED
      BY <1>a, <2>1, <3>1, StackTypes
  <2>7. QED
    BY <1>a, <1>14, <2>1, <2>3, <2>4, <2>5, <2>6, StackTypes DEF AnswerBackup
<1>15. CASE AnswerBackupFailed
  <2>1. /\ Top("backupFailed")
        /\ UNCHANGED <<files, connection, session, born, loads, history>>
    BY <1>15 DEF AnswerBackupFailed
  <2>2. Head(frames).valid \in BOOLEAN /\ Head(frames).asked \in Nat
    BY <1>a, <2>1, TopFrame, FrameFields
  <2>3. NoBackup \in Backup
    BY DEF NoBackup, Backup
  <2>4. CASE Pop
    BY <1>a, <2>1, <2>4, PopStack, StackTypes
  <2>5. CASE Confirm(NoBackup)
    <3>1. frames' \in Seq(Frame)
      BY <1>a, <2>1, <2>2, <2>3, <2>5, ConfirmIsFrame, ReplaceStack DEF Confirm
    <3>2. QED
      BY <1>a, <2>1, <3>1, StackTypes
  <2>6. QED
    BY <1>15, <2>4, <2>5 DEF AnswerBackupFailed
<1>16. CASE DeclineClear
  BY <1>a, <1>16, PopStack, StackTypes DEF DeclineClear
<1>17. CASE ClearLog
  <2> DEFINE f == Head(frames)
  <2>1. f \in Frame /\ f.kind = "confirmClear" /\ frames' \in Seq(Frame)
    BY <1>a, <1>17, PopStack, TopFrame DEF ClearLog
  <2>2. f.asked \in Nat /\ f.backup \in Backup
    BY <2>1, FrameFields
  <2>3. /\ files' = IF f.valid THEN [files EXCEPT ![file].rows = {}] ELSE files
        /\ mem' = <<>>
        /\ lastClear' = [deleted |-> (IF f.valid THEN Qsos(files[file].rows) ELSE {})
                                       \cup (Qsos(MemRows) \ Qsos(db)),
                         asked |-> f.asked, backup |-> f.backup]
        /\ spent' \subseteq spent
        /\ UNCHANGED <<file, dbOpen, path, nextSerial, active, contest, logger, sinceCheck,
                       born, loads, refused, misuse>>
    BY <1>17 DEF ClearLog
  <2> HIDE DEF f
  <2>4. files' \in [Files -> Store] /\ FiniteLog'
    BY <1>a, <2>3, Emptied DEF FiniteLog
  <2>5. Qsos(files[file].rows) \in SUBSET Nat /\ Qsos(MemRows) \in SUBSET Nat
    BY <1>a, StoreFields, MemRowsAreRows, QsosAreNats
  <2>6. lastClear' \in [deleted : SUBSET Nat, asked : Nat, backup : Backup]
    BY <2>2, <2>3, <2>5
  <2>7. mem' \in Seq(Row)
    BY <2>3
  <2>8. spent' \in SUBSET [qso : Nat \ {0}, serial : Nat, load : Nat, file : Files]
    BY <2>3 DEF TypeOK
  <2>9. QED
    BY <2>1, <2>3, <2>4, <2>6, <2>7, <2>8 DEF TypeOK
<1>18. CASE ClearFails
  <2>1. frames' \in Seq(Frame)
    BY <1>a, <1>18, PlainIsFrame, ReplaceStack DEF ClearFails
  <2>2. QED
    BY <1>a, <1>18, <2>1, StackTypes DEF ClearFails
<1>19. CASE UNCHANGED vars
  BY <1>19 DEF vars, TypeOK, FiniteLog
<1>21. CASE ChooseContest
  <2>1. frames' \in Seq(Frame)
    BY <1>a, <1>21, PlainIsFrame, PushStack DEF ChooseContest
  <2>2. dbOpen' \in BOOLEAN
    BY <1>21 DEF ChooseContest
  <2>3. QED
    BY <1>21, <2>1, <2>2, StackTypes DEF ChooseContest
<1>22. CASE CancelChoice
  BY <1>a, <1>22, PopStack, StackTypes DEF CancelChoice
<1>20. QED
  BY <1>21, <1>22, <1>1, <1>2, <1>3, <1>4, <1>5, <1>6, <1>7, <1>8, <1>9, <1>10, <1>11, <1>12,
     <1>13, <1>14, <1>15, <1>16, <1>17, <1>18, <1>19 DEF Next

-----------------------------------------------------------------------------
(* The actions by what they do to the session                               *)

\* How a step may change the contest in use
ContestKept == UNCHANGED <<loads, nextSerial, active, contest, logger>>
ContestLost == /\ active' = FALSE /\ contest' = 0
               /\ UNCHANGED <<loads, nextSerial, logger>>
ContestOpened == \E f \in Files : Activate(f)
Restarted == active' = FALSE /\ loads' = loads + 1

\* Which actions log with the serial number of the entry line
Serialled == LogFromEntryLine \/ LogFromWeb

\* Every other step keeps the contest, loses it, or opens one, and sends no
\* serial number
LEMMA StepKinds ==
  ASSUME TypeOK, [Next]_vars
  PROVE  \/ Serialled
         \/ /\ ContestKept \/ ContestLost \/ ContestOpened \/ Restarted
            /\ spent' \subseteq spent /\ misuse \subseteq misuse'
<1> USE DEF connection, session, history, ContestKept, ContestLost, ContestOpened,
            Restarted, Serialled
<1>1. CASE LogFromEntryLine \/ LogFromWeb
  BY <1>1
<1>2. ASSUME NEW t \in {0, born + 1}, LogFromWsjtx(t)
      PROVE  ContestKept /\ spent' = spent /\ misuse' = misuse
  BY <1>2 DEF LogFromWsjtx
<1>3. CASE DismissSaveIssue
  BY <1>3 DEF DismissSaveIssue
<1>4. ASSUME NEW f \in Files, OpenContest(f)
      PROVE  /\ ContestLost \/ ContestOpened
             /\ spent' = spent /\ misuse' = misuse
  BY <1>4 DEF OpenContest, ActivateFails
<1>a. path \in Files
  BY DEF TypeOK
<1>5. CASE Restart
  BY <1>a, <1>5 DEF Restart
<1>6. CASE AnswerMismatch
  BY <1>a, <1>6 DEF AnswerMismatch, ReopenFails, ActivateFails
<1>7. ASSUME NEW i \in DOMAIN mem, StartEdit(i)
      PROVE  ContestKept /\ spent' = spent /\ misuse' = misuse
  BY <1>7 DEF StartEdit
<1>8. CASE AcceptEdit
  <2>1. misuse \subseteq misuse'
    BY <1>8 DEF AcceptEdit
  <2>2. ContestKept /\ spent' = spent
    BY <1>8 DEF AcceptEdit
  <2>3. QED
    BY <2>1, <2>2
<1>9. CASE ClearLog
  <2>1. spent' \subseteq spent
    BY <1>9 DEF ClearLog
  <2>2. ContestKept /\ misuse' = misuse
    BY <1>9 DEF ClearLog
  <2>3. QED
    BY <2>1, <2>2
<1>10. CASE DismissError \/ PeriodicCheck \/ CancelEdit \/ StartClear \/ AnswerBackup
            \/ AnswerBackupFailed \/ DeclineClear \/ ClearFails
            \/ ChooseContest \/ CancelChoice
  BY <1>10 DEF DismissError, PeriodicCheck, CancelEdit, StartClear, AnswerBackup,
               AnswerBackupFailed, DeclineClear, ClearFails, ChooseContest, CancelChoice
<1>11. CASE UNCHANGED vars
  BY <1>11 DEF vars
<1>12. QED
  BY <1>1, <1>2, <1>3, <1>4, <1>5, <1>6, <1>7, <1>8, <1>9, <1>10, <1>11 DEF Next

LEMMA ActiveStep ==
  ASSUME TypeOK, ActiveIsWhole, [Next]_vars
  PROVE  ActiveIsWhole'
<1>1. CASE Serialled
  BY <1>1 DEF Serialled, LogFromEntryLine, LogFromWeb, LogContact, ActiveIsWhole
<1>2. CASE ContestKept
  BY <1>2 DEF ContestKept, ActiveIsWhole
<1>3. CASE ContestLost
  BY <1>3 DEF ContestLost, ActiveIsWhole
<1>4. CASE ContestOpened
  <2>1. loads \in Nat
    BY DEF TypeOK
  <2>2. contest' = loads + 1 /\ logger' = loads + 1
    BY <1>4 DEF ContestOpened, Activate
  <2>3. QED
    BY <2>1, <2>2 DEF ActiveIsWhole
<1>5. CASE Restarted
  BY <1>5 DEF Restarted, ActiveIsWhole
<1>6. QED
  BY <1>1, <1>2, <1>3, <1>4, <1>5, StepKinds

LEMMA SerialStep ==
  ASSUME TypeOK, TypeOK', SerialsBelow, SerialsAdvance, [Next]_vars
  PROVE  SerialsBelow' /\ SerialsAdvance'
<1>a. /\ loads \in Nat /\ nextSerial \in Nat /\ nextSerial' \in Nat
      /\ \A a \in spent : a.load \in Nat /\ a.serial \in Nat
  BY DEF TypeOK
<1>1. CASE Serialled
  <2> DEFINE new == Sent
  <2>1. spent' = spent \cup {new} /\ loads' = loads
    BY <1>1 DEF Serialled, LogFromEntryLine, LogFromWeb, LogContact, Logged
  <2>2. misuse \subseteq misuse' /\ (logger = contest \/ "log" \in misuse')
    BY <1>1 DEF Serialled, LogFromEntryLine, LogFromWeb
  <2>3. logger = contest => nextSerial' = nextSerial + 1
    BY <1>1 DEF Serialled, LogFromEntryLine, LogFromWeb, LogContact, Logged
  <2>4. new.serial = nextSerial /\ new.load = loads
    BY DEF Sent
  <2> HIDE DEF new
  <2>5. \A a \in spent' : a.load <= loads'
    BY <1>a, <2>1, <2>4 DEF SerialsBelow
  <2>6. CASE "log" \in misuse'
    BY <2>5, <2>6 DEF SerialsBelow, SerialsAdvance
  <2>7. CASE "log" \notin misuse'
    <3>1. nextSerial' = nextSerial + 1 /\ "log" \notin misuse
      BY <2>2, <2>3, <2>7
    <3>2. \A a \in spent : a.load = loads => a.serial < nextSerial
      BY <3>1 DEF SerialsBelow
    <3>3. SerialsBelow'
      BY <1>a, <2>1, <2>4, <2>5, <3>1, <3>2 DEF SerialsBelow
    <3>4. SerialsAdvance'
      BY <1>a, <2>1, <2>4, <3>1, <3>2 DEF SerialsAdvance
    <3>5. QED
      BY <3>3, <3>4
  <2>8. QED
    BY <2>6, <2>7
<1>2. ASSUME spent' \subseteq spent, misuse \subseteq misuse',
             ContestKept \/ ContestLost \/ ContestOpened \/ Restarted
      PROVE  SerialsBelow' /\ SerialsAdvance'
  <2>1. SerialsAdvance'
    BY <1>2 DEF SerialsAdvance
  <2>2. CASE ContestKept \/ ContestLost
    BY <1>2, <2>1, <2>2 DEF ContestKept, ContestLost, SerialsBelow
  <2>3. CASE ContestOpened \/ Restarted
    <3>1. loads' = loads + 1
      BY <2>3 DEF ContestOpened, Activate, Restarted
    <3>2. \A a \in spent' : a.load \in Nat /\ a.load <= loads
      BY <1>2, <1>a DEF SerialsBelow
    <3>3. QED
      BY <1>a, <2>1, <3>1, <3>2 DEF SerialsBelow
  <2>4. QED
    BY <1>2, <2>1, <2>2, <2>3
<1>3. QED
  BY <1>1, <1>2, StepKinds

-----------------------------------------------------------------------------
(* The steps by their shape: what they do to the files, to the table and to *)
(* the stack.  The proofs below go by these.                                *)

Edited(r) == [id |-> r.id, qso |-> r.qso, t |-> r.t, ed |-> 1, sent |-> r.sent]

\* Contacts, contest and history stay as they are
Kept == /\ UNCHANGED <<files, file, path, mem, born, refused, active, contest, loads,
                       lastClear>>
        /\ misuse \subseteq misuse'

\* A new contact: stored under the next id and shown, with that id or without
\* one, or shown only and refused
Logs ==
  /\ \E r, s \in Row :
       /\ r.qso = born + 1 /\ s.qso = born + 1
       /\ mem' = Append(mem, s)
       /\ \/ /\ active /\ r.id = NextId /\ s.id \in {r.id, NoId}
             /\ Insert(r) /\ refused' = refused
          \/ s.id = NoId /\ files' = files /\ refused' = refused \cup {born + 1}
  /\ born' = born + 1
  /\ UNCHANGED <<file, path, active, contest, loads, lastClear>>
  /\ misuse \subseteq misuse'
  /\ UNCHANGED frames \/ \E f \in Frame : f.kind = "saveIssue" /\ Push(f)

Closes == Kept /\ \E k : Top(k) /\ Pop

\* An operator's command opens its first dialog
Starts ==
  /\ Kept /\ Idle
  /\ \E f \in Frame :
       /\ Push(f)
       /\ \/ /\ f.kind = "edit" /\ f.contest = contest
             /\ f.row \in DOMAIN mem /\ f.rec = mem[f.row] /\ f.rec.id # NoId
          \/ f.kind = "askBackup" /\ f.valid = active /\ f.asked = born
          \/ f.kind = "choose"

Notices == /\ Kept /\ active
           /\ \E f \in Frame : f.kind = "mismatch" /\ Push(f)

\* One question of a clearing follows the other, or an error
Advances ==
  /\ Kept
  /\ \E k \in Clears, f \in Frame :
       /\ Top(k) /\ Replace(f)
       /\ \/ f.kind = "error"
          \/ /\ f.kind \in {"backupFailed", "confirmClear"}
             /\ f.valid = Head(frames).valid /\ f.asked = Head(frames).asked
             /\ f.kind = "confirmClear" =>
                  ~f.backup.taken \/ f.backup.qsos = Qsos(files[file].rows)

\* A contest is loaded: the one chosen, the last one, or the same one again
Opens ==
  /\ UNCHANGED <<files, born, refused, lastClear, misuse>>
  /\ \/ /\ \E f \in Files : Activate(f)
        /\ frames' = <<>> \/ (Top("choose") /\ Pop)
     \/ Activate(path) /\ Top("mismatch") /\ Pop

Loses ==
  /\ active' = FALSE /\ contest' = 0 /\ loads' \in {loads, loads + 1}
  /\ UNCHANGED <<files, path, born, refused, lastClear, misuse>>
  /\ mem' = mem \/ mem' = <<>>
  /\ \/ frames' = <<>>
     \/ \E f \in Frame : /\ f.kind = "error" /\ Replace(f)
                         /\ Top("choose") \/ (Top("mismatch") /\ file' = path)

Edits ==
  LET f == Head(frames)
  IN  /\ Top("edit") /\ Pop
      /\ UNCHANGED <<file, path, born, refused, active, contest, loads, lastClear>>
      /\ misuse \subseteq misuse'
      /\ f.contest \notin {0, contest} => "edit" \in misuse'
      /\ \E r \in files[file].rows : r.id = f.rec.id
      /\ files' = [files EXCEPT ![file].rows = Written(@, Edited(f.rec))]
      /\ mem' = [i \in DOMAIN mem |-> IF i = f.row THEN Edited(f.rec) ELSE mem[i]]

Removes ==
  LET f == Head(frames)
  IN  /\ Top("confirmClear") /\ Pop
      /\ UNCHANGED <<file, path, born, refused, active, contest, loads, misuse>>
      /\ files' = (IF f.valid THEN [files EXCEPT ![file].rows = {}] ELSE files)
      /\ mem' = <<>>
      /\ lastClear' = [deleted |-> (IF f.valid THEN Qsos(files[file].rows) ELSE {})
                                     \cup (Qsos(MemRows) \ Qsos(db)),
                       asked |-> f.asked, backup |-> f.backup]

LEMMA StepShapes ==
  ASSUME TypeOK, [Next]_vars
  PROVE  \/ Kept /\ UNCHANGED frames
         \/ Logs \/ Closes \/ Starts \/ Notices \/ Advances
         \/ Opens \/ Loses \/ Edits \/ Removes
<1> USE DEF connection, session, history
<1>a. /\ born \in Nat /\ NextId \in Nat /\ contest \in Nat /\ active \in BOOLEAN
      /\ mem \in Seq(Row) /\ frames \in Seq(Frame) /\ files[file].rows \in SUBSET Row
      /\ NoId \in Nat /\ <<>> \in Seq(Nat) /\ SentExchange(nextSerial) \in Seq(Nat)
      /\ path \in Files
  <2>1. files[file].rows \in SUBSET Row /\ files[file].last \in Nat
    BY StoreFields DEF TypeOK
  <2>2. SentExchange(nextSerial) \in Seq(Nat)
    BY SentIsSeq DEF TypeOK
  <2>3. QED
    BY <2>1, <2>2 DEF TypeOK, NoId, NextId
<1>1. CASE LogFromEntryLine \/ LogFromWeb
  <2>1. /\ LogContact /\ born' = born + 1 /\ misuse \subseteq misuse'
        /\ UNCHANGED <<file, path, active, contest, loads, lastClear>>
    BY <1>1 DEF LogFromEntryLine, LogFromWeb, LogContact, Logged
  <2> DEFINE r == NewRow(NextId, born + 1, SentExchange(nextSerial))
             s == NewRow(NoId, born + 1, SentExchange(nextSerial))
             f == [kind |-> "saveIssue", checked |-> ChecksNow, mults |-> contest # 0]
  <2>2. /\ r \in Row /\ r.id = NextId /\ r.qso = born + 1
        /\ s \in Row /\ s.id = NoId /\ s.qso = born + 1
    BY <1>a, NewRowIsRow
  <2>3. f \in Frame /\ f.kind = "saveIssue"
    <3>1. ChecksNow \in BOOLEAN /\ (contest # 0) \in BOOLEAN
      BY DEF ChecksNow
    <3>2. QED
      BY <3>1, SaveIssueIsFrame
  <2>4. \/ /\ active /\ Insert(r) /\ mem' = Append(mem, r)
           /\ UNCHANGED <<frames, refused>>
        \/ /\ mem' = Append(mem, s) /\ refused' = refused \cup {born + 1}
           /\ files' = files /\ Push(f)
    BY <2>1 DEF LogContact, LogSaved, LogRefused, CanSave
  <2> HIDE DEF r, s, f
  <2>5. CASE active /\ Insert(r) /\ mem' = Append(mem, r) /\ UNCHANGED <<frames, refused>>
    <3>1. Logs
      BY <2>1, <2>2, <2>5 DEF Logs
    <3>2. QED
      BY <3>1
  <2>6. CASE /\ mem' = Append(mem, s) /\ refused' = refused \cup {born + 1}
             /\ files' = files /\ Push(f)
    <3>1. Logs
      BY <2>1, <2>2, <2>3, <2>6 DEF Logs
    <3>2. QED
      BY <3>1
  <2>7. QED
    BY <2>4, <2>5, <2>6
<1>2. ASSUME NEW t \in {0, born + 1}, LogFromWsjtx(t)
      PROVE  Logs
  <2> DEFINE r == NewRow(NextId, t, <<>>)
             s == NewRow(NoId, t, <<>>)
  <2>1. /\ r \in Row /\ r.id = NextId /\ r.qso = born + 1
        /\ s \in Row /\ s.id = NoId /\ s.qso = born + 1
    <3>1. t \in Nat
      BY <1>a
    <3>2. QED
      BY <1>a, <3>1, NewRowIsRow
  <2>2. /\ active /\ Insert(r) /\ mem' = Append(mem, s) /\ born' = born + 1
        /\ UNCHANGED <<file, path, active, contest, frames, loads, refused, lastClear, misuse>>
    BY <1>2 DEF LogFromWsjtx
  <2> HIDE DEF r, s
  <2>3. QED
    BY <2>1, <2>2 DEF Logs
<1>3. CASE DismissSaveIssue
  <2>1. misuse \subseteq misuse'
    BY <1>3 DEF DismissSaveIssue
  <2>2. Closes
    BY <1>3, <2>1 DEF DismissSaveIssue, Closes, Kept
  <2>3. QED
    BY <2>2
<1>4. CASE DismissError \/ CancelEdit \/ DeclineClear \/ CancelChoice
  <2>1. \E k : Top(k) /\ Pop
    BY <1>4 DEF DismissError, CancelEdit, DeclineClear, CancelChoice
  <2>2. Kept
    BY <1>4 DEF DismissError, CancelEdit, DeclineClear, CancelChoice, Kept
  <2>3. QED
    BY <2>1, <2>2 DEF Closes
<1>5. ASSUME NEW g \in Files, OpenContest(g)
      PROVE  Opens \/ Loses
  <2>1. Top("choose") /\ UNCHANGED <<files, born, refused, lastClear, misuse>>
    BY <1>5 DEF OpenContest
  <2>2. CASE Activate(g) /\ Pop
    BY <2>1, <2>2 DEF Opens
  <2>3. CASE ActivateFails(g) /\ Replace([kind |-> "error"])
    <3>1. [kind |-> "error"] \in Frame
      BY PlainIsFrame
    <3>2. QED
      BY <2>1, <2>3, <3>1 DEF ActivateFails, Loses
  <2>4. QED
    BY <1>5, <2>2, <2>3 DEF OpenContest
<1>6. CASE Restart
  <2>1. frames' = <<>> /\ UNCHANGED <<files, born, refused, lastClear, misuse>>
    BY <1>6 DEF Restart
  <2>2. \/ Activate(path)
        \/ /\ active' = FALSE /\ contest' = 0 /\ path' = path
           /\ loads' = loads + 1 /\ mem' = <<>>
    BY <1>6 DEF Restart
  <2>3. Opens \/ Loses
    BY <1>a, <2>1, <2>2 DEF Opens, Loses
  <2>4. QED
    BY <2>3
<1>7. CASE PeriodicCheck
  <2>1. [kind |-> "mismatch"] \in Frame
    BY PlainIsFrame
  <2>2. Notices
    BY <1>7, <2>1 DEF PeriodicCheck, Notices, Kept
  <2>3. QED
    BY <2>2
<1>8. CASE AnswerMismatch
  <2>1. Top("mismatch") /\ UNCHANGED <<files, sinceCheck, born, history>>
    BY <1>8 DEF AnswerMismatch
  <2>2. CASE Pop /\ UNCHANGED <<file, path, mem, active, contest, loads>>
    BY <2>1, <2>2 DEF Closes, Kept
  <2>3. CASE Pop /\ Activate(path)
    <3>1. Opens
      BY <2>1, <2>3 DEF Opens
    <3>2. QED
      BY <3>1
  <2>4. CASE Replace([kind |-> "error"]) /\ ActivateFails(path)
    <3>1. [kind |-> "error"] \in Frame
      BY PlainIsFrame
    <3>2. Loses
      BY <2>1, <2>4, <3>1 DEF ActivateFails, Loses
    <3>3. QED
      BY <3>2
  <2>5. QED
    BY <1>8, <2>2, <2>3, <2>4 DEF AnswerMismatch, ReopenFails
<1>9. ASSUME NEW i \in DOMAIN mem, StartEdit(i)
      PROVE  Starts
  <2> DEFINE f == [kind |-> "edit", row |-> i, rec |-> mem[i], contest |-> contest]
  <2>1. i \in Nat \ {0} /\ mem[i] \in Row
    BY <1>a, LenProperties, ElementOfSeq
  <2>2. /\ f \in Frame /\ f.kind = "edit" /\ f.contest = contest
        /\ f.row \in DOMAIN mem /\ f.rec = mem[f.row] /\ f.rec.id # NoId
    BY <1>a, <1>9, <2>1, EditIsFrame DEF StartEdit
  <2>3. Push(f) /\ Idle /\ Kept
    BY <1>9 DEF StartEdit, Kept
  <2> HIDE DEF f
  <2>4. QED
    BY <2>2, <2>3 DEF Starts
<1>10. CASE AcceptEdit
  <2> DEFINE f == Head(frames)
  <2>1. /\ Top("edit") /\ Pop /\ misuse \subseteq misuse'
        /\ f.contest \notin {0, contest} => "edit" \in misuse'
        /\ UNCHANGED <<file, path, born, refused, active, contest, loads, lastClear>>
    BY <1>10 DEF AcceptEdit
  <2>2. \/ UNCHANGED <<files, mem>>
        \/ /\ \E r \in files[file].rows : r.id = f.rec.id
           /\ files' = [files EXCEPT ![file].rows = Written(@, Edited(f.rec))]
           /\ mem' = [i \in DOMAIN mem |-> IF i = f.row THEN Edited(f.rec) ELSE mem[i]]
    BY <1>10 DEF AcceptEdit, Edited
  <2>3. Closes \/ Edits
    BY <2>1, <2>2 DEF Closes, Kept, Edits
  <2>4. QED
    BY <2>3
<1>11. CASE StartClear
  <2> DEFINE f == [kind |-> "askBackup", valid |-> active, asked |-> born]
  <2>1. f \in Frame /\ f.kind = "askBackup" /\ f.valid = active /\ f.asked = born
    BY <1>a, AskBackupIsFrame
  <2>2. Push(f) /\ Idle /\ Kept
    BY <1>11 DEF StartClear, Kept
  <2> HIDE DEF f
  <2>3. QED
    BY <2>1, <2>2 DEF Starts
<1>12. CASE AnswerBackup \/ AnswerBackupFailed \/ ClearFails
  <2>1. PICK k \in Clears : Top(k)
    BY <1>12 DEF AnswerBackup, AnswerBackupFailed, ClearFails, Clears
  <2>2. Kept
    BY <1>12 DEF AnswerBackup, AnswerBackupFailed, ClearFails, Kept
  <2>3. Head(frames).valid \in BOOLEAN /\ Head(frames).asked \in Nat
    BY <1>a, <2>1, TopFrame, FrameFields DEF Clears
  <2>4. ASSUME NEW b \in Backup, Confirm(b), ~b.taken \/ b.qsos = Qsos(files[file].rows)
        PROVE  Advances
    <3> DEFINE f == [kind |-> "confirmClear", valid |-> Head(frames).valid,
                     asked |-> Head(frames).asked, backup |-> b]
    <3>1. /\ f \in Frame /\ f.kind = "confirmClear" /\ f.valid = Head(frames).valid
          /\ f.asked = Head(frames).asked /\ f.backup = b
      BY <2>3, ConfirmIsFrame
    <3>2. Replace(f)
      BY <2>4 DEF Confirm
    <3> HIDE DEF f
    <3>3. QED
      BY <2>1, <2>2, <2>4, <3>1, <3>2 DEF Advances
  <2>5. /\ NoBackup \in Backup /\ ~NoBackup.taken
        /\ [taken |-> TRUE, qsos |-> BackupNow] \in Backup
        /\ [taken |-> TRUE, qsos |-> BackupNow].qsos = Qsos(files[file].rows)
    BY <1>a, QsosAreNats DEF NoBackup, Backup, BackupNow
  <2>6. ASSUME Replace([kind |-> "backupFailed", valid |-> Head(frames).valid,
                        asked |-> Head(frames).asked])
        PROVE  Advances
    <3> DEFINE f == [kind |-> "backupFailed", valid |-> Head(frames).valid,
                     asked |-> Head(frames).asked]
    <3>1. /\ f \in Frame /\ f.kind = "backupFailed" /\ f.valid = Head(frames).valid
          /\ f.asked = Head(frames).asked
      BY <2>3, AskBackupIsFrame
    <3>2. Replace(f)
      BY <2>6
    <3> HIDE DEF f
    <3>3. QED
      BY <2>1, <2>2, <3>1, <3>2 DEF Advances
  <2>7. CASE AnswerBackup
    BY <2>1, <2>2, <2>4, <2>5, <2>6, <2>7 DEF AnswerBackup, Closes
  <2>8. CASE AnswerBackupFailed
    BY <2>1, <2>2, <2>4, <2>5, <2>8 DEF AnswerBackupFailed, Closes
  <2>9. CASE ClearFails
    <3>1. [kind |-> "error"] \in Frame
      BY PlainIsFrame
    <3>2. Advances
      BY <2>1, <2>2, <2>9, <3>1 DEF ClearFails, Advances
    <3>3. QED
      BY <3>2
  <2>10. QED
    BY <1>12, <2>7, <2>8, <2>9
<1>13. CASE ClearLog
  <2>1. Removes
    BY <1>13 DEF ClearLog, Removes
  <2>2. QED
    BY <2>1
<1>16. CASE ChooseContest
  <2>1. [kind |-> "choose"] \in Frame
    BY PlainIsFrame
  <2>2. Starts
    BY <1>16, <2>1 DEF ChooseContest, Starts, Kept
  <2>3. QED
    BY <2>2
<1>14. CASE UNCHANGED vars
  BY <1>14 DEF vars, Kept
<1>15. QED
  BY <1>1, <1>2, <1>3, <1>4, <1>5, <1>6, <1>7, <1>8, <1>9, <1>10, <1>11, <1>12,
     <1>13, <1>14, <1>16 DEF Next

-----------------------------------------------------------------------------
(* The stack, index by index: the frame of a command is the bottom one      *)

LEMMA PushIndices ==
  ASSUME frames \in Seq(Frame), NEW f \in Frame, Push(f)
  PROVE  /\ 1 \in DOMAIN frames' /\ frames'[1] = f
         /\ \A i \in DOMAIN frames' :
              /\ i \in Nat \ {0}
              /\ i # 1 => i - 1 \in DOMAIN frames /\ frames'[i] = frames[i - 1]
<1>1. <<f>> \in Seq(Frame) /\ Len(<<f>>) = 1 /\ <<f>>[1] = f
  OBVIOUS
<1>2. frames' = <<f>> \o frames
  BY DEF Push
<1>3. /\ frames' \in Seq(Frame)
      /\ Len(frames') = 1 + Len(frames)
      /\ \A i \in 1 .. 1 + Len(frames) :
           frames'[i] = IF i <= 1 THEN <<f>>[i] ELSE frames[i - 1]
  BY <1>1, <1>2, ConcatProperties
<1>4. QED
  BY <1>1, <1>3, LenProperties

LEMMA PopIndices ==
  ASSUME frames \in Seq(Frame), NEW k, Top(k), Pop
  PROVE  \A i \in DOMAIN frames' :
           i + 1 \in DOMAIN frames /\ frames'[i] = frames[i + 1]
<1>1. frames # <<>> /\ frames' = Tail(frames)
  BY DEF Top, Pop
<1>2. /\ frames' \in Seq(Frame) /\ Len(frames') = Len(frames) - 1
      /\ \A i \in 1 .. Len(frames') : frames'[i] = frames[i + 1]
  BY <1>1, HeadTailProperties
<1>3. QED
  BY <1>2, LenProperties

LEMMA ReplaceIndices ==
  ASSUME frames \in Seq(Frame), NEW k, Top(k), NEW f \in Frame, Replace(f)
  PROVE  /\ DOMAIN frames' = DOMAIN frames
         /\ \A i \in DOMAIN frames' :
              /\ i \in Nat \ {0}
              /\ i = 1 => frames'[i] = f
              /\ i # 1 => frames'[i] = frames[i]
<1>1. frames # <<>> /\ frames' = <<f>> \o Tail(frames)
  BY DEF Top, Replace
<1> DEFINE t == Tail(frames)
<1>2. /\ t \in Seq(Frame) /\ Len(t) = Len(frames) - 1 /\ Len(frames) \in Nat
      /\ \A i \in 1 .. Len(t) : t[i] = frames[i + 1]
  BY <1>1, HeadTailProperties, LenProperties
<1>3. <<f>> \in Seq(Frame) /\ Len(<<f>>) = 1 /\ <<f>>[1] = f
  OBVIOUS
<1> HIDE DEF t
<1>4. frames' = <<f>> \o t
  BY <1>1 DEF t
<1>5. /\ frames' \in Seq(Frame)
      /\ Len(frames') = 1 + Len(t)
      /\ \A i \in 1 .. 1 + Len(t) :
           frames'[i] = IF i <= 1 THEN <<f>>[i] ELSE t[i - 1]
  BY <1>2, <1>3, <1>4, ConcatProperties
<1>6. \A i \in 1 .. 1 + Len(t) : i # 1 => i - 1 \in 1 .. Len(t) /\ (i - 1) + 1 = i
  BY <1>2
<1>7. QED
  BY <1>2, <1>3, <1>5, <1>6, LenProperties

\* When a command's dialog is on top, it is the only one: answering it leaves
\* no dialog, or the one that replaces it
LEMMA CommandAlone ==
  ASSUME TypeOK, CommandsLast, NEW k \in Commands, Top(k)
  PROVE  /\ Pop => DOMAIN frames' = {}
         /\ \A f \in Frame : Replace(f) => \A i \in DOMAIN frames' : frames'[i] = f
<1>a. frames \in Seq(Frame) /\ \A i \in DOMAIN frames : i \in Nat \ {0}
  BY LenProperties DEF TypeOK
<1>1. 1 \in DOMAIN frames /\ frames[1].kind \in Commands
  BY <1>a, TopFrame
<1>2. \A j \in DOMAIN frames : j = 1
  <2>1. \A j \in DOMAIN frames : j \in Nat \ {0} /\ j <= 1
    BY <1>a, <1>1 DEF CommandsLast
  <2>2. QED
    BY <2>1
<1>3. ASSUME Pop PROVE DOMAIN frames' = {}
  <2>1. \A i \in DOMAIN frames' : i \in Nat \ {0} /\ i + 1 \in DOMAIN frames
    BY <1>a, <1>3, PopIndices, PopStack, LenProperties
  <2>2. \A i \in DOMAIN frames' : FALSE
    BY <1>2, <2>1
  <2>3. QED
    BY <2>2
<1>4. ASSUME NEW f \in Frame, Replace(f) PROVE \A i \in DOMAIN frames' : frames'[i] = f
  BY <1>a, <1>2, <1>4, ReplaceIndices
<1>5. QED
  BY <1>3, <1>4

LEMMA CommandsStep ==
  ASSUME TypeOK, CommandsLast, [Next]_vars
  PROVE  CommandsLast'
<1>a. frames \in Seq(Frame) /\ \A i \in DOMAIN frames : i \in Nat \ {0}
  BY LenProperties DEF TypeOK
<1>1. CASE UNCHANGED frames
  BY <1>1 DEF CommandsLast
<1>2. CASE frames' = <<>>
  BY <1>2 DEF CommandsLast
<1>3. ASSUME NEW k, Top(k), Pop PROVE CommandsLast'
  <2>1. \A i \in DOMAIN frames' : i \in Nat
    BY <1>3, <1>a, PopStack, LenProperties
  <2>2. QED
    BY <1>3, <1>a, <2>1, PopIndices DEF CommandsLast
<1>4. ASSUME NEW f \in Frame, Push(f), f.kind \notin Commands PROVE CommandsLast'
  BY <1>4, <1>a, PushIndices DEF CommandsLast
<1>5. ASSUME NEW f \in Frame, Push(f), Idle PROVE CommandsLast'
  <2>1. DOMAIN frames = {}
    BY <1>5 DEF Idle
  <2>2. \A i \in DOMAIN frames' : i = 1
    BY <1>5, <1>a, <2>1, PushIndices
  <2>3. QED
    BY <2>2 DEF CommandsLast
<1>6. ASSUME NEW k, Top(k), NEW f \in Frame, Replace(f),
             f.kind \in Commands => k \in Commands
      PROVE  CommandsLast'
  <2>1. 1 \in DOMAIN frames /\ frames[1].kind = k
    BY <1>6, <1>a, TopFrame
  <2>2. QED
    BY <1>6, <1>a, <2>1, ReplaceIndices DEF CommandsLast
<1>7. CASE Logs
  BY <1>1, <1>4, <1>7 DEF Logs, Commands, Clears
<1>8. CASE Closes \/ Edits \/ Removes
  BY <1>3, <1>8 DEF Closes, Edits, Removes
<1>9. CASE Starts
  BY <1>5, <1>9 DEF Starts
<1>10. CASE Notices
  BY <1>4, <1>10 DEF Notices, Commands, Clears
<1>11. CASE Advances
  <2>1. PICK k \in Clears, f \in Frame : Top(k) /\ Replace(f)
    BY <1>11 DEF Advances
  <2>2. QED
    BY <1>6, <2>1 DEF Commands
<1>12. CASE Opens
  BY <1>2, <1>3, <1>12 DEF Opens
<1>13. CASE Loses
  <2>1. ASSUME NEW f \in Frame, f.kind = "error", Replace(f), NEW k, Top(k)
        PROVE  CommandsLast'
    BY <1>6, <2>1 DEF Commands, Clears
  <2>2. QED
    BY <1>2, <1>13, <2>1 DEF Loses
<1>14. QED
  BY <1>1, <1>7, <1>8, <1>9, <1>10, <1>11, <1>12, <1>13, StepShapes

-----------------------------------------------------------------------------
(* Ids                                                                      *)

\* No edit dialog was opened by the step
NoNewEdit ==
  \A i \in DOMAIN frames' : frames'[i].kind = "edit" =>
    \E j \in DOMAIN frames : frames'[i] = frames[j]

\* Every row shown after the step that has an id was shown before it
NoNewShown ==
  \A i \in DOMAIN mem' : mem'[i].id # NoId =>
    \E j \in DOMAIN mem : mem'[i].id = mem[j].id /\ mem'[i].qso = mem[j].qso

LEMMA PopNoEdit ==
  ASSUME TypeOK, NEW k, Top(k), Pop
  PROVE  NoNewEdit
  BY PopStack DEF TypeOK, NoNewEdit

LEMMA PushNoEdit ==
  ASSUME TypeOK, NEW f \in Frame, f.kind # "edit", Push(f)
  PROVE  NoNewEdit
  BY PushStack DEF TypeOK, NoNewEdit

LEMMA ReplaceNoEdit ==
  ASSUME TypeOK, NEW f \in Frame, f.kind # "edit", NEW k, Top(k), Replace(f)
  PROVE  NoNewEdit
  BY ReplaceStack DEF TypeOK, NoNewEdit

\* The step opened no edit dialog, or it is a command that starts
LEMMA ShapeNoEdit ==
  ASSUME TypeOK, CommandsLast,
         \/ Kept /\ UNCHANGED frames
         \/ Logs \/ Closes \/ Notices \/ Advances \/ Opens \/ Loses \/ Edits \/ Removes
  PROVE  NoNewEdit
<1>1. CASE UNCHANGED frames \/ frames' = <<>>
  BY <1>1 DEF NoNewEdit
<1>2. ASSUME NEW k, Top(k), Pop PROVE NoNewEdit
  BY <1>2, PopNoEdit
<1>3. ASSUME NEW f \in Frame, f.kind # "edit", Push(f) PROVE NoNewEdit
  BY <1>3, PushNoEdit
<1>4. ASSUME NEW k, NEW f \in Frame, Top(k), f.kind # "edit", Replace(f) PROVE NoNewEdit
  BY <1>4, ReplaceNoEdit
<1>5. CASE Logs
  BY <1>1, <1>3, <1>5 DEF Logs
<1>6. CASE Closes \/ Edits \/ Removes
  BY <1>2, <1>6 DEF Closes, Edits, Removes
<1>7. CASE Notices
  BY <1>3, <1>7 DEF Notices
<1>8. CASE Advances
  <2>1. PICK k \in Clears, f \in Frame :
          Top(k) /\ Replace(f) /\ f.kind \in {"error", "backupFailed", "confirmClear"}
    BY <1>8 DEF Advances
  <2>2. QED
    BY <1>4, <2>1
<1>9. CASE Opens
  BY <1>1, <1>2, <1>9 DEF Opens
<1>10. CASE Loses
  <2>1. ASSUME NEW f \in Frame, f.kind = "error", Replace(f), NEW k, Top(k)
        PROVE  NoNewEdit
    BY <1>4, <2>1
  <2>2. QED
    BY <1>1, <1>10, <2>1 DEF Loses
<1>11. QED
  BY <1>1, <1>5, <1>6, <1>7, <1>8, <1>9, <1>10

\* Ids when contacts keep their rows or vanish with them
LEMMA IdsAfterRemoval ==
  ASSUME IdsInUse, born' = born,
         \A f \in Files : files'[f].rows \subseteq files[f].rows /\ files'[f].last = files[f].last
  PROVE  IdsInUse'
  BY DEF IdsInUse

\* A new contact is stored under an id its file never gave out
LEMMA IdsAfterInsert ==
  ASSUME TypeOK, FiniteLog, IdsInUse, born' = born + 1,
         NEW r \in Row, r.id = NextId, r.qso = born + 1, Insert(r)
  PROVE  IdsInUse'
<1>1. /\ files'[file].rows = files[file].rows \cup {r} /\ files'[file].last = r.id
      /\ \A f \in Files \ {file} : files'[f] = files[f]
  BY Inserted
<1>2. born \in Nat /\ file \in Files /\ \A f \in Files : files[f].last \in Nat
  BY StoreFields DEF TypeOK
<1>3. \A f \in Files : \A q \in files[f].rows :
        /\ q.id \in 1 .. files[f].last /\ q.qso <= born /\ q.qso \in Nat /\ q.id \in Nat
  BY StoreFields, RowFields DEF IdsInUse
<1>4. r.id = files[file].last + 1
  BY DEF NextId
<1>5. \A f \in Files : \A q \in files'[f].rows :
        (f = file /\ q = r) \/ q \in files[f].rows
  BY <1>1
<1>6. \A f \in Files : \A q \in files'[f].rows : q.id \in 1 .. files'[f].last /\ q.qso <= born'
  <2> SUFFICES ASSUME NEW f \in Files, NEW q \in files'[f].rows
               PROVE  q.id \in 1 .. files'[f].last /\ q.qso <= born'
    OBVIOUS
  <2>1. CASE f = file /\ q = r
    BY <1>1, <1>2, <1>4, <2>1
  <2>2. CASE q \in files[f].rows
    <3>1. q.id \in 1 .. files[f].last /\ q.qso \in Nat /\ q.qso <= born
      BY <1>3, <2>2
    <3>2. files'[f].last = files[f].last \/ files'[f].last = files[f].last + 1
      BY <1>1, <1>4
    <3>3. QED
      BY <1>2, <3>1, <3>2
  <2>3. QED
    BY <1>5, <2>1, <2>2
<1>7. \A q \in files[file].rows : q.id # r.id
  BY <1>2, <1>3, <1>4
<1>8. \A f \in Files : \A q \in files[f].rows : q.qso # r.qso
  BY <1>2, <1>3
<1>9. \A f \in Files : \A p, q \in files'[f].rows : p.id = q.id => p = q
  BY <1>1, <1>5, <1>7 DEF IdsInUse
<1>10. \A f, g \in Files : \A p \in files'[f].rows, q \in files'[g].rows :
         p.qso = q.qso => p.id = q.id
  BY <1>5, <1>8 DEF IdsInUse
<1>11. QED
  BY <1>6, <1>9, <1>10 DEF IdsInUse

\* An accepted edit writes the row of the dialog, which the home file holds
\* under its id, over the row the open file has under that id
LEMMA EditedRow ==
  ASSUME TypeOK, FiniteLog, IdsInUse, EditsAreCurrent, Edits
  PROVE  LET e == Edited(Head(frames).rec)
         IN  /\ e \in Row /\ e.id = Head(frames).rec.id /\ e.qso = Head(frames).rec.qso
             /\ Head(frames).kind = "edit" /\ 1 \in DOMAIN frames
             /\ Head(frames) = frames[1]
             /\ \E h \in db : h.id = e.id /\ h.qso = e.qso
             /\ files'[file].rows = Written(files[file].rows, e)
             /\ files'[file].last = files[file].last
             /\ \A f \in Files \ {file} : files'[f] = files[f]
<1> DEFINE f == Head(frames)
           e == Edited(f.rec)
<1>1. f \in Frame /\ f.kind = "edit" /\ 1 \in DOMAIN frames /\ f = frames[1]
  BY TopFrame DEF TypeOK, Edits
<1>2. f.rec \in Row
  BY <1>1, FrameFields
<1>3. e \in Row /\ e.id = f.rec.id /\ e.qso = f.rec.qso
  BY <1>2 DEF Edited, Row
<1>4. \E h \in db : h.id = e.id /\ h.qso = e.qso
  BY <1>1, <1>3 DEF EditsAreCurrent
<1>5. files' = [files EXCEPT ![file].rows = Written(@, e)]
  BY DEF Edits
<1> HIDE DEF e
<1>6. /\ files'[file].rows = Written(files[file].rows, e)
      /\ files'[file].last = files[file].last
      /\ \A g \in Files \ {file} : files'[g] = files[g]
  BY <1>3, <1>5, Rewritten
<1>7. QED
  BY <1>1, <1>3, <1>4, <1>6 DEF e

LEMMA IdsAfterEdit ==
  ASSUME TypeOK, FiniteLog, IdsInUse, EditsAreCurrent, Edits
  PROVE  IdsInUse'
<1> DEFINE e == Edited(Head(frames).rec)
           R == files[file].rows
<1>1. PICK h \in db : h.id = e.id /\ h.qso = e.qso
  BY EditedRow
<1>2. /\ files'[file].rows = Written(R, e) /\ files'[file].last = files[file].last
      /\ \A f \in Files \ {file} : files'[f] = files[f]
  BY EditedRow
<1>3. PICK o \in R : o.id = e.id
  BY EditedRow DEF Edits
<1>4. born' = born /\ path \in Files /\ file \in Files
  BY DEF Edits, TypeOK
<1> HIDE DEF e
<1>5. \A f \in Files : \A q \in files'[f].rows :
        \/ f = file /\ q = e
        \/ q \in files[f].rows /\ (f = file => q.id # e.id)
  BY <1>2 DEF Written
<1>6. e.id \in 1 .. files[file].last /\ e.qso <= born
  BY <1>1, <1>3, <1>4 DEF IdsInUse, db
<1>7. \A f \in Files : \A q \in files'[f].rows : q.id \in 1 .. files'[f].last /\ q.qso <= born'
  BY <1>2, <1>4, <1>5, <1>6 DEF IdsInUse
<1>8. \A f \in Files : \A p, q \in files'[f].rows : p.id = q.id => p = q
  BY <1>5 DEF IdsInUse
<1>9. \A g \in Files : \A q \in files[g].rows : q.qso = e.qso => q.id = e.id
  BY <1>1, <1>4 DEF IdsInUse, db
<1>10. \A f, g \in Files : \A p \in files'[f].rows, q \in files'[g].rows :
         p.qso = q.qso => p.id = q.id
  BY <1>5, <1>9 DEF IdsInUse
<1>11. QED
  BY <1>7, <1>8, <1>10 DEF IdsInUse

LEMMA FilesStep ==
  ASSUME TypeOK, FiniteLog, IdsInUse, EditsAreCurrent, [Next]_vars
  PROVE  IdsInUse'
<1>1. CASE UNCHANGED <<files, born>>
  BY <1>1 DEF IdsInUse
<1>2. CASE Logs
  <2>1. PICK r, s \in Row :
          /\ r.qso = born + 1
          /\ \/ active /\ r.id = NextId /\ Insert(r)
             \/ files' = files
    BY <1>2 DEF Logs
  <2>2. born' = born + 1
    BY <1>2 DEF Logs
  <2>3. CASE r.id = NextId /\ Insert(r)
    BY <2>1, <2>2, <2>3, IdsAfterInsert
  <2>4. CASE files' = files
    <3>1. born \in Nat /\ \A f \in Files : \A q \in files[f].rows : q.qso \in Nat
      BY StoreFields, RowFields DEF TypeOK
    <3>2. QED
      BY <2>2, <2>4, <3>1 DEF IdsInUse
  <2>5. QED
    BY <2>1, <2>3, <2>4
<1>3. CASE Edits
  BY <1>3, IdsAfterEdit
<1>4. CASE Removes
  <2>1. born' = born /\ (files' = files \/ files' = [files EXCEPT ![file].rows = {}])
    BY <1>4 DEF Removes
  <2>2. CASE files' = [files EXCEPT ![file].rows = {}]
    BY <2>1, <2>2, Emptied, IdsAfterRemoval
  <2>3. QED
    BY <1>1, <2>1, <2>2
<1>5. QED
  BY <1>1, <1>2, <1>3, <1>4, StepShapes
     DEF Kept, Closes, Starts, Notices, Advances, Opens, Loses

\* What is in the home file stays there under its id, whatever it is edited to
Carried == \A r \in db : \E s \in db' : s.id = r.id /\ s.qso = r.qso

LEMMA EditedHome ==
  ASSUME TypeOK, FiniteLog, IdsInUse, EditsAreCurrent, Edits
  PROVE  /\ Carried
         /\ \A s \in db' : \E r \in db : s.id = r.id /\ s.qso = r.qso
         /\ \E r \in db : r.qso = Head(frames).rec.qso
<1> DEFINE e == Edited(Head(frames).rec)
<1>1. PICK h \in db : h.id = e.id /\ h.qso = e.qso
  BY EditedRow
<1>2. /\ files'[file].rows = Written(files[file].rows, e)
      /\ \A f \in Files \ {file} : files'[f] = files[f]
      /\ e.qso = Head(frames).rec.qso
  BY EditedRow
<1>3. path' = path /\ path \in Files
  BY DEF Edits, TypeOK
<1> HIDE DEF e
<1>4. CASE file # path
  <2>1. db' = db
    BY <1>2, <1>3, <1>4 DEF db
  <2>2. QED
    BY <1>1, <1>2, <2>1 DEF Carried
<1>5. CASE file = path
  <2>1. db' = Written(db, e)
    BY <1>2, <1>3, <1>5 DEF db
  <2>2. \A r \in db : r.id = e.id => r.qso = e.qso
    BY <1>1, <1>3 DEF IdsInUse, db
  <2>3. \A s \in db' : \E r \in db : s.id = r.id /\ s.qso = r.qso
    BY <2>1, <2>2 DEF Written
  <2>4. ASSUME NEW r \in db PROVE \E s \in db' : s.id = r.id /\ s.qso = r.qso
    <3>1. (IF r.id = e.id THEN e ELSE r) \in db'
      BY <2>1 DEF Written
    <3>2. QED
      BY <2>2, <3>1
  <2>5. QED
    BY <1>1, <1>2, <2>3, <2>4 DEF Carried
<1>6. QED
  BY <1>4, <1>5

\* A new contact is stored in the home file, which is open while a contest is
LEMMA InsertedHome ==
  ASSUME TypeOK, FiniteLog, active, ShownIdsAreStored, path' = path,
         NEW r \in Row, Insert(r)
  PROVE  db' = db \cup {r}
<1>1. file = path
  BY DEF ShownIdsAreStored
<1>2. QED
  BY <1>1, Inserted DEF db

LEMMA HomeCarried ==
  ASSUME TypeOK, FiniteLog, IdsInUse, EditsAreCurrent, ShownIdsAreStored,
         Kept \/ Logs \/ Edits \/ Loses
  PROVE  Carried
<1>1. CASE db' = db
  BY <1>1 DEF Carried
<1>2. CASE Kept \/ Loses
  BY <1>1, <1>2 DEF Kept, Loses, db
<1>3. CASE Logs
  <2>1. PICK r \in Row : (active /\ Insert(r)) \/ files' = files
    BY <1>3 DEF Logs
  <2>2. path' = path
    BY <1>3 DEF Logs
  <2>3. db' = db \cup {r} \/ db' = db
    BY <2>1, <2>2, InsertedHome DEF db
  <2>4. QED
    BY <2>3 DEF Carried
<1>4. CASE Edits
  BY <1>4, EditedHome
<1>5. QED
  BY <1>2, <1>3, <1>4

LEMMA EditsCurrentStep ==
  ASSUME TypeOK, FiniteLog, CommandsLast, IdsInUse, EditsAreCurrent, ShownIdsAreStored,
         [Next]_vars
  PROVE  EditsAreCurrent'
<1>1. ASSUME NoNewEdit, Carried PROVE EditsAreCurrent'
  <2> SUFFICES ASSUME NEW i \in DOMAIN frames', frames'[i].kind = "edit"
               PROVE  \E r \in db' : r.id = frames'[i].rec.id /\ r.qso = frames'[i].rec.qso
    BY DEF EditsAreCurrent
  <2>1. PICK j \in DOMAIN frames : frames'[i] = frames[j]
    BY <1>1 DEF NoNewEdit
  <2>2. PICK r \in db : r.id = frames[j].rec.id /\ r.qso = frames[j].rec.qso
    BY <2>1 DEF EditsAreCurrent
  <2>3. PICK s \in db' : s.id = r.id /\ s.qso = r.qso
    BY <1>1 DEF Carried
  <2>4. QED
    BY <2>1, <2>2, <2>3
<1>2. CASE DOMAIN frames' = {}
  BY <1>2 DEF EditsAreCurrent
<1>3. CASE \/ Kept /\ UNCHANGED frames
           \/ Logs \/ Closes \/ Notices \/ Advances \/ Loses \/ Edits
  <2>1. NoNewEdit
    BY <1>3, ShapeNoEdit
  <2>2. Carried
    BY <1>3, HomeCarried DEF Closes, Notices, Advances
  <2>3. QED
    BY <1>1, <2>1, <2>2
<1>4. CASE Starts
  <2>1. PICK f \in Frame :
          /\ Push(f)
          /\ f.kind = "edit" => f.row \in DOMAIN mem /\ f.rec = mem[f.row] /\ f.rec.id # NoId
    BY <1>4 DEF Starts
  <2>2. DOMAIN frames = {} /\ db' = db
    BY <1>4 DEF Starts, Kept, Idle, db
  <2>3. \A i \in DOMAIN frames' : frames'[i] = f
    BY <2>1, <2>2, PushStack DEF TypeOK
  <2>4. f.kind = "edit" => \E r \in db : r.id = f.rec.id /\ r.qso = f.rec.qso
    BY <2>1 DEF ShownIdsAreStored
  <2>5. QED
    BY <2>2, <2>3, <2>4 DEF EditsAreCurrent
<1>5. CASE Opens
  <2>1. CASE frames' = <<>>
    BY <1>2, <2>1
  <2>2. CASE Top("choose") /\ Pop
    BY <1>2, <2>2, CommandAlone DEF Commands
  <2>3. CASE Activate(path) /\ Top("mismatch") /\ Pop
    <3>1. files' = files /\ path' = path
      BY <1>5, <2>3 DEF Opens, Activate
    <3>2. NoNewEdit /\ Carried
      BY <2>3, <3>1, PopNoEdit DEF Carried, db
    <3>3. QED
      BY <1>1, <3>2
  <2>4. QED
    BY <1>5, <2>1, <2>2, <2>3 DEF Opens
<1>6. CASE Removes
  BY <1>2, <1>6, CommandAlone DEF Removes, Commands, Clears
<1>7. QED
  BY <1>3, <1>4, <1>5, <1>6, StepShapes

LEMMA ShownStep ==
  ASSUME TypeOK, FiniteLog, IdsInUse, EditsAreCurrent, ShownIdsAreStored, [Next]_vars
  PROVE  ShownIdsAreStored'
<1>1. ASSUME NoNewShown, Carried, ~active' \/ UNCHANGED <<active, file, path>>
      PROVE  ShownIdsAreStored'
  <2>1. ASSUME NEW i \in DOMAIN mem', mem'[i].id # NoId
        PROVE  \E s \in db' : s.id = mem'[i].id /\ s.qso = mem'[i].qso
    <3>1. PICK j \in DOMAIN mem : mem'[i].id = mem[j].id /\ mem'[i].qso = mem[j].qso
      BY <1>1, <2>1 DEF NoNewShown
    <3>2. PICK r \in db : r.id = mem[j].id /\ r.qso = mem[j].qso
      BY <2>1, <3>1 DEF ShownIdsAreStored
    <3>3. QED
      BY <1>1, <3>1, <3>2 DEF Carried
  <2>2. active' => file' = path'
    BY <1>1 DEF ShownIdsAreStored
  <2>3. QED
    BY <2>1, <2>2 DEF ShownIdsAreStored
<1>2. ASSUME mem' = mem \/ mem' = <<>> PROVE NoNewShown
  BY <1>2 DEF NoNewShown
<1>3. CASE Kept \/ Loses
  <2>1. Carried
    BY <1>3, HomeCarried
  <2>2. QED
    BY <1>1, <1>2, <1>3, <2>1 DEF Kept, Loses
<1>4. CASE Logs
  <2>1. PICK r, s \in Row :
          /\ r.qso = born + 1 /\ s.qso = born + 1
          /\ mem' = Append(mem, s)
          /\ \/ active /\ s.id \in {r.id, NoId} /\ Insert(r)
             \/ s.id = NoId /\ files' = files
    BY <1>4 DEF Logs
  <2>2. UNCHANGED <<file, path, active>>
    BY <1>4 DEF Logs
  <2>3. \A i \in DOMAIN mem' : mem'[i] = s \/ (i \in DOMAIN mem /\ mem'[i] = mem[i])
    BY <2>1, Appended
  <2>4. CASE s.id = NoId
    <3>1. NoNewShown
      BY <2>3, <2>4 DEF NoNewShown
    <3>2. Carried
      BY <1>4, HomeCarried
    <3>3. QED
      BY <1>1, <2>2, <3>1, <3>2
  <2>5. CASE active /\ s.id = r.id /\ Insert(r)
    <3>1. db' = db \cup {r}
      BY <2>2, <2>5, InsertedHome
    <3>2. \A i \in DOMAIN mem' : mem'[i].id # NoId =>
            \E q \in db' : q.id = mem'[i].id /\ q.qso = mem'[i].qso
      BY <2>1, <2>3, <2>5, <3>1 DEF ShownIdsAreStored
    <3>3. active' => file' = path'
      BY <2>2 DEF ShownIdsAreStored
    <3>4. QED
      BY <3>2, <3>3 DEF ShownIdsAreStored
  <2>6. QED
    BY <2>1, <2>4, <2>5
<1>5. CASE Opens
  <2>1. PICK f \in Files : Activate(f)
    BY <1>5 DEF Opens, TypeOK
  <2>2. /\ files' = files /\ mem' \in Loaded(files[f].rows)
        /\ file' = f /\ path' = f
    BY <1>5, <2>1 DEF Opens, Activate
  <2>3. files[f].rows \in SUBSET Row /\ IsFiniteSet(files[f].rows)
    BY StoreFields DEF FiniteLog
  <2>4. \A i \in DOMAIN mem' : mem'[i] \in db'
    BY <2>2, <2>3, LoadedIsTable DEF db
  <2>5. QED
    BY <2>2, <2>4 DEF ShownIdsAreStored
<1>6. CASE Edits
  <2> DEFINE f == Head(frames)
             e == Edited(f.rec)
  <2>1. e.id = f.rec.id /\ e.qso = f.rec.qso /\ \E h \in db : h.id = e.id /\ h.qso = e.qso
    BY <1>6, EditedRow
  <2>2. /\ mem' = [i \in DOMAIN mem |-> IF i = f.row THEN e ELSE mem[i]]
        /\ UNCHANGED <<file, path, active>>
    BY <1>6 DEF Edits
  <2>3. Carried
    BY <1>6, EditedHome
  <2> HIDE DEF e, f
  <2>4. ASSUME NEW i \in DOMAIN mem', mem'[i].id # NoId
        PROVE  \E s \in db' : s.id = mem'[i].id /\ s.qso = mem'[i].qso
    <3>1. PICK r \in db : r.id = mem'[i].id /\ r.qso = mem'[i].qso
      BY <2>1, <2>2, <2>4 DEF ShownIdsAreStored
    <3>2. QED
      BY <2>3, <3>1 DEF Carried
  <2>5. QED
    BY <2>2, <2>4 DEF ShownIdsAreStored
<1>7. CASE Removes
  <2>1. DOMAIN mem' = {} /\ UNCHANGED <<file, path, active>>
    BY <1>7 DEF Removes
  <2>2. QED
    BY <2>1 DEF ShownIdsAreStored
<1>8. QED
  BY <1>3, <1>4, <1>5, <1>6, <1>7, StepShapes DEF Closes, Starts, Notices, Advances

-----------------------------------------------------------------------------
(* A command begun without a contest stays without one                      *)

WithoutContest(f) ==
  \/ f.kind = "edit" /\ f.contest = 0
  \/ f.kind \in Clears /\ ~f.valid

ContestStaysAway ==
  \A i \in DOMAIN frames : WithoutContest(frames[i]) =>
    ~active /\ \A j \in DOMAIN frames : frames[j].kind # "mismatch"

LEMMA AwayStep ==
  ASSUME TypeOK, ActiveIsWhole, CommandsLast, ContestStaysAway, [Next]_vars
  PROVE  ContestStaysAway'
<1>a. frames \in Seq(Frame)
  BY DEF TypeOK
<1>1. ASSUME active' => active,
             \A i \in DOMAIN frames' : \E j \in DOMAIN frames : frames'[i] = frames[j]
      PROVE  ContestStaysAway'
  BY <1>1 DEF ContestStaysAway, WithoutContest
<1>2. ASSUME NEW f, active' => active, f.kind # "mismatch", ~WithoutContest(f),
             \A i \in DOMAIN frames' :
               frames'[i] = f \/ \E j \in DOMAIN frames : frames'[i] = frames[j]
      PROVE  ContestStaysAway'
  BY <1>2 DEF ContestStaysAway, WithoutContest
<1>3. CASE Kept /\ UNCHANGED frames
  BY <1>1, <1>3 DEF Kept
<1>4. CASE Logs
  <2>1. active' = active
    BY <1>4 DEF Logs
  <2>2. CASE UNCHANGED frames
    BY <1>1, <2>1, <2>2
  <2>3. ASSUME NEW f \in Frame, f.kind = "saveIssue", Push(f) PROVE ContestStaysAway'
    BY <1>2, <1>a, <2>1, <2>3, PushStack DEF WithoutContest, Clears
  <2>4. QED
    BY <1>4, <2>2, <2>3 DEF Logs
<1>5. CASE Closes \/ Edits \/ Removes
  <2>1. active' = active /\ \E k : Top(k) /\ Pop
    BY <1>5 DEF Closes, Kept, Edits, Removes
  <2>2. QED
    BY <1>1, <1>a, <2>1, PopStack
<1>6. CASE Starts
  <2>1. PICK f \in Frame : /\ Push(f)
                           /\ \/ f.kind = "edit" /\ f.contest = contest
                              \/ f.kind = "askBackup" /\ f.valid = active
                              \/ f.kind = "choose"
    BY <1>6 DEF Starts
  <2>2. Idle /\ active' = active /\ DOMAIN frames = {}
    BY <1>6 DEF Starts, Kept, Idle
  <2>3. \A i \in DOMAIN frames' : frames'[i] = f
    BY <1>a, <2>1, <2>2, PushStack
  <2>4. WithoutContest(f) => ~active
    BY <2>1 DEF WithoutContest, Clears, ActiveIsWhole
  <2>5. f.kind # "mismatch"
    BY <2>1
  <2>6. QED
    BY <2>2, <2>3, <2>4, <2>5 DEF ContestStaysAway, WithoutContest
<1>7. CASE Notices
  <2>1. PICK f \in Frame : f.kind = "mismatch" /\ Push(f)
    BY <1>7 DEF Notices
  <2>2. ~WithoutContest(f) /\ \A j \in DOMAIN frames : ~WithoutContest(frames[j])
    BY <1>7, <2>1 DEF Notices, ContestStaysAway, WithoutContest, Clears
  <2>3. \A i \in DOMAIN frames' : ~WithoutContest(frames'[i])
    BY <1>a, <2>1, <2>2, PushStack
  <2>4. QED
    BY <2>3 DEF ContestStaysAway, WithoutContest
<1>8. CASE Advances
  <2>1. PICK k \in Clears, f \in Frame :
          /\ Top(k) /\ Replace(f)
          /\ \/ f.kind = "error"
             \/ /\ f.kind \in {"backupFailed", "confirmClear"}
                /\ f.valid = Head(frames).valid
    BY <1>8 DEF Advances
  <2>2. active' = active
    BY <1>8 DEF Advances, Kept
  <2>3. /\ Head(frames).kind = k /\ 1 \in DOMAIN frames /\ Head(frames) = frames[1]
        /\ \A i \in DOMAIN frames' :
             frames'[i] = f \/ \E j \in DOMAIN frames : frames'[i] = frames[j]
    BY <1>a, <2>1, TopFrame, ReplaceStack
  <2>4. CASE WithoutContest(f)
    <3>1. WithoutContest(frames[1])
      BY <2>1, <2>3, <2>4 DEF WithoutContest, Clears
    <3>2. ~active /\ \A j \in DOMAIN frames : frames[j].kind # "mismatch"
      BY <2>3, <3>1 DEF ContestStaysAway
    <3>3. f.kind # "mismatch"
      BY <2>1
    <3>4. QED
      BY <2>2, <2>3, <3>2, <3>3 DEF ContestStaysAway, WithoutContest
  <2>5. CASE ~WithoutContest(f)
    BY <1>2, <2>1, <2>2, <2>3, <2>5
  <2>6. QED
    BY <2>4, <2>5
<1>9. CASE Opens
  <2>1. CASE DOMAIN frames' = {}
    BY <2>1 DEF ContestStaysAway
  <2>2. CASE Top("mismatch") /\ Pop
    <3>1. \A j \in DOMAIN frames : ~WithoutContest(frames[j])
      BY <1>a, <2>2, TopFrame DEF ContestStaysAway
    <3>2. \A i \in DOMAIN frames' : ~WithoutContest(frames'[i])
      BY <1>a, <2>2, <3>1, PopStack
    <3>3. QED
      BY <3>2 DEF ContestStaysAway, WithoutContest
  <2>3. CASE Top("choose") /\ Pop
    BY <2>1, <2>3, CommandAlone DEF Commands
  <2>4. QED
    BY <1>9, <2>1, <2>2, <2>3 DEF Opens
<1>10. CASE Loses
  <2>1. active' = FALSE
    BY <1>10 DEF Loses
  <2>2. CASE frames' = <<>>
    BY <2>2 DEF ContestStaysAway
  <2>3. ASSUME NEW f \in Frame, f.kind = "error", NEW k, Top(k), Replace(f)
        PROVE  ContestStaysAway'
    <3>1. ~WithoutContest(f) /\ f.kind # "mismatch"
      BY <2>3 DEF WithoutContest, Clears
    <3>2. \A i \in DOMAIN frames' :
            frames'[i] = f \/ \E j \in DOMAIN frames : frames'[i] = frames[j]
      BY <1>a, <2>3, ReplaceStack
    <3>3. QED
      BY <1>2, <2>1, <3>1, <3>2
  <2>4. QED
    BY <1>10, <2>2, <2>3 DEF Loses
<1>11. QED
  BY <1>3, <1>4, <1>5, <1>6, <1>7, <1>8, <1>9, <1>10, StepShapes

-----------------------------------------------------------------------------
(* The contacts in the file and on the screen                               *)

\* Contacts are numbered as they are made
OldContacts == \A i \in DOMAIN mem : mem[i].qso <= born

Accounted ==
  \A i \in DOMAIN mem : mem[i].qso \in refused \/ \E r \in db : r.qso = mem[i].qso

\* No file holds a contact twice
ContactsOnce(rows) == \A r, s \in rows : r.qso = s.qso => r = s

LEMMA StoredOnce ==
  ASSUME IdsInUse, NEW f \in Files
  PROVE  /\ ContactsOnce(files[f].rows)
         /\ \A r \in files[f].rows : r.qso <= born
  BY DEF IdsInUse, ContactsOnce

\* A reload shows every stored row, and each once
LEMMA LoadedIsWhole ==
  ASSUME NEW R \in SUBSET Row, IsFiniteSet(R), ContactsOnce(R), mem' \in Loaded(R)
  PROVE  /\ \A i \in DOMAIN mem' : mem'[i] \in R
         /\ \A r \in R : \E i \in DOMAIN mem' : mem'[i] = r
         /\ \A i, j \in DOMAIN mem' : mem'[i].qso = mem'[j].qso => i = j
<1> DEFINE n == Cardinality(R)
<1>1. n \in Nat
  BY FS_CardinalityType
<1>2. mem' \in [1 .. n -> R] /\ \A i, j \in 1 .. n : i < j => Before(mem'[i], mem'[j])
  BY DEF Loaded, Ordered
<1>3. \A r \in R : r.t \in Nat /\ r.id \in Nat
  BY DEF Row
<1> HIDE DEF n
<1>4. \A i, j \in 1 .. n : mem'[i] = mem'[j] => i = j
  <2> SUFFICES ASSUME NEW i \in 1 .. n, NEW j \in 1 .. n, i < j
               PROVE  mem'[i] # mem'[j]
    BY <1>1
  <2>1. Before(mem'[i], mem'[j]) /\ mem'[i] \in R
    BY <1>2
  <2>2. QED
    BY <1>3, <2>1 DEF Before
<1>5. mem' \in Injection(1 .. n, R)
  BY <1>2, <1>4 DEF Injection, IsInjective
<1>6. Cardinality(1 .. n) = n
  BY <1>1, FS_Interval
<1>7. mem' \in Surjection(1 .. n, R)
  BY <1>5, <1>6, FS_Injection DEF n
<1>8. QED
  BY <1>2, <1>4, <1>7 DEF Surjection, ContactsOnce

\* What opening a contest shows: every contact of its file, and each once
LEMMA OpenedTable ==
  ASSUME TypeOK, FiniteLog, IdsInUse, Opens
  PROVE  /\ \A i \in DOMAIN mem' : mem'[i] \in db' /\ mem'[i].qso <= born
         /\ \A r \in db' : \E i \in DOMAIN mem' : mem'[i] = r
         /\ \A i, j \in DOMAIN mem' : mem'[i].qso = mem'[j].qso => i = j
<1>1. PICK f \in Files : Activate(f)
  BY DEF Opens, TypeOK
<1>2. files' = files /\ mem' \in Loaded(files[f].rows) /\ path' = f
  BY <1>1 DEF Opens, Activate
<1> DEFINE R == files[f].rows
<1>3. /\ R \in SUBSET Row /\ IsFiniteSet(R) /\ ContactsOnce(R)
      /\ \A r \in R : r.qso <= born
  BY StoreFields, StoredOnce DEF FiniteLog
<1>4. db' = R
  BY <1>2 DEF db
<1> HIDE DEF R
<1>5. /\ \A i \in DOMAIN mem' : mem'[i] \in R
      /\ \A r \in R : \E i \in DOMAIN mem' : mem'[i] = r
      /\ \A i, j \in DOMAIN mem' : mem'[i].qso = mem'[j].qso => i = j
  BY <1>2, <1>3, LoadedIsWhole DEF R
<1>6. QED
  BY <1>3, <1>4, <1>5

LEMMA ContactsStep ==
  ASSUME TypeOK, FiniteLog, IdsInUse, EditsAreCurrent, ShownIdsAreStored,
         OldContacts, Accounted, [Next]_vars
  PROVE  OldContacts' /\ Accounted'
<1>a. /\ born \in Nat /\ mem \in Seq(Row)
      /\ \A r \in Row : r.qso \in Nat
  BY RowFields DEF TypeOK
<1>1. CASE UNCHANGED <<db, mem, born, refused>>
  BY <1>1 DEF OldContacts, Accounted
<1>2. CASE Logs
  <2>1. PICK r, s \in Row :
          /\ r.qso = born + 1 /\ s.qso = born + 1
          /\ mem' = Append(mem, s)
          /\ \/ active /\ Insert(r) /\ refused' = refused
             \/ files' = files /\ refused' = refused \cup {born + 1}
    BY <1>2 DEF Logs
  <2>2. born' = born + 1 /\ path' = path
    BY <1>2 DEF Logs
  <2>3. \A i \in DOMAIN mem' : mem'[i] = s \/ (i \in DOMAIN mem /\ mem'[i] = mem[i])
    BY <2>1, Appended
  <2>4. OldContacts'
    BY <1>a, <2>1, <2>2, <2>3 DEF OldContacts
  <2>5. Accounted'
    <3>1. CASE active /\ Insert(r) /\ refused' = refused
      <4>1. db' = db \cup {r} /\ r.qso = s.qso
        BY <2>1, <2>2, <3>1, InsertedHome
      <4>2. QED
        BY <2>3, <3>1, <4>1 DEF Accounted
    <3>2. CASE files' = files /\ refused' = refused \cup {born + 1}
      BY <2>1, <2>2, <2>3, <3>2 DEF Accounted, db
    <3>3. QED
      BY <2>1, <3>1, <3>2
  <2>6. QED
    BY <2>4, <2>5
<1>3. CASE Kept
  BY <1>1, <1>3 DEF Kept, db
<1>4. CASE Opens
  <2>1. UNCHANGED <<born, refused>>
    BY <1>4 DEF Opens
  <2>2. QED
    BY <1>4, <2>1, OpenedTable DEF OldContacts, Accounted
<1>5. CASE Loses \/ Removes
  <2>1. UNCHANGED <<born, refused>> /\ (UNCHANGED <<db, mem>> \/ mem' = <<>>)
    BY <1>5 DEF Loses, Removes, db
  <2>2. QED
    BY <2>1 DEF OldContacts, Accounted
<1>6. CASE Edits
  <2> DEFINE f == Head(frames)
  <2>1. Carried /\ \E r \in db : r.qso = f.rec.qso
    BY <1>6, EditedHome
  <2>2. /\ UNCHANGED <<born, refused>>
        /\ mem' = [i \in DOMAIN mem |-> IF i = f.row THEN Edited(f.rec) ELSE mem[i]]
        /\ Edited(f.rec).qso = f.rec.qso
    BY <1>6 DEF Edits, Edited
  <2>3. path \in Files
    BY DEF TypeOK
  <2> HIDE DEF f
  <2>4. \A i \in DOMAIN mem' :
          \/ mem'[i].qso = f.rec.qso
          \/ i \in DOMAIN mem /\ mem'[i].qso = mem[i].qso
    BY <2>2
  <2>5. f.rec.qso <= born
    BY <2>1, <2>3, StoredOnce DEF db
  <2>6. OldContacts'
    BY <2>2, <2>4, <2>5 DEF OldContacts
  <2>7. \A r \in db : \E s \in db' : s.qso = r.qso
    BY <2>1 DEF Carried
  <2>8. Accounted'
    BY <2>1, <2>2, <2>4, <2>7 DEF Accounted
  <2>9. QED
    BY <2>6, <2>8
<1>7. QED
  BY <1>2, <1>3, <1>4, <1>5, <1>6, StepShapes DEF Closes, Starts, Notices, Advances

-----------------------------------------------------------------------------
(* An edit dialog that did not outlive its contest knows its row            *)

EditsInPlace ==
  /\ contest <= loads
  /\ \A i \in DOMAIN frames : frames[i].kind = "edit" =>
       /\ frames[i].contest <= loads
       /\ active /\ frames[i].contest = contest =>
            /\ frames[i].row \in DOMAIN mem
            /\ mem[frames[i].row].qso = frames[i].rec.qso

LEMMA EditsStep ==
  ASSUME TypeOK, ActiveIsWhole, CommandsLast, EditsInPlace, [Next]_vars
  PROVE  EditsInPlace'
<1>a. /\ frames \in Seq(Frame) /\ mem \in Seq(Row) /\ contest \in Nat /\ loads \in Nat
      /\ \A i \in DOMAIN frames : frames[i] \in Frame
  BY LenProperties, ElementOfSeq DEF TypeOK
<1>b. \A i \in DOMAIN frames : frames[i].kind = "edit" => frames[i].contest \in Nat
  BY <1>a, FrameFields
\* No edit is opened, and the contest with its table stays or is left
<1>1. ASSUME NoNewEdit, contest' <= loads', loads <= loads', loads' \in Nat,
             \/ /\ contest' = contest /\ active' = active
                /\ \A i \in DOMAIN mem : i \in DOMAIN mem' /\ mem'[i].qso = mem[i].qso
             \/ ~active'
             \/ contest' = loads + 1
      PROVE  EditsInPlace'
  <2>1. \A i \in DOMAIN frames' : frames'[i].kind = "edit" =>
          \E j \in DOMAIN frames : frames'[i] = frames[j]
    BY <1>1 DEF NoNewEdit
  <2>2. \A j \in DOMAIN frames : frames[j].kind = "edit" =>
          /\ frames[j].contest <= loads /\ frames[j].contest <= loads'
          /\ frames[j].contest # loads + 1
    BY <1>1, <1>a, <1>b DEF EditsInPlace
  <2>3. CASE ~active' \/ contest' = loads + 1
    BY <1>1, <2>1, <2>2, <2>3 DEF EditsInPlace
  <2>4. CASE /\ contest' = contest /\ active' = active
             /\ \A i \in DOMAIN mem : i \in DOMAIN mem' /\ mem'[i].qso = mem[i].qso
    BY <1>1, <2>1, <2>2, <2>4 DEF EditsInPlace
  <2>5. QED
    BY <1>1, <2>3, <2>4
<1>2. ASSUME Kept, NoNewEdit PROVE EditsInPlace'
  BY <1>1, <1>2, <1>a DEF Kept, EditsInPlace
<1>3. CASE \/ Kept /\ UNCHANGED frames
           \/ Closes \/ Notices \/ Advances
  BY <1>2, <1>3, ShapeNoEdit DEF Closes, Notices, Advances
<1>4. CASE Logs
  <2>1. UNCHANGED <<active, contest, loads>> /\ \E s \in Row : mem' = Append(mem, s)
    BY <1>4 DEF Logs
  <2>2. \A i \in DOMAIN mem : i \in DOMAIN mem' /\ mem'[i].qso = mem[i].qso
    BY <1>a, <2>1, AppendProperties, LenProperties
  <2>3. QED
    BY <1>1, <1>4, <1>a, <2>1, <2>2, ShapeNoEdit DEF EditsInPlace
<1>6. CASE Starts
  <2>1. PICK f \in Frame :
          /\ Push(f)
          /\ \/ /\ f.kind = "edit" /\ f.contest = contest
                /\ f.row \in DOMAIN mem /\ f.rec = mem[f.row]
             \/ f.kind \in {"askBackup", "choose"}
    BY <1>6 DEF Starts
  <2>2. DOMAIN frames = {} /\ Kept
    BY <1>6 DEF Starts, Idle
  <2>3. \A i \in DOMAIN frames' : frames'[i] = f
    BY <1>a, <2>1, <2>2, PushStack
  <2>4. f.kind = "edit" => /\ f.contest = contest /\ f.row \in DOMAIN mem
                           /\ f.rec = mem[f.row]
    BY <2>1
  <2>5. QED
    BY <2>2, <2>3, <2>4 DEF EditsInPlace, Kept
<1>9. CASE Opens
  <2>1. contest' = loads + 1 /\ loads' = loads + 1
    BY <1>9 DEF Opens, Activate
  <2>2. QED
    BY <1>1, <1>9, <1>a, <2>1, ShapeNoEdit
<1>10. CASE Loses
  <2>1. active' = FALSE /\ contest' = 0 /\ loads' \in {loads, loads + 1}
    BY <1>10 DEF Loses
  <2>2. QED
    BY <1>1, <1>10, <1>a, <2>1, ShapeNoEdit
\* The frame of an accepted edit, and of a clearing, was the only command
<1>11. CASE Edits \/ Removes
  <2>1. DOMAIN frames' = {}
    BY <1>11, CommandAlone DEF Edits, Removes, Commands, Clears
  <2>2. UNCHANGED <<contest, loads>>
    BY <1>11 DEF Edits, Removes
  <2>3. QED
    BY <2>1, <2>2 DEF EditsInPlace
<1>12. QED
  BY <1>3, <1>4, <1>6, <1>9, <1>10, <1>11, StepShapes

-----------------------------------------------------------------------------
(* The table is whole                                                       *)

ShownOnce == \A i, j \in DOMAIN mem : mem[i].qso = mem[j].qso => i = j

TableWhole ==
  NoStaleEdit /\ active =>
    /\ \A r \in db : \E i \in DOMAIN mem : mem[i].qso = r.qso
    /\ ShownOnce

LEMMA TableStep ==
  ASSUME TypeOK, FiniteLog, ActiveIsWhole, IdsInUse, EditsAreCurrent, ShownIdsAreStored,
         OldContacts, ContestStaysAway, EditsInPlace,
         TableWhole, [Next]_vars
  PROVE  TableWhole'
<1>a. /\ mem \in Seq(Row) /\ frames \in Seq(Frame) /\ born \in Nat
      /\ \A r \in Row : r.qso \in Nat
  BY RowFields DEF TypeOK
<1>1. ASSUME UNCHANGED <<db, mem, active>>, misuse \subseteq misuse' PROVE TableWhole'
  BY <1>1 DEF TableWhole, NoStaleEdit, ShownOnce
<1>2. CASE Logs
  <2>1. PICK r, s \in Row :
          /\ r.qso = born + 1 /\ s.qso = born + 1
          /\ mem' = Append(mem, s)
          /\ (active /\ Insert(r)) \/ files' = files
    BY <1>2 DEF Logs
  <2>2. active' = active /\ path' = path /\ misuse \subseteq misuse'
    BY <1>2 DEF Logs
  <2>3. /\ DOMAIN mem' = 1 .. Len(mem) + 1 /\ Len(mem) \in Nat /\ DOMAIN mem = 1 .. Len(mem)
        /\ mem'[Len(mem) + 1] = s
        /\ \A i \in DOMAIN mem : i \in DOMAIN mem' /\ mem'[i] = mem[i]
    BY <1>a, <2>1, AppendProperties, LenProperties
  <2>4. \A i \in DOMAIN mem' : i = Len(mem) + 1 \/ i \in DOMAIN mem
    BY <2>3
  <2>5. \A i \in DOMAIN mem : mem[i].qso # born + 1
    <3>1. \A i \in DOMAIN mem : mem[i].qso \in Nat /\ mem[i].qso <= born
      BY <1>a, LenProperties, ElementOfSeq DEF OldContacts
    <3>2. QED
      BY <1>a, <3>1
  <2>6. SUFFICES ASSUME NoStaleEdit', active'
                 PROVE  /\ \A q \in db' : \E i \in DOMAIN mem' : mem'[i].qso = q.qso
                        /\ ShownOnce'
    BY DEF TableWhole
  <2>7. /\ \A q \in db : \E i \in DOMAIN mem : mem[i].qso = q.qso
        /\ ShownOnce
    BY <2>2, <2>6 DEF TableWhole, NoStaleEdit
  <2>8. ShownOnce'
    BY <2>1, <2>3, <2>4, <2>5, <2>7 DEF ShownOnce
  <2>9. \A q \in db' : \E i \in DOMAIN mem' : mem'[i].qso = q.qso
    <3>1. Len(mem) + 1 \in DOMAIN mem' /\ mem'[Len(mem) + 1].qso = r.qso
      BY <2>1, <2>3
    <3>2. db' = db \cup {r} \/ db' = db
      BY <2>1, <2>2, InsertedHome DEF db
    <3>3. QED
      BY <2>3, <2>7, <3>1, <3>2
  <2>10. QED
    BY <2>8, <2>9
<1>3. CASE Kept
  BY <1>1, <1>3 DEF Kept, db
<1>4. CASE Opens
  BY <1>4, OpenedTable DEF TableWhole, ShownOnce
<1>5. CASE Loses
  BY <1>5 DEF Loses, TableWhole
<1>6. CASE Removes
  <2>1. /\ active' = active /\ path' = path /\ mem' = <<>> /\ Top("confirmClear")
        /\ Head(frames).valid => files' = [files EXCEPT ![file].rows = {}]
    BY <1>6 DEF Removes
  <2>2. active => db' = {}
    <3>1. 1 \in DOMAIN frames /\ frames[1].kind = "confirmClear" /\ Head(frames) = frames[1]
      BY <1>a, <2>1, TopFrame
    <3>2. active => Head(frames).valid /\ file = path
      BY <3>1 DEF ContestStaysAway, WithoutContest, Clears, ShownIdsAreStored
    <3>3. QED
      BY <2>1, <3>2, Emptied DEF db
  <2>3. DOMAIN mem' = {}
    BY <2>1
  <2>4. QED
    BY <2>1, <2>2, <2>3 DEF TableWhole, ShownOnce
<1>7. CASE Edits
  <2> DEFINE f == Head(frames)
  <2>1. /\ f.kind = "edit" /\ 1 \in DOMAIN frames /\ f = frames[1]
        /\ \A s \in db' : \E r \in db : r.qso = s.qso
    BY <1>7, EditedRow, EditedHome
  <2>2. /\ UNCHANGED <<active, contest>> /\ misuse \subseteq misuse'
        /\ f.contest \notin {0, contest} => "edit" \in misuse'
        /\ mem' = [i \in DOMAIN mem |-> IF i = f.row THEN Edited(f.rec) ELSE mem[i]]
        /\ Edited(f.rec).qso = f.rec.qso
    BY <1>7 DEF Edits, Edited
  <2>3. SUFFICES ASSUME NoStaleEdit', active'
                 PROVE  /\ \A s \in db' : \E i \in DOMAIN mem' : mem'[i].qso = s.qso
                        /\ ShownOnce'
    BY DEF TableWhole
  <2>4. f.contest = contest
    <3>1. f.contest # 0
      BY <2>1, <2>2, <2>3 DEF ContestStaysAway, WithoutContest
    <3>2. QED
      BY <2>2, <2>3, <3>1 DEF NoStaleEdit
  <2>5. mem[f.row].qso = f.rec.qso
    BY <2>1, <2>2, <2>3, <2>4 DEF EditsInPlace
  <2> HIDE DEF f
  <2>6. DOMAIN mem' = DOMAIN mem /\ \A i \in DOMAIN mem : mem'[i].qso = mem[i].qso
    BY <2>2, <2>5
  <2>7. /\ \A r \in db : \E i \in DOMAIN mem : mem[i].qso = r.qso
        /\ ShownOnce
    BY <2>2, <2>3 DEF TableWhole, NoStaleEdit
  <2>8. QED
    BY <2>1, <2>6, <2>7 DEF ShownOnce
<1>8. QED
  BY <1>2, <1>3, <1>4, <1>5, <1>6, <1>7, StepShapes DEF Closes, Starts, Notices, Advances

-----------------------------------------------------------------------------
(* The backup between the questions of a clearing                           *)

BackupsHold ==
  \A i \in DOMAIN frames : frames[i].kind \in Clears =>
    /\ frames[i].asked <= born
    /\ frames[i].valid => file = path
    /\ frames[i].kind = "confirmClear" /\ frames[i].valid /\ frames[i].backup.taken =>
         \A r \in db : r.qso <= frames[i].asked => r.qso \in frames[i].backup.qsos

LEMMA BackupStep ==
  ASSUME TypeOK, FiniteLog, CommandsLast, IdsInUse, EditsAreCurrent, ShownIdsAreStored,
         Accounted, BackupsHold, BackupCoversOlder, [Next]_vars
  PROVE  BackupsHold' /\ BackupCoversOlder'
<1>a. /\ frames \in Seq(Frame) /\ born \in Nat
      /\ \A i \in DOMAIN frames : frames[i] \in Frame
  BY LenProperties, ElementOfSeq DEF TypeOK
<1>b. \A i \in DOMAIN frames : frames[i].kind \in Clears => frames[i].asked \in Nat
  BY <1>a, FrameFields DEF Clears
\* No question was asked, and what is stored now was, or is new
<1>1. ASSUME \A i \in DOMAIN frames' :
               \/ frames'[i].kind \notin Clears
               \/ \E j \in DOMAIN frames : frames'[i] = frames[j],
             path' = path, file' = file \/ file' = path,
             \/ born' = born /\ db' = db
             \/ /\ born' = born + 1
                /\ \A s \in db' : s \in db \/ s.qso = born + 1
      PROVE  BackupsHold'
  <2>1. SUFFICES ASSUME NEW j \in DOMAIN frames, frames[j].kind \in Clears
                 PROVE  /\ frames[j].asked <= born'
                        /\ frames[j].valid => file' = path'
                        /\ frames[j].kind = "confirmClear" /\ frames[j].valid
                             /\ frames[j].backup.taken =>
                             \A s \in db' : s.qso <= frames[j].asked =>
                                              s.qso \in frames[j].backup.qsos
    BY <1>1 DEF BackupsHold
  <2>2. /\ frames[j].asked \in Nat /\ frames[j].asked <= born
        /\ frames[j].valid => file' = path'
        /\ frames[j].kind = "confirmClear" /\ frames[j].valid /\ frames[j].backup.taken =>
             \A r \in db : r.qso <= frames[j].asked => r.qso \in frames[j].backup.qsos
    BY <1>1, <1>b, <2>1 DEF BackupsHold
  <2>3. CASE born' = born /\ db' = db
    BY <2>2, <2>3
  <2>4. CASE /\ born' = born + 1
             /\ \A s \in db' : s \in db \/ s.qso = born + 1
    <3>1. ~(born + 1 <= frames[j].asked)
      BY <1>a, <2>2
    <3>2. QED
      BY <1>a, <2>2, <2>4, <3>1
  <2>5. QED
    BY <1>1, <2>3, <2>4
<1>2. ASSUME UNCHANGED lastClear, refused \subseteq refused' PROVE BackupCoversOlder'
  BY <1>2 DEF BackupCoversOlder
<1>3. ASSUME Kept,
             \A i \in DOMAIN frames' :
               \/ frames'[i].kind \notin Clears
               \/ \E j \in DOMAIN frames : frames'[i] = frames[j]
      PROVE  BackupsHold' /\ BackupCoversOlder'
  BY <1>1, <1>2, <1>3 DEF Kept, db
<1>4. CASE Kept /\ UNCHANGED frames
  BY <1>3, <1>4
<1>5. CASE Logs
  <2>1. PICK r \in Row : r.qso = born + 1 /\ ((active /\ Insert(r)) \/ files' = files)
    BY <1>5 DEF Logs
  <2>2. /\ born' = born + 1 /\ UNCHANGED <<file, path, lastClear>>
        /\ refused \subseteq refused'
    BY <1>5 DEF Logs
  <2>a. db' = db \cup {r} \/ db' = db
    BY <2>1, <2>2, InsertedHome DEF db
  <2>3. \A i \in DOMAIN frames' :
          \/ frames'[i].kind \notin Clears
          \/ \E j \in DOMAIN frames : frames'[i] = frames[j]
    <3>1. CASE UNCHANGED frames
      BY <3>1
    <3>2. ASSUME NEW f \in Frame, f.kind = "saveIssue", Push(f)
          PROVE  \A i \in DOMAIN frames' :
                   \/ frames'[i].kind \notin Clears
                   \/ \E j \in DOMAIN frames : frames'[i] = frames[j]
      <4>1. f.kind \notin Clears
        BY <3>2 DEF Clears
      <4>2. QED
        BY <1>a, <3>2, <4>1, PushStack
    <3>3. QED
      BY <1>5, <3>1, <3>2 DEF Logs
  <2>4. QED
    BY <1>1, <1>2, <2>1, <2>2, <2>3, <2>a
<1>6. CASE Closes
  BY <1>3, <1>6, <1>a, PopStack DEF Closes
<1>7. CASE Starts
  <2>1. PICK f \in Frame : /\ Push(f)
                           /\ \/ f.kind \in {"edit", "choose"}
                              \/ f.kind = "askBackup" /\ f.asked = born /\ f.valid = active
    BY <1>7 DEF Starts
  <2>2. DOMAIN frames = {} /\ Kept
    BY <1>7 DEF Starts, Idle
  <2>3. \A i \in DOMAIN frames' : frames'[i] = f
    BY <1>a, <2>1, <2>2, PushStack
  <2>4. BackupsHold'
    BY <1>a, <2>1, <2>2, <2>3 DEF BackupsHold, Kept, Clears, ShownIdsAreStored
  <2>5. QED
    BY <1>2, <2>2, <2>4 DEF Kept
<1>8. CASE Notices
  <2>1. PICK f \in Frame : f.kind = "mismatch" /\ Push(f)
    BY <1>8 DEF Notices
  <2>2. f.kind \notin Clears
    BY <2>1 DEF Clears
  <2>3. QED
    BY <1>3, <1>8, <1>a, <2>1, <2>2, PushStack DEF Notices
<1>9. CASE Advances
  <2>1. PICK k \in Clears, f \in Frame :
          /\ Top(k) /\ Replace(f)
          /\ \/ f.kind = "error"
             \/ /\ f.kind \in {"backupFailed", "confirmClear"}
                /\ f.asked = Head(frames).asked /\ f.valid = Head(frames).valid
                /\ f.kind = "confirmClear" =>
                     ~f.backup.taken \/ f.backup.qsos = Qsos(files[file].rows)
    BY <1>9 DEF Advances
  <2>2. Kept
    BY <1>9 DEF Advances
  <2>3. Head(frames).kind = k /\ 1 \in DOMAIN frames /\ Head(frames) = frames[1]
    BY <1>a, <2>1, TopFrame
  <2>4. \A i \in DOMAIN frames' :
          frames'[i] = f \/ \E j \in DOMAIN frames : frames'[i] = frames[j]
    BY <1>a, <2>1, ReplaceStack
  <2>5. CASE f.kind = "error"
    <3>1. f.kind \notin Clears
      BY <2>5 DEF Clears
    <3>2. QED
      BY <1>3, <2>2, <2>4, <3>1
  <2>6. CASE f.kind # "error"
    <3>1. f.asked <= born /\ (f.valid => file = path)
      BY <2>1, <2>3, <2>6 DEF BackupsHold
    <3>2. f.kind = "confirmClear" /\ f.valid /\ f.backup.taken =>
            \A r \in db : r.qso \in f.backup.qsos
      BY <2>1, <2>6, <3>1 DEF Qsos, db
    <3>3. db' = db /\ born' = born /\ file' = file /\ path' = path
      BY <2>2 DEF Kept, db
    <3>4. BackupsHold'
      BY <2>4, <3>1, <3>2, <3>3 DEF BackupsHold
    <3>5. QED
      BY <1>2, <2>2, <3>4 DEF Kept
  <2>7. QED
    BY <2>5, <2>6
<1>10. CASE Opens
  <2>1. UNCHANGED <<files, born, refused, lastClear>>
    BY <1>10 DEF Opens
  <2>2. BackupCoversOlder'
    BY <1>2, <2>1
  <2>3. CASE frames' = <<>>
    BY <2>2, <2>3 DEF BackupsHold
  <2>4. CASE Top("choose") /\ Pop
    BY <2>2, <2>4, CommandAlone DEF BackupsHold, Commands
  <2>5. CASE Activate(path) /\ Top("mismatch") /\ Pop
    <3>1. path' = path /\ file' = path /\ db' = db
      BY <2>1, <2>5 DEF Activate, db
    <3>2. \A i \in DOMAIN frames' : \E j \in DOMAIN frames : frames'[i] = frames[j]
      BY <1>a, <2>5, PopStack
    <3>3. QED
      BY <1>1, <2>1, <2>2, <3>1, <3>2
  <2>6. QED
    BY <1>10, <2>3, <2>4, <2>5 DEF Opens
<1>11. CASE Loses
  <2>1. UNCHANGED <<files, path, born, refused, lastClear>>
    BY <1>11 DEF Loses
  <2>2. BackupCoversOlder'
    BY <1>2, <2>1
  <2>3. CASE frames' = <<>>
    BY <2>2, <2>3 DEF BackupsHold
  <2>4. ASSUME NEW f \in Frame, f.kind = "error", Top("choose"), Replace(f)
        PROVE  BackupsHold'
    <3>1. \A i \in DOMAIN frames' : frames'[i] = f
      BY <2>4, CommandAlone DEF Commands
    <3>2. QED
      BY <2>4, <3>1 DEF BackupsHold, Clears
  <2>5. ASSUME NEW f \in Frame, f.kind = "error", Top("mismatch"), file' = path, Replace(f)
        PROVE  BackupsHold'
    <3>1. f.kind \notin Clears
      BY <2>5 DEF Clears
    <3>2. \A i \in DOMAIN frames' :
            frames'[i] = f \/ \E j \in DOMAIN frames : frames'[i] = frames[j]
      BY <1>a, <2>5, ReplaceStack
    <3>3. db' = db
      BY <2>1 DEF db
    <3>4. QED
      BY <1>1, <2>1, <2>5, <3>1, <3>2, <3>3
  <2>6. QED
    BY <1>11, <2>2, <2>3, <2>4, <2>5 DEF Loses
<1>12. CASE Edits
  <2>1. UNCHANGED <<refused, lastClear>> /\ DOMAIN frames' = {}
    BY <1>12, CommandAlone DEF Edits, Commands
  <2>2. QED
    BY <1>2, <2>1 DEF BackupsHold
<1>13. CASE Removes
  <2> DEFINE f == Head(frames)
  <2>1. /\ Top("confirmClear") /\ UNCHANGED refused /\ DOMAIN frames' = {}
        /\ lastClear' = [deleted |-> (IF f.valid THEN Qsos(files[file].rows) ELSE {})
                                       \cup (Qsos(MemRows) \ Qsos(db)),
                         asked |-> f.asked, backup |-> f.backup]
    BY <1>13, CommandAlone DEF Removes, Commands, Clears
  <2>2. f.kind = "confirmClear" /\ 1 \in DOMAIN frames /\ f = frames[1]
    BY <1>a, <2>1, TopFrame
  <2>3. f.valid =>
          /\ file = path
          /\ f.backup.taken => \A r \in db : r.qso <= f.asked => r.qso \in f.backup.qsos
    BY <2>2 DEF BackupsHold, Clears
  <2> HIDE DEF f
  <2>4. \A q \in Qsos(MemRows) : q \in Qsos(db) \/ q \in refused
    BY DEF Accounted, Qsos, MemRows
  <2>5. \A q \in lastClear'.deleted : (f.valid /\ q \in Qsos(db)) \/ q \in refused
    BY <2>1, <2>3, <2>4 DEF db
  <2>6. BackupCoversOlder'
    BY <2>1, <2>3, <2>5 DEF BackupCoversOlder, Qsos
  <2>7. QED
    BY <2>1, <2>6 DEF BackupsHold
<1>14. QED
  BY <1>4, <1>5, <1>6, <1>7, <1>8, <1>9, <1>10, <1>11, <1>12, <1>13, StepShapes

-----------------------------------------------------------------------------
(* Counting rows and contacts                                               *)

LEMMA CountByName ==
  ASSUME NEW S, NEW T, NEW f \in Surjection(S, T), IsFiniteSet(S),
         \A x, y \in S : f[x] = f[y] => x = y
  PROVE  IsFiniteSet(T) /\ Cardinality(T) = Cardinality(S)
<1>1. f \in [S -> T]
  BY DEF Surjection
<1>2. f \in Injection(S, T)
  BY <1>1 DEF Injection, IsInjective
<1>3. QED
  BY <1>2, FS_Surjection

\* A table that shows each contact once has as many rows as contacts
LEMMA TableCounts ==
  ASSUME TypeOK, ShownOnce
  PROVE  /\ IsFiniteSet(Qsos(MemRows))
         /\ Cardinality(MemRows) = Len(mem)
         /\ Cardinality(Qsos(MemRows)) = Len(mem)
<1> DEFINE n == Len(mem)
           g == [i \in 1 .. n |-> mem[i].qso]
<1>1. mem \in [1 .. n -> Row] /\ n \in Nat /\ DOMAIN mem = 1 .. n
  BY LenProperties DEF TypeOK
<1> HIDE DEF n, g
<1>2. IsFiniteSet(1 .. n) /\ Cardinality(1 .. n) = n
  <2>1. 1 \in Int /\ n \in Int /\ (n - 1) + 1 = n /\ (1 > n => n = 0)
    BY <1>1
  <2>2. QED
    BY <2>1, FS_Interval
<1> USE DEF g
<1>3. mem \in Surjection(1 .. n, MemRows)
  BY <1>1 DEF Surjection, MemRows
<1>4. \A i, j \in 1 .. n : mem[i] = mem[j] => i = j
  BY <1>1 DEF ShownOnce
<1>5. g \in Surjection(1 .. n, Qsos(MemRows))
  <2>1. \A i \in 1 .. n : g[i] \in Qsos(MemRows)
    BY <1>1 DEF Qsos, MemRows
  <2>2. \A q \in Qsos(MemRows) : \E i \in 1 .. n : g[i] = q
    BY <1>1 DEF Qsos, MemRows
  <2>3. QED
    BY <2>1, <2>2 DEF Surjection
<1>6. \A i, j \in 1 .. n : g[i] = g[j] => i = j
  BY <1>1 DEF ShownOnce
<1> HIDE DEF g
<1>7. QED
  BY <1>2, <1>3, <1>4, <1>5, <1>6, CountByName DEF n

LEMMA FileCounts ==
  ASSUME FiniteLog, IdsInUse, NEW g \in Files
  PROVE  /\ IsFiniteSet(Qsos(files[g].rows))
         /\ Cardinality(Qsos(files[g].rows)) = Cardinality(files[g].rows)
<1> DEFINE R == files[g].rows
           h == [r \in R |-> r.qso]
<1>1. ContactsOnce(R) /\ IsFiniteSet(R)
  BY StoredOnce DEF FiniteLog
<1> HIDE DEF R
<1>2. h \in Surjection(R, Qsos(R))
  BY DEF Surjection, Qsos
<1>3. \A r, s \in R : h[r] = h[s] => r = s
  BY <1>1 DEF ContactsOnce
<1> HIDE DEF h
<1>4. QED
  BY <1>1, <1>2, <1>3, CountByName DEF R

LEMMA TableIsShown ==
  ASSUME TypeOK, TableWhole
  PROVE  StoredAreShown
<1>1. SUFFICES ASSUME NoStaleEdit, active
               PROVE  /\ Qsos(db) \subseteq Qsos(MemRows)
                      /\ Cardinality(MemRows) = Cardinality(Qsos(MemRows))
                      /\ Len(mem) = Cardinality(MemRows)
  BY DEF StoredAreShown
<1>2. ShownOnce /\ \A r \in db : \E i \in DOMAIN mem : mem[i].qso = r.qso
  BY <1>1 DEF TableWhole
<1>3. Qsos(db) \subseteq Qsos(MemRows)
  BY <1>2 DEF Qsos, MemRows
<1>4. QED
  BY <1>2, <1>3, TableCounts

LEMMA CountsAreEnough ==
  ASSUME TypeOK, FiniteLog, IdsInUse, ShownIdsAreStored, TableWhole
  PROVE  CountsTellTheTruth
<1>1. SUFFICES ASSUME NoStaleEdit, active
               PROVE  ~CountsDiffer <=> Qsos(MemRows) = Qsos(files[file].rows)
  BY DEF CountsTellTheTruth
<1>2. file = path /\ path \in Files /\ files[file].rows = db
  BY <1>1 DEF ShownIdsAreStored, TypeOK, db
<1>3. ShownOnce /\ \A r \in db : \E i \in DOMAIN mem : mem[i].qso = r.qso
  BY <1>1 DEF TableWhole
<1>4. Qsos(db) \in SUBSET Qsos(MemRows)
  BY <1>3 DEF Qsos, MemRows
<1>5. /\ IsFiniteSet(Qsos(MemRows)) /\ Cardinality(Qsos(MemRows)) = Len(mem)
      /\ Cardinality(Qsos(db)) = Cardinality(db)
  BY <1>2, <1>3, TableCounts, FileCounts
<1>6. Len(mem) = Cardinality(db) <=> Qsos(MemRows) = Qsos(db)
  BY <1>4, <1>5, FS_Subset
<1>7. QED
  BY <1>2, <1>6 DEF CountsDiffer

-----------------------------------------------------------------------------
(* The theorems                                                             *)

LEMMA IInvInit ==
  ASSUME Init
  PROVE  IInv
<1>1. TypeOK
  <2>1. NoBackup \in Backup
    BY DEF NoBackup, Backup
  <2>2. lastClear \in [deleted : SUBSET Nat, asked : Nat, backup : Backup]
    BY <2>1 DEF Init
  <2>3. mem \in Seq(Row) /\ frames \in Seq(Frame)
    BY DEF Init
  <2>4. dbOpen \in BOOLEAN /\ active \in BOOLEAN
    BY Zenon DEF Init
  <2>5. files \in [Files -> Store]
    <3>1. [rows |-> {}, last |-> 0] \in Store
      BY DEF Store
    <3>2. QED
      BY <3>1 DEF Init
  <2>6. QED
    BY <2>2, <2>3, <2>4, <2>5 DEF Init, TypeOK
<1>2. FiniteLog /\ ActiveIsWhole
  BY FS_EmptySet DEF Init, FiniteLog, ActiveIsWhole
<1>3. SerialsBelow /\ SerialsAdvance
  BY DEF Init, SerialsBelow, SerialsAdvance
<1>4. IdsInUse /\ EditsAreCurrent /\ ShownIdsAreStored /\ CommandsLast
  BY DEF Init, IdsInUse, EditsAreCurrent, ShownIdsAreStored, CommandsLast
<1>5. QED
  BY <1>1, <1>2, <1>3, <1>4 DEF IInv

(* The inductive invariant of the session: no step of an operator, of the   *)
(* web API, of WSJT-X, of the integrity timer or of a restart breaks it.    *)
THEOREM SessionInvariance == Spec => []IInv
<1>1. Init => IInv
  BY IInvInit
<1>2. IInv /\ [Next]_vars => IInv'
  <2> SUFFICES ASSUME IInv, [Next]_vars
               PROVE  IInv'
    OBVIOUS
  <2>1. TypeOK' /\ FiniteLog'
    BY TypeStep DEF IInv
  <2>2. ActiveIsWhole' /\ SerialsBelow' /\ SerialsAdvance' /\ CommandsLast'
    BY <2>1, ActiveStep, SerialStep, CommandsStep DEF IInv
  <2>3. IdsInUse' /\ EditsAreCurrent' /\ ShownIdsAreStored'
    BY FilesStep, EditsCurrentStep, ShownStep DEF IInv
  <2>4. QED
    BY <2>1, <2>2, <2>3 DEF IInv
<1>3. QED
  BY <1>1, <1>2, PTL DEF Spec

(* Every variable keeps its type, in particular the frame that is on top    *)
(* of the dialogs always has the fields its answer reads.                   *)
THEOREM SessionTypes == Spec => []TypeOK
<1>1. IInv => TypeOK
  BY DEF IInv
<1>2. QED
  BY <1>1, SessionInvariance, PTL

(* A row on the screen that has an id names the contact the file of the     *)
(* contest shown holds under that id, across reloads, clears, refused       *)
(* saves, dialogs that were opened before them, openings of other contests  *)
(* that failed half-way and edits that went astray after them; and while a  *)
(* contest is active that file is the one updateQSO's WHERE id = ? goes to. *)
THEOREM EditsHitTheirContact == Spec => []ShownIdsAreStored
<1>1. IInv => ShownIdsAreStored
  BY DEF IInv
<1>2. QED
  BY <1>1, SessionInvariance, PTL

(* Between two activations of a contest no serial number is sent twice.     *)
THEOREM SerialsNotRepeated == Spec => []SerialsAdvance
<1>1. IInv => SerialsAdvance
  BY DEF IInv
<1>2. QED
  BY <1>1, SessionInvariance, PTL

(* While a contest is active, the services work for that contest.           *)
THEOREM ServicesMatchContest == Spec => []ActiveIsWhole
<1>1. IInv => ActiveIsWhole
  BY DEF IInv
<1>2. QED
  BY <1>1, SessionInvariance, PTL

\* What the table, the file and the backups say of each other
TableInv == /\ ContestStaysAway /\ EditsInPlace
            /\ OldContacts /\ Accounted
            /\ TableWhole
            /\ BackupsHold /\ BackupCoversOlder

LEMMA TableInvInit ==
  ASSUME Init
  PROVE  TableInv
<1>1. ContestStaysAway /\ EditsInPlace
  BY DEF Init, ContestStaysAway, EditsInPlace
<1>2. OldContacts /\ Accounted
  BY DEF Init, OldContacts, Accounted
<1>3. TableWhole
  BY DEF Init, TableWhole, ShownOnce, db
<1>4. BackupsHold /\ BackupCoversOlder
  <2>1. lastClear.backup.taken = FALSE
    BY DEF Init, NoBackup
  <2>2. QED
    BY <2>1 DEF Init, BackupsHold, BackupCoversOlder
<1>5. QED
  BY <1>1, <1>2, <1>3, <1>4 DEF TableInv

(* The inductive invariant of the log: what the stack of dialogs may hold,  *)
(* which contacts are in the file and on the screen, and what the dialogs   *)
(* of a clearing remember of them.                                          *)
THEOREM LogInvariance == Spec => []TableInv
<1>1. Init => TableInv
  BY TableInvInit
<1>2. IInv /\ TableInv /\ [Next]_vars => TableInv'
  <2> SUFFICES ASSUME IInv, TableInv, [Next]_vars
               PROVE  TableInv'
    OBVIOUS
  <2>1. /\ TypeOK /\ FiniteLog /\ ActiveIsWhole /\ CommandsLast
        /\ IdsInUse /\ EditsAreCurrent /\ ShownIdsAreStored
    BY DEF IInv
  <2>2. ContestStaysAway' /\ EditsInPlace'
    BY <2>1, AwayStep, EditsStep DEF TableInv
  <2>3. OldContacts' /\ Accounted'
    BY <2>1, ContactsStep DEF TableInv
  <2>4. TableWhole'
    BY <2>1, TableStep DEF TableInv
  <2>5. BackupsHold' /\ BackupCoversOlder'
    BY <2>1, BackupStep DEF TableInv
  <2>6. QED
    BY <2>2, <2>3, <2>4, <2>5 DEF TableInv
<1>3. QED
  BY <1>1, <1>2, SessionInvariance, PTL DEF Spec

(* While a contest is active every stored contact is on the screen, and     *)
(* once, unless an edit dialog outlived the contest it was opened in.       *)
THEOREM TableShowsTheLog == Spec => []StoredAreShown
<1>1. IInv /\ TableInv => StoredAreShown
  BY TableIsShown DEF IInv, TableInv
<1>2. QED
  BY <1>1, SessionInvariance, LogInvariance, PTL

(* Comparing two counts, as the integrity check does, finds every           *)
(* difference between the table and the file, and raises no false alarm.    *)
THEOREM CountingFindsDrift == Spec => []CountsTellTheTruth
<1>1. IInv /\ TableInv => CountsTellTheTruth
  BY CountsAreEnough DEF IInv, TableInv
<1>2. QED
  BY <1>1, SessionInvariance, LogInvariance, PTL

(* A contact that is on the screen and not in the file was refused by the   *)
(* database, so the operator was warned about it.                           *)
THEOREM LostWereRefused == Spec => []OnlyRefusedAreLost
<1>1. TableInv => OnlyRefusedAreLost
  BY DEF TableInv, Accounted, OnlyRefusedAreLost, Qsos
<1>2. QED
  BY <1>1, LogInvariance, PTL

(* A backup taken between the questions of a clearing holds every contact   *)
(* the clearing deletes that was stored when the first question was asked.  *)
THEOREM BackupsCoverClears == Spec => []BackupCoversOlder
<1>1. TableInv => BackupCoversOlder
  BY DEF TableInv
<1>2. QED
  BY <1>1, LogInvariance, PTL
=============================================================================
