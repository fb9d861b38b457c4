------------------------------- MODULE SaveTxn -------------------------------
(***************************************************************************)
(* One write of the log database, step by step: the caller's retries       *)
(* (QSOPersistenceService), the statements of QSORepository and the RAII   *)
(* transaction (DatabaseTransaction) on the single SQLite connection       *)
(* (Database).  Every statement may fail and the program may be killed     *)
(* between any two of them.  SQLite itself is external: an open            *)
(* transaction is a private copy of the table that COMMIT makes durable    *)
(* and that ROLLBACK, closing the connection or a crash throws away; a     *)
(* statement outside a transaction is durable at once.                     *)
(***************************************************************************)
EXTENDS Naturals

CONSTANTS QSOs,        \* contacts a caller may save
          Notes,       \* contents of the columns an edit may change
          MaxRetries   \* QSOPersistenceService::Config::maxRetries

ASSUME RetriesAssumption == MaxRetries \in Nat \ {0}

VARIABLES
  disk, diskSeq,   \* durable table and its AUTOINCREMENT counter
  work, workSeq,   \* the connection's view of both
  inTxn,           \* SQLite has a transaction open on the connection
  dbOpen,          \* Database::isOpen
  pc,              \* next statement of the running operation
  op,              \* the operation: kind and operands
  attempt,         \* attempts QSOPersistenceService::saveQSO has made
  newId,           \* Database::m_lastInsertId, copied to qso.id
  owed,            \* rows the callers were told are stored (history)
  given, refused   \* receipts and refusals handed out (history)

connection == <<work, workSeq, inTxn>>
durable == <<disk, diskSeq>>
answers == <<owed, given, refused>>
vars == <<disk, diskSeq, work, workSeq, inTxn, dbOpen, pc, op, attempt, newId,
          owed, given, refused>>

Row == [id : Nat \ {0}, qso : QSOs, note : Notes]
Receipt == [id : Nat \ {0}, qso : QSOs]
Op == [kind : {"save"}, qso : QSOs, note : Notes]
        \cup [kind : {"update"}, row : Row, note : Notes]
        \cup [kind : {"clear", "none"}]
NoOp == [kind |-> "none"]

TypeOK ==
  /\ disk \in SUBSET Row /\ work \in SUBSET Row /\ owed \in SUBSET Row
  /\ diskSeq \in Nat /\ workSeq \in Nat /\ newId \in Nat
  /\ inTxn \in BOOLEAN /\ dbOpen \in BOOLEAN
  /\ pc \in {"idle", "begin", "exec", "verify", "commit", "rollback"}
  /\ op \in Op
  /\ attempt \in 0 .. MaxRetries
  /\ given \in SUBSET Receipt
  /\ refused \in SUBSET QSOs

Init ==
  /\ disk = {} /\ diskSeq = 0 /\ work = {} /\ workSeq = 0
  /\ inTxn = FALSE /\ dbOpen = TRUE
  /\ pc = "idle" /\ op = NoOp /\ attempt = 0 /\ newId = 0
  /\ owed = {} /\ given = {} /\ refused = {}

-----------------------------------------------------------------------------
(* The callers.  A contact is handed to saveQSO once: its caller does not   *)
(* repeat a request that was answered.                                      *)

Unanswered(q) == q \notin refused /\ \A g \in given : g.qso # q

Submit(o) ==
  /\ pc = "idle"
  /\ op' = o /\ attempt' = 1 /\ pc' = "begin"
  /\ UNCHANGED <<durable, connection, dbOpen, newId, answers>>

SubmitSave == \E q \in QSOs, n \in Notes :
  Unanswered(q) /\ Submit([kind |-> "save", qso |-> q, note |-> n])

SubmitUpdate == \E r \in owed, n \in Notes :
  Submit([kind |-> "update", row |-> r, note |-> n])

SubmitClear == Submit([kind |-> "clear"])

-----------------------------------------------------------------------------
(* The end of an attempt that failed.  Only a save is tried again.          *)

Finish == pc' = "idle" /\ op' = NoOp /\ attempt' = 0

GiveUp ==
  IF op.kind = "save" /\ attempt < MaxRetries
    THEN /\ pc' = "begin" /\ attempt' = attempt + 1
         /\ UNCHANGED <<op, answers>>
    ELSE /\ Finish
         /\ refused' = IF op.kind = "save" THEN refused \cup {op.qso} ELSE refused
         /\ UNCHANGED <<owed, given>>

\* What the statements of the operation do to a table
Effect(table, id) ==
  IF op.kind = "save" THEN table \cup {[id |-> id, qso |-> op.qso, note |-> op.note]}
  ELSE IF op.kind = "update" THEN
    {r \in table : r.id # op.row.id}
      \cup {[id |-> r.id, qso |-> r.qso, note |-> op.note] :
                r \in {s \in table : s.id = op.row.id}}
  ELSE {}

\* Slip: the id column without AUTOINCREMENT
NextSeqRecycled ==
  IF op.kind = "save"
    THEN CHOOSE n \in 1 .. workSeq + 1 :
           (\A r \in work : r.id < n) /\ (n = 1 \/ \E r \in work : r.id = n - 1)
    ELSE workSeq

NextSeq == IF op.kind = "save" THEN workSeq + 1 ELSE workSeq

-----------------------------------------------------------------------------
(* The statements                                                           *)

Discard == work' = disk /\ workSeq' = diskSeq /\ inTxn' = FALSE

\* BEGIN: refused on a closed database and inside an open transaction
Begin ==
  /\ pc = "begin" /\ dbOpen /\ ~inTxn
  /\ inTxn' = TRUE /\ pc' = "exec"
  /\ UNCHANGED <<durable, work, workSeq, dbOpen, op, attempt, newId, answers>>

\* Slip: the result of begin() is not looked at
BeginFailsUnseen ==
  /\ pc = "begin"
  /\ pc' = "exec"
  /\ UNCHANGED <<durable, connection, dbOpen, op, attempt, newId, answers>>

\* BEGIN refused: the transaction object is not active, nothing to roll back
BeginFails ==
  /\ pc = "begin"
  /\ GiveUp
  /\ UNCHANGED <<durable, connection, dbOpen, newId>>

\* INSERT, UPDATE or the two DELETEs; outside a transaction SQLite would
\* make them durable at once
Exec ==
  /\ pc = "exec"
  /\ work' = Effect(work, NextSeq) /\ workSeq' = NextSeq
  /\ IF inTxn THEN UNCHANGED durable ELSE disk' = work' /\ diskSeq' = workSeq'
  /\ newId' = IF op.kind = "save" THEN NextSeq ELSE newId
  /\ pc' = IF op.kind = "clear" THEN "commit" ELSE "verify"
  /\ UNCHANGED <<inTxn, dbOpen, op, attempt, answers>>

\* The statement fails; on some errors SQLite also ends the transaction
ExecFails ==
  /\ pc = "exec"
  /\ pc' = "rollback"
  /\ Discard \/ UNCHANGED connection
  /\ UNCHANGED <<durable, dbOpen, op, attempt, newId, answers>>

\* findById on the written id finds the contact
Stored == \E r \in work :
  IF op.kind = "save" THEN r.id = newId /\ r.qso = op.qso
                      ELSE r.id = op.row.id

Verify ==
  /\ pc = "verify" /\ Stored
  /\ pc' = "commit"
  /\ UNCHANGED <<durable, connection, dbOpen, op, attempt, newId, answers>>

\* The read fails, or it does not find the contact
VerifyFails ==
  /\ pc = "verify"
  /\ pc' = "rollback"
  /\ UNCHANGED <<durable, connection, dbOpen, op, attempt, newId, answers>>

\* COMMIT; the caller is told in the same call
Commit ==
  /\ pc = "commit" /\ inTxn
  /\ disk' = work /\ diskSeq' = workSeq /\ inTxn' = FALSE
  /\ owed' = Effect(owed, newId)
  /\ given' = IF op.kind = "save"
                THEN given \cup {[id |-> newId, qso |-> op.qso]} ELSE given
  /\ Finish
  /\ UNCHANGED <<work, workSeq, dbOpen, newId, refused>>

CommitFails ==
  /\ pc = "commit"
  /\ pc' = "rollback"
  /\ UNCHANGED <<durable, connection, dbOpen, op, attempt, newId, answers>>

\* ROLLBACK by the destructor or by commit(); its result is ignored, so a
\* refused ROLLBACK leaves the transaction open for the next caller
Rollback ==
  /\ pc = "rollback"
  /\ Discard \/ UNCHANGED connection
  /\ GiveUp
  /\ UNCHANGED <<durable, dbOpen, newId>>

-----------------------------------------------------------------------------
(* The life of the connection                                               *)

\* Database::close between two operations; a leftover transaction is lost
Close ==
  /\ pc = "idle" /\ dbOpen
  /\ dbOpen' = FALSE /\ Discard
  /\ UNCHANGED <<durable, pc, op, attempt, newId, answers>>

Open ==
  /\ pc = "idle" /\ ~dbOpen
  /\ dbOpen' = TRUE
  /\ UNCHANGED <<durable, connection, pc, op, attempt, newId, answers>>

\* The program is killed and started again
Crash ==
  /\ Discard /\ Finish
  /\ dbOpen' = TRUE /\ newId' = 0
  /\ UNCHANGED <<durable, answers>>

Step == \/ Begin \/ BeginFails \/ Exec \/ ExecFails \/ Verify \/ VerifyFails
        \/ Commit \/ CommitFails \/ Rollback

Next == SubmitSave \/ SubmitUpdate \/ SubmitClear \/ Step \/ Close \/ Open \/ Crash

Spec == Init /\ [][Next]_vars

\* A statement that was started returns: saveQSO runs to its end
FairSpec == Spec /\ WF_vars(Step)

-----------------------------------------------------------------------------
(* A contact is stored exactly when its caller was told so: the durable     *)
(* table is what the answers of saveQSO, updateQSO and deleteAllQSOs add    *)
(* up to, whatever failed or was killed in between.                         *)
DiskIsWhatWasTold == disk = owed

(* No retry and no crash stores a contact twice, or two contacts under one  *)
(* id (the INSERT of saveQSO inside the transaction that is retried).       *)
StoredOnce ==
  \A r, s \in disk : (r.id = s.id \/ r.qso = s.qso) => r = s

(* An id once handed out never comes to mean another contact, not even      *)
(* after the log was cleared: an edit that kept an old id cannot hit a new  *)
(* contact (AUTOINCREMENT in schema.sql, updateQSO's WHERE id = ?).         *)
IdsMeanOneContact ==
  \A g, h \in given : (g.id = h.id \/ g.qso = h.qso) => g = h

(* A contact the operator was told could not be saved is not in the         *)
(* database, so logging it again cannot duplicate it.                       *)
RefusedLeavesNoTrace == \A r \in disk : r.qso \notin refused

(* Every operation is answered: the retry loop ends.                        *)
Answered == (pc # "idle") ~> (pc = "idle")

(* The transaction code implements the atomic store.                        *)
Store == INSTANCE LogStore WITH rows <- disk
StoreSpec == Store!Spec
=============================================================================
