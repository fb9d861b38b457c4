---------------------------- MODULE SaveTxnProofs ----------------------------
(***************************************************************************)
(* Proofs about SaveTxn for every set of contacts and notes and every      *)
(* number of retries.  The inductive invariant IInv says what a            *)
(* transaction in progress has done to the connection's view of the table. *)
(***************************************************************************)
EXTENDS SaveTxn, TLAPS

\* Outside a transaction the connection sees the durable table
NoTxnNoCopy == ~inTxn => work = disk /\ workSeq = diskSeq

\* An operation is running exactly when pc is not idle
Running ==
  /\ pc = "idle" <=> op.kind = "none"
  /\ pc # "idle" => attempt \in 1 .. MaxRetries

\* A transaction that has just begun has changed nothing yet
Begun == pc = "exec" => inTxn /\ work = disk /\ workSeq = diskSeq

\* After the statement the view is the durable table plus its effect
Executed ==
  pc \in {"verify", "commit"} =>
    /\ inTxn
    /\ work = Effect(disk, newId)
    /\ workSeq >= diskSeq
    /\ op.kind = "save" => newId = workSeq /\ newId > diskSeq

\* Ids are handed out below the durable AUTOINCREMENT counter
Counted == \A g \in given : g.id <= diskSeq

\* Every stored row has its receipt
Receipted == \A r \in disk : [id |-> r.id, qso |-> r.qso] \in given

\* The running operation is one its caller may ask for
Asked ==
  /\ op.kind = "save" => Unanswered(op.qso)
  /\ op.kind = "update" => op.row \in owed

UniqueIds == \A r, s \in disk : r.id = s.id => r = s

NeverBoth == \A g \in given : g.qso \notin refused

IInv == /\ TypeOK /\ DiskIsWhatWasTold
        /\ NoTxnNoCopy /\ Running /\ Begun /\ Executed
        /\ Counted /\ Receipted /\ Asked
        /\ UniqueIds /\ IdsMeanOneContact /\ NeverBoth

-----------------------------------------------------------------------------
(* What a statement does to a table, kind by kind.                          *)

LEMMA EffectSave ==
  ASSUME NEW T, NEW id, op.kind = "save"
  PROVE  Effect(T, id) = T \cup {[id |-> id, qso |-> op.qso, note |-> op.note]}
  BY DEF Effect

LEMMA EffectUpdate ==
  ASSUME NEW T, NEW id, op.kind = "update"
  PROVE  Effect(T, id) =
           {r \in T : r.id # op.row.id}
             \cup {[id |-> r.id, qso |-> r.qso, note |-> op.note] :
                       r \in {s \in T : s.id = op.row.id}}
  BY DEF Effect

LEMMA EffectClear ==
  ASSUME NEW T, NEW id, op.kind = "clear"
  PROVE  Effect(T, id) = {}
  BY DEF Effect

\* A statement keeps a table a table
LEMMA EffectType ==
  ASSUME op \in Op, op.kind # "none", NEW T \in SUBSET Row, NEW id \in Nat,
         op.kind = "save" => id # 0
  PROVE  Effect(T, id) \in SUBSET Row
<1>1. CASE op.kind = "save"
  BY <1>1, EffectSave DEF Op, Row
<1>2. CASE op.kind = "update"
  <2>1. op.note \in Notes
    BY <1>2 DEF Op
  <2>2. \A r \in T : [id |-> r.id, qso |-> r.qso, note |-> op.note] \in Row
    BY <2>1 DEF Row
  <2> QED BY <1>2, <2>2, EffectUpdate
<1>3. CASE op.kind = "clear"
  BY <1>3, EffectClear
<1> QED BY <1>1, <1>2, <1>3 DEF Op

-----------------------------------------------------------------------------
(* Type correctness.                                                        *)

LEMMA NoOpIsOp == NoOp \in Op /\ NoOp.kind = "none"
  BY DEF Op, NoOp

LEMMA SavedQso == op \in Op /\ op.kind = "save" => op.qso \in QSOs
  BY DEF Op

LEMMA TypeInit == Init => TypeOK
<1> SUFFICES ASSUME Init PROVE TypeOK
  OBVIOUS
<1>1. inTxn \in BOOLEAN /\ dbOpen \in BOOLEAN
  BY Zenon DEF Init
<1> QED BY <1>1, NoOpIsOp, RetriesAssumption DEF Init, TypeOK

LEMMA SubmitType ==
  ASSUME TypeOK, NEW o \in Op, Submit(o)
  PROVE  TypeOK'
  BY RetriesAssumption DEF TypeOK, Submit, durable, connection, answers

LEMMA GiveUpType ==
  ASSUME TypeOK, Running, pc # "idle", GiveUp
  PROVE  /\ pc' \in {"idle", "begin"} /\ op' \in Op /\ attempt' \in 0 .. MaxRetries
         /\ owed' \in SUBSET Row /\ given' \in SUBSET Receipt
         /\ refused' \in SUBSET QSOs
  BY SavedQso, NoOpIsOp, RetriesAssumption DEF TypeOK, GiveUp, Finish, answers

LEMMA DiscardType ==
  ASSUME TypeOK, Discard \/ UNCHANGED connection
  PROVE  work' \in SUBSET Row /\ workSeq' \in Nat /\ inTxn' \in BOOLEAN
  BY DEF TypeOK, Discard, connection

LEMMA TypeStep ==
  ASSUME TypeOK, Running, Executed, [Next]_vars
  PROVE  TypeOK'
<1>1. CASE SubmitSave
  BY <1>1, SubmitType DEF SubmitSave, Op
<1>2. CASE SubmitUpdate
  <2>1. PICK r \in owed, n \in Notes : Submit([kind |-> "update", row |-> r, note |-> n])
    BY <1>2 DEF SubmitUpdate
  <2>2. [kind |-> "update", row |-> r, note |-> n] \in Op
    BY DEF Op, TypeOK
  <2> QED BY <2>1, <2>2, SubmitType
<1>3. CASE SubmitClear
  BY <1>3, SubmitType DEF SubmitClear, Op
<1>4. CASE Begin
  BY <1>4 DEF Begin, TypeOK, durable, answers
<1>5. CASE BeginFails
  BY <1>5, GiveUpType DEF BeginFails, TypeOK, durable, connection
<1>6. CASE Exec
  <2>1. op.kind # "none"
    BY <1>6 DEF Exec, Running
  <2>2. NextSeq \in Nat /\ (op.kind = "save" => NextSeq # 0)
    BY DEF NextSeq, TypeOK
  <2>3. work' \in SUBSET Row /\ workSeq' \in Nat
    BY <1>6, <2>1, <2>2, EffectType DEF Exec, TypeOK
  <2> QED BY <1>6, <2>2, <2>3 DEF Exec, TypeOK, durable, answers
<1>7. CASE ExecFails
  BY <1>7, DiscardType DEF ExecFails, TypeOK, durable, answers
<1>8. CASE Verify \/ VerifyFails \/ CommitFails
  BY <1>8 DEF Verify, VerifyFails, CommitFails, TypeOK, durable, connection, answers
<1>9. CASE Commit
  <2>1. op.kind # "none" /\ (op.kind = "save" => newId # 0)
    BY <1>9 DEF Commit, Running, Executed, TypeOK
  <2>2. owed' \in SUBSET Row
    BY <1>9, <2>1, EffectType DEF Commit, TypeOK
  <2>3. given' \in SUBSET Receipt
    BY <1>9, <2>1, SavedQso DEF Commit, TypeOK, Receipt
  <2>4. inTxn' \in BOOLEAN
    BY <1>9, Zenon DEF Commit
  <2> QED BY <1>9, <2>2, <2>3, <2>4, NoOpIsOp, RetriesAssumption DEF Commit, Finish, TypeOK
<1>10. CASE Rollback
  BY <1>10, GiveUpType, DiscardType DEF Rollback, TypeOK, durable
<1>11. CASE Close \/ Open
  BY <1>11 DEF Close, Open, Discard, TypeOK, durable, connection, answers
<1>12. CASE Crash
  <2>1. inTxn' \in BOOLEAN /\ dbOpen' \in BOOLEAN
    BY <1>12, Zenon DEF Crash, Discard
  <2> QED BY <1>12, <2>1, NoOpIsOp, RetriesAssumption
          DEF Crash, Discard, Finish, TypeOK, durable, answers
<1>13. CASE UNCHANGED vars
  BY <1>13 DEF vars, TypeOK
<1> QED BY <1>1, <1>2, <1>3, <1>4, <1>5, <1>6, <1>7, <1>8, <1>9, <1>10, <1>11,
           <1>12, <1>13 DEF Next, Step

-----------------------------------------------------------------------------
(* The invariant is inductive.                                              *)

LEMMA IInvInit == Init => IInv
<1> SUFFICES ASSUME Init PROVE IInv
  OBVIOUS
<1>1. TypeOK
  BY TypeInit
<1>2. Running /\ Begun /\ Executed /\ Asked
  BY NoOpIsOp DEF Init, Running, Begun, Executed, Asked
<1> QED BY <1>1, <1>2 DEF Init, IInv, DiskIsWhatWasTold, NoTxnNoCopy, Counted, Receipted,
           UniqueIds, IdsMeanOneContact, NeverBoth

\* The parts of IInv that speak only of what is stored and what was answered
Stable == /\ DiskIsWhatWasTold /\ Counted /\ Receipted /\ UniqueIds
          /\ IdsMeanOneContact /\ NeverBoth

LEMMA StableStep ==
  ASSUME Stable, UNCHANGED durable, UNCHANGED <<owed, given, refused>>
  PROVE  Stable'
  BY DEF Stable, durable, DiskIsWhatWasTold, Counted, Receipted, UniqueIds,
         IdsMeanOneContact, NeverBoth

\* Asking for an operation
LEMMA SubmitStep ==
  ASSUME IInv, NEW o \in Op, o.kind # "none",
         o.kind = "save" => Unanswered(o.qso),
         o.kind = "update" => o.row \in owed,
         Submit(o)
  PROVE  /\ NoTxnNoCopy' /\ Running' /\ Begun' /\ Executed' /\ Asked'
         /\ Stable'
<1>1. Stable'
  BY StableStep DEF Submit, answers, IInv, Stable
<1>2. Asked'
  BY DEF Submit, Asked, Unanswered, answers
<1>3. NoTxnNoCopy' /\ Begun' /\ Executed'
  BY DEF Submit, IInv, NoTxnNoCopy, Begun, Executed, connection, durable
<1>4. Running'
  BY RetriesAssumption DEF Submit, Running
<1> QED BY <1>1, <1>2, <1>3, <1>4

\* A failed attempt, whatever became of the connection
LEMMA GiveUpStep ==
  ASSUME IInv, pc # "idle", GiveUp, UNCHANGED durable, UNCHANGED newId,
         Discard \/ UNCHANGED connection
  PROVE  /\ NoTxnNoCopy' /\ Running' /\ Begun' /\ Executed' /\ Asked'
         /\ Stable'
<1> USE DEF IInv
<1>1. pc' \in {"idle", "begin"} /\ owed' = owed /\ given' = given
  BY DEF GiveUp, Finish, answers
<1>2. NoTxnNoCopy' /\ Begun' /\ Executed'
  BY <1>1 DEF NoTxnNoCopy, Begun, Executed, Discard, connection, durable
<1>3. Running'
  BY NoOpIsOp, RetriesAssumption DEF GiveUp, Finish, Running, TypeOK
<1>4. Asked'
  BY <1>1, NoOpIsOp DEF GiveUp, Finish, Asked, Unanswered, answers
<1>5. NeverBoth'
  BY <1>1 DEF GiveUp, Finish, answers, NeverBoth, Asked, Unanswered
<1>6. Stable'
  BY <1>1, <1>5 DEF Stable, durable, DiskIsWhatWasTold, Counted, Receipted, UniqueIds,
         IdsMeanOneContact
<1> QED BY <1>2, <1>3, <1>4, <1>6

\* COMMIT makes the effect durable and tells the caller in the same step
LEMMA CommitStep ==
  ASSUME IInv, Commit
  PROVE  Stable'
<1> USE DEF IInv
<1> DEFINE q == op.qso
<1>1. work = Effect(disk, newId) /\ workSeq >= diskSeq
  BY DEF Commit, Executed
<1>2. disk' = Effect(disk, newId) /\ diskSeq' = workSeq
  BY <1>1 DEF Commit
<1>3. DiskIsWhatWasTold'
  BY <1>2 DEF Commit, DiskIsWhatWasTold
<1>4. CASE op.kind = "save"
  <2>1. newId = workSeq /\ newId > diskSeq /\ Unanswered(q)
    BY <1>4 DEF Commit, Executed, Asked
  <2>2. disk' = disk \cup {[id |-> newId, qso |-> q, note |-> op.note]}
    BY <1>2, <1>4, EffectSave
  <2>3. given' = given \cup {[id |-> newId, qso |-> q]}
    BY <1>4 DEF Commit
  <2>4. \A r \in disk : r.id # newId
    <3>1. \A r \in disk : r.id <= diskSeq /\ r.id \in Nat
      BY DEF Receipted, Counted, TypeOK, Row
    <3> QED BY <2>1, <3>1 DEF TypeOK
  <2>5. \A g \in given : g.id \in Nat /\ g.id # newId /\ g.qso # q
    BY <2>1 DEF Counted, TypeOK, Receipt, Unanswered
  <2>6. Counted'
    BY <1>2, <2>1, <2>3 DEF Counted, TypeOK, Receipt
  <2>7. Receipted'
    <3> SUFFICES ASSUME NEW r \in disk'
                 PROVE  [id |-> r.id, qso |-> r.qso] \in given'
      BY DEF Receipted
    <3>1. CASE r \in disk
      BY <2>3, <3>1 DEF Receipted
    <3>2. CASE r = [id |-> newId, qso |-> q, note |-> op.note]
      BY <2>3, <3>2
    <3> QED BY <2>2, <3>1, <3>2
  <2>8. UniqueIds'
    <3>1. UniqueIds
      OBVIOUS
    <3>2. \A r \in disk' : r \in disk \/ r = [id |-> newId, qso |-> q, note |-> op.note]
      BY <2>2
    <3>3. [id |-> newId, qso |-> q, note |-> op.note].id = newId
      OBVIOUS
    <3> HIDE DEF q, IInv
    <3> QED BY <2>4, <3>1, <3>2, <3>3 DEF UniqueIds
  <2>9. IdsMeanOneContact'
    BY <2>3, <2>5 DEF IdsMeanOneContact
  <2>10. NeverBoth'
    BY <2>1, <2>3 DEF NeverBoth, Unanswered, Commit
  <2> QED BY <1>3, <2>6, <2>7, <2>8, <2>9, <2>10 DEF Stable
<1>5. CASE op.kind # "save"
  <2>1. given' = given /\ refused' = refused
    BY <1>5 DEF Commit
  <2>2. \A r \in disk' : \E s \in disk : r.id = s.id /\ r.qso = s.qso
    BY <1>2, <1>5 DEF Effect
  <2>3. Counted'
    BY <1>1, <1>2, <2>1 DEF Counted, TypeOK, Receipt
  <2>4. Receipted'
    BY <2>1, <2>2 DEF Receipted
  <2>5. UniqueIds'
    <3>1. CASE op.kind = "update"
      <4>1. disk' = {r \in disk : r.id # op.row.id}
                      \cup {[id |-> r.id, qso |-> r.qso, note |-> op.note] :
                                r \in {s \in disk : s.id = op.row.id}}
        BY <1>2, <3>1, EffectUpdate
      <4> QED BY <4>1 DEF UniqueIds
    <3>2. CASE op.kind # "update"
      BY <1>2, <1>5, <3>2 DEF UniqueIds, Effect
    <3> QED BY <3>1, <3>2
  <2> QED BY <1>3, <2>1, <2>3, <2>4, <2>5 DEF Stable, IdsMeanOneContact, NeverBoth
<1> QED BY <1>4, <1>5

THEOREM IInvStep == IInv /\ [Next]_vars => IInv'
<1> SUFFICES ASSUME IInv, [Next]_vars PROVE IInv'
  OBVIOUS
<1>1. TypeOK'
  BY TypeStep DEF IInv
<1>2. SUFFICES /\ NoTxnNoCopy' /\ Running' /\ Begun' /\ Executed' /\ Asked'
               /\ Stable'
  BY <1>1 DEF IInv, Stable
<1>3. CASE SubmitSave
  <2>1. PICK q \in QSOs, n \in Notes :
          Unanswered(q) /\ Submit([kind |-> "save", qso |-> q, note |-> n])
    BY <1>3 DEF SubmitSave
  <2>2. [kind |-> "save", qso |-> q, note |-> n] \in Op
    BY DEF Op
  <2> QED BY <2>1, <2>2, SubmitStep
<1>4. CASE SubmitUpdate
  <2>1. PICK r \in owed, n \in Notes : Submit([kind |-> "update", row |-> r, note |-> n])
    BY <1>4 DEF SubmitUpdate
  <2>2. [kind |-> "update", row |-> r, note |-> n] \in Op
    BY DEF Op, IInv, TypeOK
  <2> QED BY <2>1, <2>2, SubmitStep
<1>5. CASE SubmitClear
  BY <1>5, SubmitStep DEF SubmitClear, Op
<1>6. CASE Begin \/ Verify \/ VerifyFails \/ CommitFails
  <2>1. Stable'
    BY <1>6, StableStep
    DEF Begin, Verify, VerifyFails, CommitFails, answers, IInv, Stable
  <2>2. op' = op /\ attempt' = attempt /\ UNCHANGED <<disk, diskSeq, owed, given, refused, work, workSeq, newId>>
    BY <1>6 DEF Begin, Verify, VerifyFails, CommitFails, answers, connection, durable
  <2>3. Asked' /\ Running'
    BY <1>6, <2>2 DEF Begin, Verify, VerifyFails, CommitFails, IInv, Asked, Unanswered, Running
  <2>4. NoTxnNoCopy' /\ Begun' /\ Executed'
    BY <1>6, <2>2 DEF Begin, Verify, VerifyFails, CommitFails, connection, IInv,
                      NoTxnNoCopy, Begun, Executed, Effect
  <2> QED BY <2>1, <2>3, <2>4
<1>7. CASE BeginFails
  BY <1>7, GiveUpStep DEF BeginFails
<1>8. CASE Exec
  <2>1. inTxn /\ work = disk /\ workSeq = diskSeq
    BY <1>8 DEF Exec, IInv, Begun
  <2>2. Stable' /\ op' = op /\ UNCHANGED <<disk, diskSeq, inTxn>>
    BY <1>8, <2>1, StableStep DEF Exec, durable, answers, IInv, Stable
  <2>3. Executed'
    <3>1. work' = Effect(disk, NextSeq) /\ workSeq' = NextSeq
      BY <1>8, <2>1 DEF Exec
    <3>2. newId' = IF op.kind = "save" THEN NextSeq ELSE newId
      BY <1>8 DEF Exec
    <3>3. work' = Effect(disk, newId)'
      BY <2>2, <3>1, <3>2 DEF Effect
    <3>4. workSeq' >= diskSeq /\ (op.kind = "save" => workSeq' > diskSeq)
      BY <2>1, <3>1 DEF NextSeq, IInv, TypeOK
    <3>5. inTxn'
      BY <2>1, <2>2
    <3> QED BY <2>2, <3>1, <3>2, <3>3, <3>4, <3>5 DEF Executed
  <2>4. NoTxnNoCopy' /\ Begun' /\ Running'
    BY <1>8, <2>1, <2>2 DEF Exec, IInv, NoTxnNoCopy, Begun, Running
  <2>5. Asked'
    BY <1>8, <2>2 DEF Exec, answers, IInv, Asked, Unanswered
  <2> QED BY <2>2, <2>3, <2>4, <2>5
<1>9. CASE ExecFails
  <2>1. Stable'
    BY <1>9, StableStep DEF ExecFails, answers, IInv, Stable
  <2>2. NoTxnNoCopy' /\ Begun' /\ Executed'
    BY <1>9 DEF ExecFails, Discard, connection, durable, IInv, NoTxnNoCopy, Begun, Executed
  <2>3. Running' /\ Asked'
    BY <1>9 DEF ExecFails, answers, IInv, Running, Asked, Unanswered
  <2> QED BY <2>1, <2>2, <2>3
<1>10. CASE Commit
  <2>1. NoTxnNoCopy' /\ Begun' /\ Executed'
    BY <1>10 DEF Commit, Finish, NoTxnNoCopy, Begun, Executed
  <2>2. Running' /\ Asked'
    BY <1>10, NoOpIsOp DEF Commit, Finish, Running, Asked
  <2> QED BY <1>10, <2>1, <2>2, CommitStep
<1>11. CASE Rollback
  BY <1>11, GiveUpStep DEF Rollback
<1>12. CASE Close \/ Open
  <2>1. Stable'
    BY <1>12, StableStep DEF Close, Open, answers, IInv, Stable
  <2>2. pc' = "idle" /\ op' = op
    BY <1>12 DEF Close, Open
  <2>3. NoTxnNoCopy' /\ Begun' /\ Executed' /\ Running' /\ Asked'
    BY <1>12, <2>2 DEF Close, Open, Discard, durable, connection, answers, IInv,
                       NoTxnNoCopy, Begun, Executed, Running, Asked, Unanswered
  <2> QED BY <2>1, <2>3
<1>13. CASE Crash
  <2>1. Stable'
    BY <1>13, StableStep DEF Crash, answers, IInv, Stable
  <2>2. NoTxnNoCopy' /\ Begun' /\ Executed' /\ Running' /\ Asked'
    BY <1>13, NoOpIsOp DEF Crash, Discard, Finish, durable, NoTxnNoCopy, Begun,
                           Executed, Running, Asked
  <2> QED BY <2>1, <2>2
<1>14. CASE UNCHANGED vars
  BY <1>14 DEF vars, IInv, Stable, DiskIsWhatWasTold, NoTxnNoCopy, Running, Begun,
     Executed, Effect, Counted, Receipted, Asked, Unanswered, UniqueIds,
     IdsMeanOneContact, NeverBoth
<1> QED BY <1>3, <1>4, <1>5, <1>6, <1>7, <1>8, <1>9, <1>10, <1>11, <1>12, <1>13,
           <1>14 DEF Next, Step

(* Every state of the transaction code satisfies the inductive invariant.   *)
THEOREM Invariance == Spec => []IInv
  BY IInvInit, IInvStep, PTL DEF Spec

(* The variables always hold values of their types.                         *)
THEOREM TypeCorrect == Spec => []TypeOK
  BY Invariance, PTL DEF IInv

(* Whatever statement fails and whenever the program is killed, the durable *)
(* table is what saveQSO, updateQSO and deleteAllQSOs reported.             *)
THEOREM DurableIsReported == Spec => []DiskIsWhatWasTold
  BY Invariance, PTL DEF IInv

(* An id names one contact for ever.                                        *)
THEOREM IdsStable == Spec => []IdsMeanOneContact
  BY Invariance, PTL DEF IInv

(* Retries never store a contact twice.                                     *)
THEOREM NoDoubleStore == Spec => []StoredOnce
<1>1. IInv => StoredOnce
  <2> SUFFICES ASSUME IInv, NEW r \in disk, NEW s \in disk, r.id = s.id \/ r.qso = s.qso
               PROVE  r = s
    BY DEF StoredOnce
  <2> DEFINE g == [id |-> r.id, qso |-> r.qso]
             h == [id |-> s.id, qso |-> s.qso]
  <2>1. g \in given /\ h \in given
    BY DEF IInv, Receipted
  <2>2. g.id = h.id \/ g.qso = h.qso
    OBVIOUS
  <2>3. g = h
    BY <2>1, <2>2 DEF IInv, IdsMeanOneContact
  <2>4. r.id = s.id
    BY <2>3
  <2> QED BY <2>4 DEF IInv, UniqueIds
<1> QED BY <1>1, Invariance, PTL

(* A refused contact is not stored.                                         *)
THEOREM RefusalIsFinal == Spec => []RefusedLeavesNoTrace
<1>1. IInv => RefusedLeavesNoTrace
  BY DEF IInv, Receipted, NeverBoth, RefusedLeavesNoTrace
<1> QED BY <1>1, Invariance, PTL

-----------------------------------------------------------------------------
(* SaveTxn implements LogStore: the step that commits is the atomic         *)
(* operation, the attempt that gives up is the refusal, every other step    *)
(* stutters.                                                                *)

LEMMA CommitImplements ==
  ASSUME IInv, IInv', Commit
  PROVE  [Store!Next]_Store!vars
<1> USE DEF IInv
<1>1. disk' = Effect(disk, newId) /\ refused' = refused
  BY DEF Commit, Executed
<1>2. CASE op.kind = "save"
  <2> DEFINE r == [id |-> newId, qso |-> op.qso, note |-> op.note]
  <2>1. disk' = disk \cup {r} /\ given' = given \cup {[id |-> r.id, qso |-> r.qso]}
    BY <1>1, <1>2, EffectSave DEF Commit
  <2>2. r \in disk' /\ r \in Row
    BY <2>1 DEF TypeOK
  <2>3. Store!Unknown(r.qso)
    BY <1>2 DEF Store!Unknown, Asked, Unanswered
  <2>4. Store!Fresh(r.id)
    BY <1>2 DEF Store!Fresh, Commit, Executed, Counted, TypeOK, Receipt
  <2>5. Store!Save(r)
    BY <1>1, <2>1, <2>2, <2>3, <2>4 DEF Store!Save, Store!Row, Row
  <2> QED BY <2>2, <2>5 DEF Store!Next
<1>3. CASE op.kind = "update"
  <2>1. op.row \in disk /\ op.note \in Notes
    BY <1>3 DEF Asked, DiskIsWhatWasTold, Op, TypeOK
  <2>2. op.row \in Row
    BY <2>1 DEF TypeOK
  <2> DEFINE r == op.row
             e == [id |-> r.id, qso |-> r.qso, note |-> op.note]
  <2>3. {s \in disk : s.id = r.id} = {r}
    BY <2>1 DEF UniqueIds
  <2>4. {s \in disk : s.id # r.id} = disk \ {r}
    BY <2>3
  <2>5. disk' = (disk \ {r}) \cup {e}
    BY <1>1, <1>3, <2>3, <2>4, EffectUpdate
  <2>6. e = [r EXCEPT !.note = op.note]
    BY <2>2 DEF Row
  <2>7. Store!Update(r, op.note)
    BY <1>1, <1>3, <2>1, <2>5, <2>6 DEF Store!Update, Commit
  <2> QED BY <2>1, <2>7 DEF Store!Next
<1>4. CASE op.kind = "clear"
  BY <1>1, <1>4, EffectClear DEF Store!Next, Store!Clear, Commit
<1> QED BY <1>2, <1>3, <1>4 DEF Commit, Running, Op, TypeOK

LEMMA GiveUpImplements ==
  ASSUME IInv, pc # "idle", GiveUp, UNCHANGED durable
  PROVE  [Store!Next]_Store!vars
<1>1. CASE op.kind = "save" /\ ~(attempt < MaxRetries)
  <2>1. Store!Refuse(op.qso)
    BY <1>1 DEF GiveUp, Finish, durable, Store!Refuse, Store!Unknown, IInv, Asked,
                Unanswered
  <2> QED BY <1>1, <2>1, SavedQso DEF Store!Next, IInv, TypeOK
<1>2. CASE ~(op.kind = "save" /\ ~(attempt < MaxRetries))
  BY <1>2 DEF GiveUp, Finish, durable, answers, Store!vars
<1> QED BY <1>1, <1>2

LEMMA StepImplements ==
  IInv /\ IInv' /\ [Next]_vars => [Store!Next]_Store!vars
<1> SUFFICES ASSUME IInv, IInv', [Next]_vars PROVE [Store!Next]_Store!vars
  OBVIOUS
<1>1. CASE Commit
  BY <1>1, CommitImplements
<1>2. CASE BeginFails \/ Rollback
  BY <1>2, GiveUpImplements DEF BeginFails, Rollback
<1>3. CASE Exec
  BY <1>3 DEF Exec, IInv, Begun, durable, answers, Store!vars
<1>4. CASE SubmitSave \/ SubmitUpdate \/ SubmitClear
  BY <1>4 DEF SubmitSave, SubmitUpdate, SubmitClear, Submit, durable, answers, Store!vars
<1>5. CASE Begin \/ ExecFails \/ Verify \/ VerifyFails \/ CommitFails
  BY <1>5 DEF Begin, ExecFails, Verify, VerifyFails, CommitFails, durable, answers,
              Store!vars
<1>6. CASE Close \/ Open \/ Crash
  BY <1>6 DEF Close, Open, Crash, durable, answers, Store!vars
<1>7. CASE UNCHANGED vars
  BY <1>7 DEF vars, Store!vars
<1> QED BY <1>1, <1>2, <1>3, <1>4, <1>5, <1>6, <1>7 DEF Next, Step

(* The transaction code implements the atomic store.                        *)
THEOREM Implements == Spec => StoreSpec
<1>1. Init => Store!Init
  BY DEF Init, Store!Init
<1> QED BY <1>1, Invariance, StepImplements, PTL DEF Spec, StoreSpec, Store!Spec
=============================================================================
