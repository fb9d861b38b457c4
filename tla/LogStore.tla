------------------------------ MODULE LogStore ------------------------------
(***************************************************************************)
(* What the storage layer of TR4QT promises its callers, with every        *)
(* operation atomic: a contact is either stored whole, under an id no      *)
(* other contact ever had, or refused and not stored at all; an edit       *)
(* replaces the editable part of one row; clearing the log empties it.     *)
(* SaveTxn is the transaction code that has to implement this.             *)
(***************************************************************************)
EXTENDS Naturals

CONSTANTS QSOs,    \* the contacts that may be logged
          Notes    \* contents of the editable part of a row

VARIABLES rows,    \* the stored table
          given,   \* every [id, qso] a caller was ever told is stored
          refused  \* contacts a caller was told could not be stored

vars == <<rows, given, refused>>

Row == [id : Nat \ {0}, qso : QSOs, note : Notes]
Receipt == [id : Nat \ {0}, qso : QSOs]

TypeOK ==
  /\ rows \in SUBSET Row
  /\ given \in SUBSET Receipt
  /\ refused \in SUBSET QSOs

Init == rows = {} /\ given = {} /\ refused = {}

Fresh(id) == \A g \in given : g.id # id
Unknown(q) == q \notin refused /\ \A g \in given : g.qso # q

\* The caller's contact becomes the row r
Save(r) ==
  /\ r \in Row /\ Unknown(r.qso) /\ Fresh(r.id)
  /\ rows' = rows \cup {r}
  /\ given' = given \cup {[id |-> r.id, qso |-> r.qso]}
  /\ UNCHANGED refused

Refuse(q) ==
  /\ Unknown(q)
  /\ refused' = refused \cup {q}
  /\ UNCHANGED <<rows, given>>

Update(r, n) ==
  /\ r \in rows
  /\ rows' = (rows \ {r}) \cup {[r EXCEPT !.note = n]}
  /\ UNCHANGED <<given, refused>>

Clear ==
  /\ rows' = {}
  /\ UNCHANGED <<given, refused>>

Next ==
  \/ \E r \in rows' : Save(r)
  \/ \E q \in QSOs : Refuse(q)
  \/ \E r \in rows, n \in Notes : Update(r, n)
  \/ Clear

Spec == Init /\ [][Next]_vars
=============================================================================
