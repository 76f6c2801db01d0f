------------------------------ MODULE Inspector ------------------------------
(***************************************************************************)
(* Playground.Inspector of session.js: the values of one line, the text    *)
(* beside the line, and the table that shows all of them.                  *)
(* A message is [type, data]: the type of the value, and the labels of its *)
(* parts, NoData when the value was no tuple.  Cells are left out.         *)
(***************************************************************************)
EXTENDS Naturals, Sequences

CONSTANTS
  NoType,   \* null
  NoData    \* a message without the field data

Closed == [open |-> FALSE, labels |-> {}, rows |-> 0]

NewInspector == [messages |-> <<>>, valueType |-> NoType, table |-> Closed]

(* The columns of a row are read from the data of the message: a row of a  *)
(* message without data raises when the table has any.                     *)
RowRaises(labels, m) == labels # {} /\ m.data = NoData

DataLabels(messages) ==
  UNION {messages[i].data : i \in {j \in DOMAIN messages :
                                     messages[j].data # NoData}}

(* Faulty variants of AddMessage: the open table misses the new row; only  *)
(* the type of the last value counts.                                      *)
AddMessageUnseen(i, m) ==
  [i EXCEPT !.messages = Append(@, m),
            !.valueType = IF Len(i.messages) = 0 \/ @ = m.type
                            THEN m.type ELSE NoType]

(* addMessage: the type is kept as long as it is always the same. *)
AddMessage(i, m) ==
  [messages |-> Append(i.messages, m),
   valueType |-> IF Len(i.messages) = 0 \/ i.valueType = m.type
                   THEN m.type ELSE NoType,
   table |-> IF i.table.open /\ ~RowRaises(i.table.labels, m)
               THEN [i.table EXCEPT !.rows = @ + 1] ELSE i.table]

(* A click on the line: the columns are those of the values so far.  The   *)
(* table opens only when no row raised.                                    *)
OpenTable(i) ==
  LET labels == DataLabels(i.messages)
  IN  IF \E j \in DOMAIN i.messages : RowRaises(labels, i.messages[j])
        THEN i
        ELSE [i EXCEPT !.table = [open |-> TRUE, labels |-> labels,
                                  rows |-> Len(i.messages)]]

CloseTable(i) == [i EXCEPT !.table = Closed]
=============================================================================
