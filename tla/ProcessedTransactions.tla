------------------------ MODULE ProcessedTransactions ------------------------
(***************************************************************************)
(* The table processed_transactions, by which the consumers know what they *)
(* handled: a set of rows [id, compensates].                               *)
(***************************************************************************)

Compensating(c) == c.kind \in {"unregister", "clear"}

\* The row that marks command c as handled.
RowOf(c) == [id |-> c.id, compensates |-> IF Compensating(c) THEN {c.of} ELSE {}]

Handled(table, id) == \E row \in table : row.id = id

Compensated(table, id) == \E row \in table : id \in row.compensates

=============================================================================
