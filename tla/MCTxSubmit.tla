----------------------------- MODULE MCTxSubmit -----------------------------
(* Finite instances of TxSubmit: each call has a payload of its own. *)
EXTENDS TxSubmit

CONSTANTS c1, c2, c3, p1, p2, p3

MCPayload == [c \in Calls |-> CASE c = c1 -> p1 [] c = c2 -> p2 [] c = c3 -> p3]

EverySetting == [local : BOOLEAN, overlap : BOOLEAN]
=============================================================================
