--------------------------- MODULE MCProducerConsumer ---------------------------
(* One or two producers of two messages each, and two crashes wherever they *)
(* may hurt most: enough for a message, a connection and a backlog to meet  *)
(* a consumer started again.                                                *)
EXTENDS ProducerConsumer

CONSTANTS p1, p2

==============================================================================
