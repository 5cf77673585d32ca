------------------------------ MODULE BulkReply ------------------------------
(***************************************************************************)
(* What the bulk stream of task1 promises to the client that sent a query, *)
(* whatever the number of packages the answer is cut into: rows arrive in  *)
(* the order of the result set, none is lost or repeated, the answer is    *)
(* called complete only when every row has arrived, and the client is not  *)
(* left waiting for ever: the answer is completed or it breaks off.        *)
(***************************************************************************)
EXTENDS Naturals, Sequences

CONSTANT MaxRows          \* the longest result set considered

VARIABLES
    answer,               \* number of rows of the query's result set
    delivered,            \* the rows handed to the client so far
    outcome               \* "open" until the client stops reading

vars == <<answer, delivered, outcome>>

FirstRows(n) == [i \in 1..n |-> i]

Init ==
    /\ answer \in 0..MaxRows
    /\ delivered = <<>>
    /\ outcome = "open"

(* Some more rows, the next ones of the result set. *)
Deliver ==
    /\ outcome = "open"
    /\ \E n \in Len(delivered) + 1 .. answer : delivered' = FirstRows(n)
    /\ UNCHANGED <<answer, outcome>>

(* The last rows, and the word that they are the last. *)
Complete ==
    /\ outcome = "open"
    /\ delivered' = FirstRows(answer)
    /\ outcome' = "complete"
    /\ UNCHANGED answer

(* The server had no rows to give: it acknowledged an instruction. *)
Acknowledge ==
    /\ outcome = "open"
    /\ delivered = <<>>
    /\ outcome' = "acknowledged"
    /\ UNCHANGED <<answer, delivered>>

(* The stream ends early; what has arrived is a prefix of the answer. *)
BreakOff ==
    /\ outcome = "open"
    /\ outcome' = "broken"
    /\ \E n \in Len(delivered) .. answer : delivered' = FirstRows(n)
    /\ UNCHANGED answer

Next == Deliver \/ Complete \/ Acknowledge \/ BreakOff

Spec == Init /\ [][Next]_vars /\ WF_vars(Complete \/ Acknowledge \/ BreakOff)

==============================================================================
