------------------------------ MODULE PackagePipe ------------------------------
(***************************************************************************)
(* What the package framing of task1 promises over a TCP connection: whole *)
(* packages, in the order they were sent, until the writer closes or the   *)
(* reader stops.  Packages are numbered in the order they are sent.        *)
(***************************************************************************)
EXTENDS Naturals, Sequences

VARIABLES
    put,                  \* packages put in so far
    taken,                \* packages the reader has taken out, in order
    closed,               \* the writer is done
    reading               \* the reader still reads

vars == <<put, taken, closed, reading>>

Init == put = 0 /\ taken = <<>> /\ closed = FALSE /\ reading = TRUE

Put ==
    /\ ~closed
    /\ put' = put + 1
    /\ UNCHANGED <<taken, closed, reading>>

(* A package may be the last the reader wants. *)
Take ==
    /\ reading
    /\ Len(taken) < put
    /\ taken' = Append(taken, Len(taken) + 1)
    /\ reading' \in BOOLEAN
    /\ UNCHANGED <<put, closed>>

Close ==
    /\ ~closed
    /\ closed' = TRUE
    /\ put' \in {put, put + 1}
    /\ UNCHANGED <<taken, reading>>

(* At the end of the connection, or because reading failed. *)
Stop ==
    /\ reading
    /\ reading' = FALSE
    /\ UNCHANGED <<put, taken, closed>>

Next == Put \/ Take \/ Close \/ Stop

(* A reader takes what is in the pipe, and comes to the end of a closed one. *)
Spec == Init /\ [][Next]_vars /\ WF_vars(Take \/ (closed /\ Stop))

==============================================================================
