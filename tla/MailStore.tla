------------------------------ MODULE MailStore ------------------------------
(***************************************************************************)
(* What the message store promises: a box belongs to one owner, mail goes  *)
(* into boxes that are open, and an owner who asks takes all the mail that *)
(* was put into the box since the last time, in order and once.            *)
(***************************************************************************)
EXTENDS Sequences

CONSTANTS Owners, Mail

VARIABLES
    opened,               \* owners who have a box
    put,                  \* all that was ever put into each box
    taken                 \* all that was ever taken out of it

vars == <<opened, put, taken>>

Init ==
    /\ opened = {}
    /\ put = [o \in Owners |-> <<>>]
    /\ taken = [o \in Owners |-> <<>>]

Open(o) ==
    /\ o \notin opened
    /\ opened' = opened \cup {o}
    /\ UNCHANGED <<put, taken>>

Put(o, mail) ==
    /\ o \in opened
    /\ put' = [put EXCEPT ![o] = Append(@, mail)]
    /\ UNCHANGED <<opened, taken>>

Take(o) ==
    /\ o \in opened
    /\ taken' = [taken EXCEPT ![o] = put[o]]
    /\ UNCHANGED <<opened, put>>

Next == \E o \in Owners : Open(o) \/ Take(o) \/ \E mail \in Mail : Put(o, mail)

Spec == Init /\ [][Next]_vars

==============================================================================
