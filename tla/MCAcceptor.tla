----------------------------- MODULE MCAcceptor -----------------------------
(* Clients of the acceptor, whose messages have a letter for a body: a REG, *)
(* a REG without its size, and a TRM.                                       *)
EXTENDS Acceptor, TLC

CONSTANTS c1, c2

MCMessages == {[type |-> REG, sz |-> 1, body |-> 1],
               [type |-> REG, sz |-> 0, body |-> 1],
               [type |-> TRM, sz |-> 1, body |-> 1]}

MCMaxMsgs == (c1 :> 2) @@ (c2 :> 1)

==============================================================================
