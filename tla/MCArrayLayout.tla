---------------------------- MODULE MCArrayLayout ----------------------------
(* A scale model of the layout: four slots on a word of four bits, and a   *)
(* MAX_BIT that lies as far behind the word as 0x31 does behind 32 bits.   *)
EXTENDS ArrayLayout

(* A value of no cell, of the column's one and of one more. *)
MCValues == {<<>>, <<1>>, <<0, 1>>}
==============================================================================
