---------------------------- MODULE MCFramedSocket ----------------------------
(* A query of one package, or an answer of two, of 0 to 3 bytes behind     *)
(* headers of two, sent two bytes at a time through a connection that      *)
(* holds three.                                                            *)
EXTENDS FramedSocket

==============================================================================
