---------------------------- MODULE MCSocketServer ----------------------------
(* Three connections, of which two may be open at a time: the listener can *)
(* overtake one thread or two, and run out of descriptors.                 *)
EXTENDS SocketServer

==============================================================================
