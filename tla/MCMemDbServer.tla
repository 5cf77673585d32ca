---------------------------- MODULE MCMemDbServer ----------------------------
(* Two servers, and another program's segments at the two keys behind. *)
EXTENDS MemDbServer

CONSTANTS s1, s2
MCServers == {s1, s2}
MCKeys == {2, 3}
=============================================================================
