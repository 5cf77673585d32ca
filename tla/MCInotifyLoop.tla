---------------------------- MODULE MCInotifyLoop ----------------------------
(* A short name and a long one, of two chunks; directories in the watch    *)
(* point and one nested, whose name is also that of one in the watch       *)
(* point.  Events have one, two or three chunks.                           *)
EXTENDS InotifyLoop

CONSTANTS a, b
MCNames == {a, b}
MCNameChunks == (a :> 1) @@ (b :> 2)
MCShort == {a}
MCPaths == {<<>>, <<a>>, <<b>>, <<b, a>>}
MCEntries == {<<<<a>>, "dir">>, <<<<b>>, "dir">>, <<<<b, a>>, "dir">>}
MCTouched == {<<>>}
=============================================================================
