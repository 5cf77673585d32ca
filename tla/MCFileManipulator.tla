-------------------------- MODULE MCFileManipulator --------------------------
(* Two calls, three files, one of them missing, a custom directory and the *)
(* working directory, a module that bears the name of CoreCommands and one *)
(* that does not.                                                          *)
EXTENDS FileManipulator

CONSTANTS p1, p2, core, tools, work, custom, gone, fa, fb, missing, ca, cb

MCCodes == {[Reverse |-> "None", Sort |-> "raises"]}
MCFolders ==
  {(work :> ((<<tools, "py">> :> CoreCommands) @@ (<<tools, "txt">> :> <<>>)))
     @@ (custom :> ((<<tools, "py">> :> CoreCommands) @@ (<<core, "pyc">> :> <<>>)))}
MCContents == {(fa :> <<ca>>) @@ (fb :> <<cb, cb, cb>>) @@ (missing :> None)}

Call(argc, known, x, i, o, where) ==
  [argc |-> argc, switchesKnown |-> known, x |-> x, i |-> i, o |-> o, searchPath |-> where]
MCCalls ==
  {Call(3, TRUE, "Reverse", None, None, None), Call(5, TRUE, "Sort", fa, None, gone),
   Call(5, TRUE, "Sort", fb, None, None), Call(5, TRUE, "Reverse", missing, None, None),
   Call(7, TRUE, "Reverse", fa, fb, None),
   Call(7, TRUE, "Reverse", fa, fa, custom)}
=============================================================================
