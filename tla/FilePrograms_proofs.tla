-------------------------- MODULE FilePrograms_proofs --------------------------
(***************************************************************************)
(* Proofs about the programs whose state is the file system's and that     *)
(* everybody else changes meanwhile, FileManipulator and InotifyLoop.      *)
(*                                                                         *)
(* FileManipulator: for any calls, files and modules, what a file holds    *)
(* (OutInv) and when a command is found (FindInv).                         *)
(*                                                                         *)
(* InotifyLoop: for any paths, buffer and queue, what is watched           *)
(* (WatchInv) and what is printed (PrintInv).                              *)
(***************************************************************************)
EXTENDS FileManipulator, InotifyLoop, FiniteSetTheorems, SequenceTheorems,
        WellFoundedInduction, TLAPS

\* What is written is a text, and over an empty file it is all there is.
LEMMA ReverseText == \A in \in Texts : Append(Reverse(in), Newline) \in Texts
BY DEF Reverse, Texts

LEMMA OverNothing == \A new \in Texts : Over(new, <<>>) = new
BY DEF Over, Texts

LEMMA OverText == \A new, old \in Texts : Over(new, old) \in Texts
BY DEF Over, Texts

(* Types, and what is known of a call by where it is: its command line is  *)
(* one of Calls and a good one, it has no exit status before its end, and  *)
(* only a Reverse with an output opens a file.                             *)
Places == {"start", "list", "load", "compile", "execute", "open", "write", "ended"}
LookOK(p) ==
  /\ DOMAIN look[p] = {"path", "listed", "last", "code", "mods"}
  /\ DOMAIN look[p].mods = Modules
CallOK(p) ==
  /\ pc[p] # "start" => call[p] \in Calls
  /\ pc[p] \notin {"start", "ended"} => ~Usage(call[p])
  /\ pc[p] # "ended" => status[p] = None
  /\ pc[p] \in {"open", "write"} => cmd[p] = "Reverse" /\ call[p].o # None
  /\ pc[p] = "write" => file[call[p].o] \in Texts
Typed ==
  /\ pc \in [Procs -> Places] /\ call \in [Procs -> Calls \cup {None}]
  /\ look = [p \in Procs |-> look[p]] /\ cmd \in [Procs -> Classes \cup {None}]
  /\ buff \in [Procs -> Texts] /\ status \in [Procs -> {None, 0, 1, 4, Killed}]
  /\ file \in [Files -> Texts \cup {None}]
  /\ dirs = [d \in Dirs |-> dirs[d]]
  /\ \A d \in Dirs : DOMAIN dirs[d] \subseteq Modules \X Exts
  /\ \A p \in Procs : LookOK(p) /\ CallOK(p)

(* Whole(f), of a file that is not spoilt: at most one call writes it, and *)
(* it is empty then; without a writer it is what OutputWhole says.         *)
Done(f) == {p \in Procs : status[p] = 0 /\ cmd[p] = "Reverse" /\ call[p].o = f}
Whole(f) ==
  /\ \A p \in Writers(f) : Writers(f) = {p} /\ file[f] = <<>>
  /\ Writers(f) = {} =>
       IF Done(f) = {} THEN file[f] = first[f] ELSE \E p \in Done(f) : file[f] = buff[p]
OutInv == Typed /\ \A f \in Files \ spoilt : Whole(f)

LEMMA InitTyped == Init => Typed
<1> SUFFICES ASSUME Init PROVE Typed
  OBVIOUS
<1>1. /\ pc \in [Procs -> Places] /\ call \in [Procs -> Calls \cup {None}]
      /\ look = [p \in Procs |-> look[p]] /\ cmd \in [Procs -> Classes \cup {None}]
      /\ status \in [Procs -> {None, 0, 1, 4, Killed}]
  BY DEF Init, Places
<1>2. buff \in [Procs -> Texts]
  BY DEF Init, Texts
<1>3. file \in [Files -> Texts \cup {None}]
  BY FilesAssumption DEF Init, FilesOK
<1>4. dirs = [d \in Dirs |-> dirs[d]] /\ \A d \in Dirs : DOMAIN dirs[d] \subseteq Modules \X Exts
  BY FilesAssumption DEF Init, FilesOK
<1>5. ASSUME NEW p \in Procs PROVE LookOK(p) /\ CallOK(p)
  BY DEF Init, LookOK, CallOK, Lookup
<1> QED BY <1>1, <1>2, <1>3, <1>4, <1>5 DEF Typed

(* What a step of p leaves to show when p goes on with l, and when it exits. *)
IsLook(l) == DOMAIN l = {"path", "listed", "last", "code", "mods"} /\ DOMAIN l.mods = Modules
Control ==
  /\ pc \in [Procs -> Places] /\ look = [p \in Procs |-> look[p]]
  /\ status \in [Procs -> {None, 0, 1, 4, Killed}]
  /\ \A p \in Procs : LookOK(p) /\ (pc[p] # "ended" => status[p] = None)

Apart(p) ==
  \A q \in Procs \ {p} : pc'[q] = pc[q] /\ status'[q] = status[q] /\ look'[q] = look[q]

LEMMA GotoControl ==
  ASSUME Typed, NEW p \in Procs, NEW there \in Places, there # "ended", pc[p] # "ended",
         NEW l, IsLook(l), Goto(p, there, l)
  PROVE  Control' /\ Apart(p) /\ pc'[p] = there /\ look'[p] = l /\ status'[p] = None
<1>1. pc' = [pc EXCEPT ![p] = there] /\ look' = [look EXCEPT ![p] = l] /\ UNCHANGED status
  BY DEF Goto
<1>2. ASSUME NEW q \in Procs PROVE LookOK(q)'
  BY <1>1 DEF Typed, LookOK, IsLook
<1>3. look' = [q \in Procs |-> look'[q]]
  BY <1>1 DEF Typed
<1> QED BY <1>1, <1>2, <1>3 DEF Typed, Control, CallOK, Apart

LEMMA LookupIsLook == \A path : IsLook(Lookup(path))
BY DEF IsLook, Lookup

LEMMA ExitControl ==
  ASSUME Typed, NEW p \in Procs, NEW code \in {0, 1, 4, Killed}, Exit(p, code)
  PROVE  Control' /\ Apart(p) /\ pc'[p] = "ended" /\ status'[p] = code
<1>1. /\ pc' = [pc EXCEPT ![p] = "ended"] /\ look' = [look EXCEPT ![p] = Lookup(<<>>)]
      /\ status' = [status EXCEPT ![p] = code]
  BY DEF Exit
<1>2. ASSUME NEW q \in Procs PROVE LookOK(q)'
  <2>1. IsLook(look'[q]) \/ look'[q] = look[q]
    BY <1>1, LookupIsLook DEF Typed
  <2> QED BY <2>1 DEF Typed, LookOK, IsLook
<1>3. look' = [q \in Procs |-> look'[q]]
  BY <1>1 DEF Typed
<1> QED BY <1>1, <1>2, <1>3 DEF Typed, Control, CallOK, Places, Apart

LEMMA NextDirControl ==
  ASSUME Typed, NEW p \in Procs, pc[p] # "ended", NextDir(p)
  PROVE  /\ Control' /\ Apart(p)
         /\ \/ pc'[p] = "ended" /\ status'[p] = 4
            \/ /\ pc'[p] = "list" /\ status'[p] = None
               /\ look'[p] = [look[p] EXCEPT !.path = Tail(@)]
<1>1. CASE Exit(p, 4)
  BY <1>1, ExitControl
<1>2. CASE Goto(p, "list", [look[p] EXCEPT !.path = Tail(@)])
  <2>1. IsLook([look[p] EXCEPT !.path = Tail(@)])
    BY DEF Typed, LookOK, IsLook
  <2> QED BY <1>2, <2>1, GotoControl DEF Places
<1> QED BY <1>1, <1>2 DEF NextDir

LEMMA StartTyped ==
  ASSUME Typed, NEW p \in Procs, Start(p)
  PROVE  Typed'
<1>1. PICK c \in Calls : /\ call' = [call EXCEPT ![p] = c]
                         /\ IF Usage(c) THEN Exit(p, 1)
                                        ELSE Goto(p, "list", Lookup(SearchPath(c)))
  BY DEF Start
<1>2. Control' /\ Apart(p) /\ ((pc'[p] = "list" /\ ~Usage(c)) \/ pc'[p] = "ended")
  BY <1>1, GotoControl, ExitControl, LookupIsLook DEF Places, Start, At
<1> QED
  BY <1>1, <1>2 DEF Typed, Start, Control, CallOK, Apart

LEMMA ListTyped ==
  ASSUME Typed, NEW p \in Procs, List(p)
  PROVE  Typed'
<1> DEFINE d == Head(look[p].path)
           l == [look[p] EXCEPT !.listed = DOMAIN dirs[d], !.last = None]
<1>1. IsLook(l)
  BY DEF Typed, LookOK, IsLook
<1>2. Goto(p, "load", l) \/ Exit(p, 1)
  BY DEF List
<1>3. Control' /\ Apart(p) /\ pc'[p] \in {"load", "ended"}
  BY <1>1, <1>2, GotoControl, ExitControl DEF Places, List, At
<1> QED
  BY <1>3 DEF Typed, List, At, Control, CallOK, Apart

\* What Put makes of a function.
LEMMA PutThere ==
  ASSUME NEW g, NEW a, NEW b
  PROVE  /\ DOMAIN Put(g, a, b) = DOMAIN g \cup {a}
         /\ Put(g, a, b)[a] = b
         /\ \A x \in DOMAIN g : x # a => Put(g, a, b)[x] = g[x]
BY DEF Put

LEMMA PutAt ==
  ASSUME NEW g, NEW a, NEW b, NEW x \in DOMAIN Put(g, a, b)
  PROVE  (x = a /\ Put(g, a, b)[x] = b) \/ (x \in DOMAIN g /\ Put(g, a, b)[x] = g[x])
BY DEF Put

(* The cases of one turn of the loop over the files. *)
LEMMA LoadCases ==
  ASSUME NEW p \in Procs, NEW f, Load(p, f), NEW d, d = Head(look[p].path),
         NEW rest, rest = [look[p] EXCEPT !.listed = @ \ {f}],
         NEW loaded, loaded = [rest EXCEPT !.last = f[1], !.code = dirs[d][f],
                                           !.mods[f[1]] = Executed(dirs[d][f], @)]
  PROVE  \/ f[2] = "txt" /\ Goto(p, "load", rest) /\ UNCHANGED <<dirs, met>>
         \/ /\ f[2] # "txt" /\ ~Loads(d, f) /\ NextDir(p) /\ UNCHANGED dirs
            /\ met' = IF Half(d, f) THEN met \cup {p} ELSE met
         \/ /\ f[2] # "txt" /\ Loads(d, f) /\ (f[2] = "pyc" \/ UpToDate(d, f))
            /\ Goto(p, "load", loaded) /\ UNCHANGED <<dirs, met>>
         \/ /\ f[2] = "py" /\ Loads(d, f) /\ ~UpToDate(d, f)
            /\ Goto(p, "compile", loaded) /\ UNCHANGED met
            /\ dirs' = [dirs EXCEPT ![d] = Put(@, Pyc(f[1]), p)]
BY DEF Load

LEMMA LoadControl ==
  ASSUME Typed, NEW p \in Procs, NEW f, Load(p, f)
  PROVE  /\ Control' /\ Apart(p) /\ pc'[p] \in {"list", "load", "compile", "ended"}
         /\ status'[p] \in {None, 4} /\ (pc'[p] = "compile" \/ UNCHANGED dirs)
<1> DEFINE d == Head(look[p].path)
           rest == [look[p] EXCEPT !.listed = @ \ {f}]
           loaded == [rest EXCEPT !.last = f[1], !.code = dirs[d][f],
                                  !.mods[f[1]] = Executed(dirs[d][f], @)]
<1>1. IsLook(rest)
  BY DEF Typed, LookOK, IsLook
<1>2. IsLook(loaded)
  BY <1>1 DEF IsLook
<1>3. pc[p] = "load"
  BY DEF Load, At
<1> HIDE DEF rest, loaded, d
<1>4. \/ (Goto(p, "load", rest) \/ NextDir(p) \/ Goto(p, "load", loaded)) /\ UNCHANGED dirs
      \/ Goto(p, "compile", loaded)
  BY LoadCases DEF d, rest, loaded
<1> QED BY <1>1, <1>2, <1>3, <1>4, GotoControl, NextDirControl DEF Places

LEMMA LoadTyped ==
  ASSUME Typed, NEW p \in Procs, NEW f, Load(p, f)
  PROVE  Typed'
<1> DEFINE d == Head(look[p].path)
<1>1. Control' /\ Apart(p) /\ pc'[p] \in {"list", "load", "compile", "ended"} /\ pc[p] = "load"
  BY LoadControl DEF Load, At
<1>3. /\ dirs' = [e \in Dirs |-> dirs'[e]]
      /\ \A e \in Dirs : DOMAIN dirs'[e] \subseteq Modules \X Exts
  <2>1. CASE UNCHANGED dirs
    BY <2>1 DEF Typed
  <2>2. CASE Loads(d, f) /\ dirs' = [dirs EXCEPT ![d] = Put(@, Pyc(f[1]), p)]
    <3>1. \A e \in Dirs : dirs'[e] = IF e = d THEN Put(dirs[d], Pyc(f[1]), p) ELSE dirs[e]
      BY <2>2 DEF Typed
    <3>2. d \in Dirs => Pyc(f[1]) \in Modules \X Exts
      BY <2>2 DEF Typed, Loads, Exts, Pyc
    <3>3. dirs' = [e \in Dirs |-> dirs'[e]]
      BY <2>2 DEF Typed
    <3>4. ASSUME NEW e \in Dirs PROVE DOMAIN dirs'[e] \subseteq Modules \X Exts
      <4>1. DOMAIN dirs[e] \subseteq Modules \X Exts
        BY DEF Typed
      <4>2. CASE e = d
        <5>1. DOMAIN dirs'[e] = DOMAIN dirs[e] \cup {Pyc(f[1])}
          BY <4>2, <3>1 DEF Put
        <5> QED BY <4>1, <4>2, <5>1, <3>2
      <4> QED BY <4>1, <4>2, <3>1
    <3> QED BY <3>3, <3>4
  <2> QED BY <2>1, <2>2, LoadCases
<1> QED
  BY <1>1, <1>3 DEF Typed, Load, Control, CallOK, Apart

LEMMA CompiledControl ==
  ASSUME Typed, NEW p \in Procs, Compiled(p)
  PROVE  /\ Control' /\ Apart(p) /\ pc[p] = "compile" /\ pc'[p] = "load"
         /\ status'[p] = None /\ look'[p] = look[p]
<1>1. pc[p] = "compile" /\ Goto(p, "load", look[p]) /\ IsLook(look[p])
  BY DEF Compiled, At, Typed, LookOK, IsLook
<1> QED BY <1>1, GotoControl DEF Places

\* What is in a directory afterwards: the same files, one of them with other code.
LEMMA CompiledDirs ==
  ASSUME Typed, NEW p \in Procs, Compiled(p), NEW d, d = Head(look[p].path),
         NEW c, c = Pyc(look[p].last)
  PROVE  /\ dirs' = [e \in Dirs |-> dirs'[e]]
         /\ \A e \in Dirs : /\ DOMAIN dirs'[e] = DOMAIN dirs[e]
                            /\ \A g \in DOMAIN dirs[e] :
                                 dirs'[e][g] = IF e = d /\ g = c /\ dirs[e][g] = p
                                               THEN look[p].code ELSE dirs[e][g]
<1>1. dirs' = IF c \in DOMAIN dirs[d] /\ dirs[d][c] = p
              THEN [dirs EXCEPT ![d][c] = look[p].code] ELSE dirs
  BY DEF Compiled
<1>2. CASE c \in DOMAIN dirs[d] /\ dirs[d][c] = p /\ d \in Dirs
  <2>1. dirs' = [dirs EXCEPT ![d] = [dirs[d] EXCEPT ![c] = look[p].code]]
    BY <1>1, <1>2
  <2>2. dirs' = [e \in Dirs |-> IF e = d THEN [dirs[d] EXCEPT ![c] = look[p].code] ELSE dirs[e]]
    BY <2>1 DEF Typed
  <2> QED BY <1>2, <2>2
<1>3. CASE UNCHANGED dirs
  BY <1>1, <1>3 DEF Typed
<1>4. d \notin Dirs => [dirs EXCEPT ![d][c] = look[p].code] = dirs
  BY DEF Typed
<1> QED BY <1>1, <1>2, <1>3, <1>4

LEMMA CompiledTyped ==
  ASSUME Typed, NEW p \in Procs, Compiled(p)
  PROVE  Typed'
<1>1. /\ dirs' = [e \in Dirs |-> dirs'[e]]
      /\ \A e \in Dirs : DOMAIN dirs'[e] \subseteq Modules \X Exts
  BY CompiledDirs DEF Typed
<1> QED
  BY <1>1, CompiledControl DEF Typed, Compiled, Control, CallOK, Apart

LEMMA LookTyped ==
  ASSUME Typed, NEW p \in Procs, Look(p)
  PROVE  Typed'
<1>1. pc[p] = "load"
  BY DEF Look, At
<1>2. \/ Exit(p, 1) /\ UNCHANGED cmd
      \/ NextDir(p) /\ UNCHANGED cmd
      \/ \E c \in Classes : cmd' = [cmd EXCEPT ![p] = c] /\ Goto(p, "execute", Lookup(<<>>))
  BY DEF Look
<1>3. Control' /\ Apart(p) /\ pc'[p] \in {"list", "execute", "ended"}
  BY <1>1, <1>2, GotoControl, ExitControl, NextDirControl, LookupIsLook DEF Places
<1>4. \A q \in Procs : q # p => cmd'[q] = cmd[q]
  BY <1>2 DEF Typed
<1>5. cmd' \in [Procs -> Classes \cup {None}]
  BY <1>2 DEF Typed
<1> QED
  BY <1>1, <1>3, <1>4, <1>5 DEF Typed, Look, Control, CallOK, Apart

LEMMA ExecuteTyped ==
  ASSUME Typed, NEW p \in Procs, Execute(p)
  PROVE  Typed'
<1>1. pc[p] = "execute" /\ call[p].i \in Files
  BY FilesAssumption DEF Execute, At, Typed, CallOK, FilesOK, Usage
<1>2. \/ Exit(p, 0) \/ Exit(p, 1)
      \/ Goto(p, "open", look[p]) /\ cmd[p] = "Reverse" /\ call[p].o # None
  BY DEF Execute
<1>3. Control' /\ Apart(p) /\ pc'[p] \in {"open", "ended"}
  BY <1>1, <1>2, GotoControl, ExitControl DEF Places, Typed, LookOK, IsLook
<1>5. pc'[p] = "open" => cmd[p] = "Reverse" /\ call[p].o # None
  BY <1>2, <1>1 DEF Exit, Typed
<1>6. buff' \in [Procs -> Texts]
  <2>1. file[call[p].i] # None => Append(Reverse(file[call[p].i]), Newline) \in Texts
    BY <1>1, ReverseText DEF Typed
  <2> QED BY <2>1 DEF Execute, readFile, Typed
<1> QED
  BY <1>1, <1>3, <1>5, <1>6 DEF Typed, Execute, Control, CallOK, Apart

LEMMA OpenTyped ==
  ASSUME Typed, NEW p \in Procs, Open(p)
  PROVE  Typed'
<1>1. pc[p] = "open" /\ call[p].o \in Files
  BY FilesAssumption DEF Open, At, Typed, CallOK, FilesOK
<1>2. Exit(p, 1) \/ Goto(p, "write", look[p])
  BY DEF Open
<1>3. Control' /\ Apart(p) /\ pc'[p] \in {"write", "ended"}
  BY <1>1, <1>2, GotoControl, ExitControl DEF Places, Typed, LookOK, IsLook
<1>5. /\ file' \in [Files -> Texts \cup {None}]
      /\ \A f \in Files : file[f] \in Texts => file'[f] \in Texts
      /\ pc'[p] = "write" => file'[call[p].o] \in Texts
  <2>1. <<>> \in Texts
    BY DEF Texts
  <2>2. CASE file' = [file EXCEPT ![call[p].o] = <<>>]
    BY <1>1, <2>1, <2>2 DEF Typed
  <2>3. CASE Exit(p, 1) /\ UNCHANGED file
    BY <2>3, ExitControl DEF Typed
  <2> QED BY <2>2, <2>3 DEF Open, Opened
<1>6. \A q \in Procs : pc[q] = "write" => call[q].o \in Files
  BY FilesAssumption DEF Typed, CallOK, FilesOK
<1> QED
  BY <1>1, <1>3, <1>5, <1>6 DEF Typed, Open, Control, CallOK, Apart

LEMMA WriteTyped ==
  ASSUME Typed, NEW p \in Procs, Write(p)
  PROVE  Typed'
<1>1. pc[p] = "write" /\ call[p].o \in Files
  BY FilesAssumption DEF Write, At, Typed, CallOK, FilesOK
<1>2. Control' /\ Apart(p) /\ pc'[p] = "ended"
  BY ExitControl DEF Write
<1>3. /\ file' \in [Files -> Texts \cup {None}]
      /\ \A f \in Files : file[f] \in Texts => file'[f] \in Texts
  <2>1. buff[p] \in Texts /\ file[call[p].o] \in Texts
    BY <1>1 DEF Typed, CallOK
  <2>2. \A n \in 0..(Len(buff[p]) - 1) : SubSeq(buff[p], 1, n) \in Texts
    BY <2>1 DEF Texts
  <2>3. PICK text \in Texts : file' = [file EXCEPT ![call[p].o] = text]
    BY <2>1, <2>2, OverText DEF Write
  <2> QED BY <1>1, <2>3 DEF Typed
<1>4. \A q \in Procs : pc[q] = "write" => call[q].o \in Files
  BY FilesAssumption DEF Typed, CallOK, FilesOK
<1> QED
  BY <1>1, <1>2, <1>3, <1>4 DEF Typed, Write, Control, CallOK, Apart

LEMMA KillTyped ==
  ASSUME Typed, NEW p \in Procs, Kill(p)
  PROVE  Typed'
<1>1. Control' /\ Apart(p) /\ pc'[p] = "ended"
  BY ExitControl DEF Kill
<1> QED
  BY <1>1 DEF Typed, Kill, Control, CallOK, Apart

LEMMA EditTyped ==
  ASSUME Typed, NEW d \in Dirs, NEW m \in Modules, Edit(d, m)
  PROVE  Typed'
<1>1. \A e \in Dirs \ {d} : dirs'[e] = dirs[e]
  BY DEF Edit, Typed
<1>2. dirs' = [e \in Dirs |-> dirs'[e]]
  BY DEF Edit, Typed
<1>3. DOMAIN dirs'[d] \subseteq Modules \X Exts
  <2>0. DOMAIN dirs[d] \subseteq Modules \X Exts /\ <<m, "py">> \in Modules \X Exts
    BY DEF Typed, Exts
  <2>1. CASE \E code \in Codes \cup {Broken} :
               dirs' = [dirs EXCEPT ![d] = Put(@, <<m, "py">>, code)]
    <3>1. PICK code : dirs'[d] = Put(dirs[d], <<m, "py">>, code)
      BY <2>1 DEF Typed
    <3> QED BY <2>0, <3>1 DEF Put
  <2>2. CASE \E f \in DOMAIN dirs[d] :
               f[1] = m /\ dirs' = [dirs EXCEPT ![d] = [g \in DOMAIN @ \ {f} |-> @[g]]]
    <3>1. PICK f : dirs' = [dirs EXCEPT ![d] = [g \in DOMAIN @ \ {f} |-> @[g]]]
      BY <2>2
    <3>2. dirs'[d] = [g \in DOMAIN dirs[d] \ {f} |-> dirs[d][g]]
      BY <3>1 DEF Typed
    <3> QED BY <2>0, <3>2
  <2> QED BY <2>1, <2>2 DEF Edit
<1>4. UNCHANGED <<file, pc, call, look, cmd, buff, status>>
  BY DEF Edit, progVars
<1>5. \A e \in Dirs : DOMAIN dirs'[e] \subseteq Modules \X Exts
  BY <1>1, <1>3 DEF Typed
<1> QED BY <1>2, <1>4, <1>5 DEF Typed, LookOK, CallOK

LEMMA InitOut == Init => OutInv
<1> SUFFICES ASSUME Init PROVE OutInv
  OBVIOUS
<1>1. \A f : Writers(f) = {} /\ Done(f) = {} /\ file[f] = first[f]
  BY FilesAssumption DEF Init, Writers, Done, At, FilesOK
<1> QED BY <1>1, InitTyped DEF OutInv, Whole

(* What a file holds is not disturbed where the same calls write and are done. *)
LEMMA SameWhole ==
  ASSUME NEW f, Whole(f), Writers(f)' = Writers(f), Done(f)' = Done(f),
         file'[f] = file[f], first'[f] = first[f], \A p \in Done(f) : buff'[p] = buff[p]
  PROVE  Whole(f)'
BY DEF Whole

(* Nor by a call before it writes. *)
LEMMA BeforeWriting ==
  ASSUME OutInv, NEW p \in Procs, Apart(p), pc[p] \in Places \ {"write", "ended"},
         pc'[p] # "write", status'[p] # 0 \/ cmd'[p] # "Reverse" \/ call'[p].o \notin Files,
         \A q \in Procs \ {p} : call'[q] = call[q] /\ cmd'[q] = cmd[q] /\ buff'[q] = buff[q],
         UNCHANGED <<file, first, spoilt>>
  PROVE  \A f \in Files \ spoilt' : Whole(f)'
<1> SUFFICES ASSUME NEW f \in Files \ spoilt PROVE Whole(f)'
  OBVIOUS
<1>1. p \notin Writers(f) /\ p \notin Writers(f)'
  BY DEF Writers, At
<1>2. p \notin Done(f) /\ p \notin Done(f)'
  BY FilesAssumption DEF Done, OutInv, Typed, CallOK, FilesOK
<1>3. Writers(f)' = Writers(f)
  BY <1>1 DEF Writers, At, Apart
<1>4. Done(f)' = Done(f)
  BY <1>2 DEF Done, Apart
<1>5. \A q \in Done(f) : buff'[q] = buff[q]
  BY <1>2 DEF Done
<1> QED BY <1>3, <1>4, <1>5, SameWhole DEF OutInv

LEMMA StartOut == ASSUME OutInv, NEW p \in Procs, Start(p) PROVE OutInv'
<1>1. PICK c \in Calls : /\ call' = [call EXCEPT ![p] = c]
                         /\ IF Usage(c) THEN Exit(p, 1)
                                        ELSE Goto(p, "list", Lookup(SearchPath(c)))
  BY DEF Start
<1>2. /\ Apart(p) /\ pc[p] = "start"
      /\ pc'[p] \in {"list", "ended"} /\ status'[p] \in {1, None}
  BY <1>1, GotoControl, ExitControl, LookupIsLook DEF Places, Start, At, OutInv
<1>3. UNCHANGED <<file, first, spoilt, cmd, buff>> /\ \A q \in Procs \ {p} : call'[q] = call[q]
  BY <1>1 DEF OutInv, Typed, Start
<1> QED BY <1>2, <1>3, FilesAssumption, StartTyped, BeforeWriting DEF OutInv, FilesOK, Places

LEMMA ListOut == ASSUME OutInv, NEW p \in Procs, List(p) PROVE OutInv'
<1> DEFINE l == [look[p] EXCEPT !.listed = DOMAIN dirs[Head(look[p].path)], !.last = None]
<1>1. IsLook(l)
  BY DEF OutInv, Typed, LookOK, IsLook
<1>2. Goto(p, "load", l) \/ Exit(p, 1)
  BY DEF List
<1>3. /\ Apart(p) /\ pc[p] = "list"
      /\ pc'[p] \in {"load", "ended"} /\ status'[p] \in {1, None}
  BY <1>1, <1>2, GotoControl, ExitControl DEF Places, List, At, OutInv
<1>4. UNCHANGED <<file, first, spoilt, call, cmd, buff>>
  BY DEF List
<1> QED BY <1>3, <1>4, FilesAssumption, ListTyped, BeforeWriting DEF OutInv, FilesOK, Places

LEMMA LoadOut == ASSUME OutInv, NEW p \in Procs, NEW f, Load(p, f) PROVE OutInv'
<1>1. /\ Apart(p) /\ pc[p] = "load"
      /\ pc'[p] \in {"list", "load", "compile", "ended"} /\ status'[p] \in {None, 4}
  BY LoadControl DEF Load, At, OutInv
<1>2. UNCHANGED <<file, first, spoilt, call, cmd, buff>>
  BY DEF Load
<1> QED BY <1>1, <1>2, FilesAssumption, LoadTyped, BeforeWriting DEF OutInv, FilesOK, Places

LEMMA CompiledOut == ASSUME OutInv, NEW p \in Procs, Compiled(p) PROVE OutInv'
<1>1. /\ Apart(p) /\ pc[p] = "compile" /\ pc'[p] = "load" /\ status'[p] = None
  BY CompiledControl DEF OutInv
<1>2. UNCHANGED <<file, first, spoilt, call, cmd, buff>>
  BY DEF Compiled
<1> QED BY <1>1, <1>2, FilesAssumption, CompiledTyped, BeforeWriting DEF OutInv, FilesOK, Places

LEMMA LookOut == ASSUME OutInv, NEW p \in Procs, Look(p) PROVE OutInv'
<1>1. pc[p] = "load"
  BY DEF Look, At
<1>2. \/ Exit(p, 1) /\ UNCHANGED cmd
      \/ NextDir(p) /\ UNCHANGED cmd
      \/ \E c \in Classes : cmd' = [cmd EXCEPT ![p] = c] /\ Goto(p, "execute", Lookup(<<>>))
  BY DEF Look
<1>3. /\ Apart(p) /\ pc'[p] \in {"list", "execute", "ended"} /\ status'[p] \in {None, 1, 4}
  BY <1>1, <1>2, GotoControl, ExitControl, NextDirControl, LookupIsLook DEF Places, OutInv
<1>4. UNCHANGED <<file, first, spoilt, call, buff>> /\ \A q \in Procs \ {p} : cmd'[q] = cmd[q]
  BY <1>2 DEF Look, OutInv, Typed
<1> QED
  BY <1>1, <1>3, <1>4, FilesAssumption, LookTyped, BeforeWriting DEF OutInv, FilesOK, Places

LEMMA ExecuteOut == ASSUME OutInv, NEW p \in Procs, Execute(p) PROVE OutInv'
<1>1. pc[p] = "execute" /\ None \notin Files
  BY FilesAssumption DEF Execute, At, FilesOK
<1>2. \/ Exit(p, 0) /\ (cmd[p] = "Sort" \/ call[p].o = None)
      \/ Exit(p, 1)
      \/ Goto(p, "open", look[p])
  BY DEF Execute
<1>3. /\ Apart(p) /\ pc'[p] \in {"open", "ended"}
      /\ status'[p] # 0 \/ cmd[p] # "Reverse" \/ call[p].o \notin Files
  <2>1. CASE Exit(p, 0) /\ (cmd[p] = "Sort" \/ call[p].o = None)
    BY <1>1, <2>1, ExitControl DEF OutInv
  <2>2. CASE Exit(p, 1)
    BY <2>2, ExitControl DEF OutInv
  <2>3. CASE Goto(p, "open", look[p])
    <3>1. IsLook(look[p])
      BY DEF OutInv, Typed, LookOK, IsLook
    <3>2. Apart(p) /\ pc'[p] = "open" /\ status'[p] = None
      BY <1>1, <2>3, <3>1, GotoControl DEF OutInv, Places
    <3> QED BY <3>2, FilesAssumption DEF FilesOK
  <2> QED BY <1>2, <2>1, <2>2, <2>3
<1>4. /\ UNCHANGED <<file, first, spoilt, call, cmd>>
      /\ \A q \in Procs \ {p} : buff'[q] = buff[q]
  BY DEF Execute, OutInv, Typed
<1> QED BY <1>1, <1>3, <1>4, ExecuteTyped, BeforeWriting DEF OutInv, Places

LEMMA OpenOut == ASSUME OutInv, NEW p \in Procs, Open(p) PROVE OutInv'
<1>1. pc[p] = "open" /\ call[p].o \in Files
  BY FilesAssumption DEF Open, At, OutInv, Typed, CallOK, FilesOK
<1>2. UNCHANGED <<call, cmd, buff, first>>
  BY DEF Open
<1>3. CASE Exit(p, 1) /\ UNCHANGED <<file, spoilt>>
  <2>1. Apart(p) /\ pc'[p] = "ended" /\ status'[p] = 1
    BY <1>3, ExitControl DEF OutInv
  <2> QED BY <1>1, <1>2, <1>3, <2>1, OpenTyped, BeforeWriting DEF OutInv, Places
<1>4. CASE /\ file' = [file EXCEPT ![call[p].o] = <<>>]
           /\ spoilt' = IF Writers(call[p].o) = {} THEN spoilt ELSE spoilt \cup {call[p].o}
           /\ Goto(p, "write", look[p])
  <2>1. Apart(p) /\ pc'[p] = "write" /\ status'[p] = None
    BY <1>1, <1>4, GotoControl DEF OutInv, Typed, LookOK, IsLook, Places
  <2>2. ASSUME NEW f \in Files \ spoilt' PROVE Whole(f)'
    <3>1. f \in Files \ spoilt /\ Whole(f)
      BY <1>4 DEF OutInv
    <3>2. Done(f)' = Done(f)
      BY <1>1, <1>2, <2>1, FilesAssumption DEF Done, Apart, OutInv, Typed, CallOK, FilesOK
    <3>3. CASE f = call[p].o
      <4>1. Writers(f) = {}
        BY <1>4, <3>3
      <4>2. Writers(f)' = {p}
        BY <1>2, <2>1, <3>3, <4>1 DEF Writers, At, Apart
      <4>3. file'[f] = <<>>
        BY <1>1, <1>4, <3>3 DEF OutInv, Typed
      <4> QED BY <4>2, <4>3 DEF Whole
    <3>4. CASE f # call[p].o
      <4>1. Writers(f)' = Writers(f)
        BY <1>2, <2>1, <3>4 DEF Writers, At, Apart
      <4>2. file'[f] = file[f]
        BY <1>4, <3>1, <3>4 DEF OutInv, Typed
      <4> QED BY <1>2, <3>1, <3>2, <4>1, <4>2, SameWhole
    <3> QED BY <3>3, <3>4
  <2> QED BY <2>2, OpenTyped DEF OutInv
<1> QED BY <1>3, <1>4 DEF Open, Opened

LEMMA WriteOut == ASSUME OutInv, NEW p \in Procs, Write(p) PROVE OutInv'
<1> DEFINE o == call[p].o
<1>1. pc[p] = "write" /\ o \in Files /\ buff[p] \in Texts /\ cmd[p] = "Reverse"
  BY FilesAssumption DEF Write, At, OutInv, Typed, CallOK, FilesOK
<1>2. /\ UNCHANGED <<call, cmd, buff, first>> /\ spoilt \subseteq spoilt'
      /\ \A f \in Files \ {o} : file'[f] = file[f]
  BY DEF Write, OutInv, Typed
<1>3. \/ /\ file' = [file EXCEPT ![o] = Over(buff[p], file[o])]
         /\ Exit(p, 0) /\ spoilt' = spoilt
      \/ o \in spoilt' /\ \E code \in {0, 1} : Exit(p, code)
  BY DEF Write
<1>4. Apart(p) /\ pc'[p] = "ended" /\ (o \notin spoilt' => status'[p] = 0)
  BY <1>3, ExitControl DEF OutInv
<1>5. None \notin {0, 1} /\ status[p] = None
  BY <1>1, FilesAssumption DEF FilesOK, OutInv, Typed, CallOK
<1>6. ASSUME NEW f \in Files \ spoilt' PROVE Whole(f)'
  <2>1. f \in Files \ spoilt /\ Whole(f)
    BY <1>2, <1>6 DEF OutInv
  <2>2. CASE f = o
    <3>1. Writers(f) = {p} /\ file[f] = <<>>
      BY <1>1, <2>1, <2>2 DEF Writers, At, Whole
    <3>2. file'[f] = buff[p]
      BY <1>1, <1>3, <1>6, <2>2, <3>1, OverNothing DEF OutInv, Typed
    <3>3. p \in Done(f)' /\ Writers(f)' = {}
      BY <1>1, <1>2, <1>4, <1>6, <2>2, <3>1 DEF Done, Writers, At, Apart
    <3> QED BY <1>2, <3>2, <3>3 DEF Whole
  <2>3. CASE f # o
    <3>1. Writers(f)' = Writers(f) /\ Done(f)' = Done(f)
      BY <1>2, <1>4, <1>5, <2>3 DEF Writers, Done, At, Apart
    <3> QED BY <1>2, <2>1, <2>3, <3>1, SameWhole
  <2> QED BY <2>2, <2>3
<1> QED BY <1>6, WriteTyped DEF OutInv

LEMMA KillOut == ASSUME OutInv, NEW p \in Procs, Kill(p) PROVE OutInv'
<1>1. /\ Apart(p) /\ pc[p] \in {"compile", "write"} /\ pc'[p] = "ended"
      /\ status'[p] = Killed /\ Killed # 0
  BY ExitControl DEF Kill, OutInv, Killed
<1>2. UNCHANGED <<file, call, cmd, buff, first>>
  BY DEF Kill
<1>3. status[p] = None /\ None # 0
  BY <1>1, FilesAssumption DEF OutInv, Typed, CallOK, FilesOK
<1>4. CASE pc[p] = "compile"
  <2>1. UNCHANGED spoilt
    BY <1>4 DEF Kill, At
  <2> QED BY <1>1, <1>2, <1>4, <2>1, KillTyped, BeforeWriting DEF OutInv, Places
<1>5. CASE pc[p] = "write"
  <2>1. spoilt' = spoilt \cup {call[p].o}
    BY <1>5 DEF Kill, At
  <2>2. ASSUME NEW f \in Files \ spoilt' PROVE Whole(f)'
    <3>1. f \in Files \ spoilt /\ Whole(f) /\ f # call[p].o
      BY <2>1, <2>2 DEF OutInv
    <3>2. Writers(f)' = Writers(f) /\ Done(f)' = Done(f)
      BY <1>1, <1>2, <1>3, <3>1 DEF Writers, Done, At, Apart
    <3> QED BY <1>2, <3>1, <3>2, SameWhole
  <2> QED BY <2>2, KillTyped DEF OutInv
<1> QED BY <1>1, <1>4, <1>5

LEMMA EditOut ==
  ASSUME OutInv, NEW d \in Dirs, NEW m \in Modules, Edit(d, m)
  PROVE  OutInv'
<1>1. UNCHANGED <<file, pc, call, look, cmd, buff, status, first, spoilt>>
  BY DEF Edit, progVars
<1> QED BY <1>1, EditTyped DEF OutInv, Whole, Writers, Done, At

LEMMA SameOut == ASSUME OutInv, UNCHANGED vars PROVE OutInv'
BY DEF vars, progVars, OutInv, Typed, LookOK, CallOK, Whole, Writers, Done, At

(* What a file holds is what it held at first or all that one call wrote,  *)
(* for any number of calls, files and texts.                               *)
THEOREM OutputIsWhole == Spec => []OutputWhole
<1>1. OutInv => OutputWhole
  BY DEF OutInv, Whole, OutputWhole, Done
<1>2. OutInv /\ [Next]_vars => OutInv'
  BY StartOut, ListOut, LoadOut, CompiledOut, LookOut, ExecuteOut, OpenOut, WriteOut, KillOut, EditOut,
  SameOut
     DEF Next, Step
<1> QED BY InitOut, <1>1, <1>2, PTL DEF Spec

(* What decides in a directory: its sources, and the compiled code of the  *)
(* modules that have none.  No call changes these, but for the half-       *)
(* written ones.  A directory is hopeless for a command when there are     *)
(* none or a whole one does not give it.                                   *)
Sources(d) ==
  {f \in DOMAIN dirs[d] : f[2] = "py" \/ (f[2] = "pyc" /\ <<f[1], "py">> \notin DOMAIN dirs[d])}
Hopeless(d, x) ==
  d \notin Dirs \/ Sources(d) = {} \/ \E f \in Sources(d) : ~Half(d, f) /\ ~Gives(d, f, x)
(* Compiled code is current when it is its source's, or will be once the   *)
(* call that writes it has done so.                                        *)
Becomes(q, code) == q \in Procs /\ (pc[q] = "compile" => look[q].code = code)
Current(d, f) ==
  LET c == Pyc(f[1])
  IN c \in DOMAIN dirs[d] /\ (dirs[d][c] = dirs[d][f] \/ Becomes(dirs[d][c], dirs[d][f]))
(* How far a call has come that nobody disturbed: in the directory it      *)
(* searches first, every source it listed is still to be loaded or its     *)
(* compiled code is current, and the module loaded last gives the command  *)
(* unless its source is still to come.  Or the directory is hopeless.      *)
Dir(p) == Head(SearchPath(call[p]))
Listing(p) ==
  LET d == Dir(p)
      l == look[p]
  IN /\ l.path = SearchPath(call[p]) /\ l.listed \subseteq DOMAIN dirs[d]
     /\ \A f \in Sources(d) : f \in l.listed \/ (l.last # None /\ Current(d, f))
     /\ l.last # None =>
          \/ <<l.last, "py">> \in l.listed
          \/ call[p].x \in DOMAIN l.mods[l.last] /\ l.mods[l.last][call[p].x] \in Classes
Found(p) ==
  \/ Hopeless(Dir(p), call[p].x)
  \/ pc[p] = "list" /\ look[p].path = SearchPath(call[p])
  \/ pc[p] \in {"load", "compile"} /\ Listing(p)
  \/ pc[p] \in {"execute", "open", "write", "ended"} /\ cmd[p] # None
  \/ status[p] = Killed
(* A half-written file is the .pyc of the source its call is compiling,    *)
(* unless that call was killed; and no .pyc holds code that is broken.     *)
HalfOK ==
  /\ \A d \in Dirs : \A f \in DOMAIN dirs[d] : LET q == dirs[d][f] IN
       q \in Procs =>
         \/ pc[q] = "ended"
         \/ pc[q] = "compile" /\ d = Head(look[q].path) /\ f = Pyc(look[q].last)
  /\ \A q \in Procs : pc[q] = "compile" => look[q].code \notin Procs \cup {Broken}
NoBrokenPyc == \A d \in Dirs : \A f \in DOMAIN dirs[d] : f[2] = "pyc" => dirs[d][f] # Broken
FindInv ==
  /\ Typed /\ NoBrokenPyc /\ HalfOK
  /\ edits \in Nat /\ since \in [Procs -> Nat] /\ \A p \in Procs : since[p] <= edits
  /\ \A p \in Procs \ met :
       pc[p] # "start" /\ ~Usage(call[p]) /\ since[p] = edits => Found(p)

LEMMA InitFind == Init => FindInv
<1> SUFFICES ASSUME Init PROVE FindInv
  OBVIOUS
<1>1. NoBrokenPyc /\ HalfOK
  BY FilesAssumption DEF Init, NoBrokenPyc, HalfOK, FilesOK
<1> QED BY <1>1, InitTyped DEF FindInv, Init

(* Compiling leaves every source what it is, unless it is half written. *)
Kept ==
  \A d \in Dirs :
    /\ Sources(d)' = Sources(d) /\ DOMAIN dirs[d] \subseteq DOMAIN dirs'[d]
    /\ \A f \in Sources(d) : /\ ~Half(d, f) => dirs'[d][f] = dirs[d][f]
                             /\ Current(d, f) => Current(d, f)'

\* A step of p that does nothing to the directories and begins no compiling.
LEMMA KeptUnchanged ==
  ASSUME UNCHANGED dirs, NEW p \in Procs, Apart(p), pc'[p] # "compile"
  PROVE  Kept
<1>1. ASSUME NEW q, NEW code, Becomes(q, code) PROVE Becomes(q, code)'
  BY <1>1 DEF Becomes, Apart
<1>2. ASSUME NEW d, NEW f, Current(d, f) PROVE Current(d, f)'
  <2>1. DOMAIN dirs'[d] = DOMAIN dirs[d] /\ \A g : dirs'[d][g] = dirs[d][g]
    OBVIOUS
  <2> QED BY <1>1, <1>2, <2>1 DEF Current
<1> QED BY <1>2 DEF Kept, Sources

\* The step that begins a .pyc, in the place of any there is.
LEMMA KeptBegun ==
  ASSUME Typed, HalfOK, NEW p \in Procs, pc[p] = "load", pc'[p] = "compile", Apart(p),
         NEW d, NEW f, Loads(d, f), f[2] = "py", look'[p].code = dirs[d][f],
         dirs' = [dirs EXCEPT ![d] = Put(@, Pyc(f[1]), p)]
  PROVE  Kept
<1> SUFFICES ASSUME NEW e \in Dirs
             PROVE  /\ Sources(e)' = Sources(e) /\ DOMAIN dirs[e] \subseteq DOMAIN dirs'[e]
                    /\ \A g \in Sources(e) : /\ dirs'[e][g] = dirs[e][g]
                                             /\ Current(e, g) => Current(e, g)'
  BY DEF Kept
<1> DEFINE a == Pyc(f[1])
<1>1. \A q \in Procs : \A code : q # p /\ Becomes(q, code) => Becomes(q, code)'
  BY DEF Becomes, Apart
<1>2. \A g \in DOMAIN dirs[e] : dirs[e][g] # p
  BY DEF HalfOK
<1>3. CASE e # d
  <2>1. dirs'[e] = dirs[e]
    BY <1>3 DEF Typed
  <2>2. ASSUME NEW g, Current(e, g) PROVE Current(e, g)'
    <3> DEFINE b == Pyc(g[1])
    <3>1. b \in DOMAIN dirs[e] /\ (dirs[e][b] = dirs[e][g] \/ Becomes(dirs[e][b], dirs[e][g]))
      BY <2>2 DEF Current
    <3>2. dirs[e][b] # p
      BY <1>2, <3>1
    <3> HIDE DEF b
    <3>3. Becomes(dirs[e][b], dirs[e][g]) => Becomes(dirs[e][b], dirs[e][g])'
      BY <1>1, <2>1, <3>2 DEF Becomes
    <3>4. b \in DOMAIN dirs'[e] /\ (dirs'[e][b] = dirs'[e][g] \/ Becomes(dirs[e][b], dirs[e][g])')
      BY <2>1, <3>1, <3>3
    <3> QED BY <2>1, <3>4 DEF Current, b, Becomes
  <2> QED BY <2>1, <2>2 DEF Sources
<1>4. CASE e = d
  <2>1. dirs'[e] = Put(dirs[e], a, p)
    BY <1>4 DEF Typed
  <2>2. /\ DOMAIN dirs'[e] = DOMAIN dirs[e] \cup {a}
        /\ \A x \in DOMAIN dirs'[e] : dirs'[e][x] = IF x = a THEN p ELSE dirs[e][x]
    BY <2>1 DEF Put
  <2>3. /\ f \in DOMAIN dirs[e] /\ f = <<f[1], "py">>
        /\ \A x \in DOMAIN dirs[e] : x = <<x[1], x[2]>> /\ x[2] \in Exts
    BY <1>4 DEF Typed, Loads
  <2>4. a[1] = f[1] /\ a[2] = "pyc" /\ \A x : <<x[1], "pyc">> = a => x[1] = f[1]
    BY DEF Pyc
  <2> HIDE DEF a
  <2>5. \A x : <<x[1], "py">> # a
    BY <2>4
  <2>6. a \notin Sources(e)
    BY <2>3, <2>4 DEF Sources
  <2>7. Sources(e)' = Sources(e)
    BY <2>2, <2>3, <2>4, <2>5 DEF Sources
  <2>8. ASSUME NEW g \in Sources(e) PROVE dirs'[e][g] = dirs[e][g]
    BY <2>2, <2>6 DEF Sources
  <2>9. ASSUME NEW g \in Sources(e), Current(e, g) PROVE Current(e, g)'
    <3>1. CASE Pyc(g[1]) # a
      <4>1. /\ Pyc(g[1]) \in DOMAIN dirs'[e]
            /\ dirs'[e][Pyc(g[1])] = dirs[e][Pyc(g[1])] /\ dirs[e][Pyc(g[1])] # p
        BY <1>2, <2>2, <2>9, <3>1 DEF Current
      <4> QED BY <1>1, <2>8, <2>9, <4>1 DEF Current, Becomes
    <3>2. CASE Pyc(g[1]) = a
      <4>1. g \in DOMAIN dirs[e] /\ g = <<g[1], g[2]>> /\ g[1] = f[1]
        BY <3>2, <2>3, <2>4 DEF Sources, Pyc
      <4>2. g = f
        BY <2>3, <2>9, <4>1 DEF Sources
      <4>3. dirs'[e][a] = p /\ a \in DOMAIN dirs'[e] /\ dirs'[e][g] = look'[p].code
        BY <1>4, <2>2, <2>8, <4>2
      <4> QED BY <3>2, <4>3 DEF Current, Becomes
    <3> QED BY <3>1, <3>2
  <2> QED BY <2>2, <2>7, <2>8, <2>9
<1> QED BY <1>3, <1>4

LEMMA CompiledKept == ASSUME Typed, HalfOK, NEW p \in Procs, Compiled(p) PROVE Kept
<1> SUFFICES ASSUME NEW e \in Dirs
             PROVE  /\ Sources(e)' = Sources(e) /\ DOMAIN dirs[e] \subseteq DOMAIN dirs'[e]
                    /\ \A g \in Sources(e) : /\ ~Half(e, g) => dirs'[e][g] = dirs[e][g]
                                             /\ Current(e, g) => Current(e, g)'
  BY DEF Kept
<1> DEFINE d == Head(look[p].path)
           c == Pyc(look[p].last)
<1>1. /\ DOMAIN dirs'[e] = DOMAIN dirs[e]
      /\ \A g \in DOMAIN dirs[e] :
           dirs'[e][g] = IF e = d /\ g = c /\ dirs[e][g] = p THEN look[p].code ELSE dirs[e][g]
  BY CompiledDirs
<1>2. Apart(p) /\ pc[p] = "compile" /\ pc'[p] = "load"
  BY CompiledControl
<1>3. \A g \in DOMAIN dirs[e] : dirs[e][g] = p => e = d /\ g = c
  BY <1>2 DEF HalfOK
<1> HIDE DEF d, c
<1>4. Sources(e)' = Sources(e)
  BY <1>1 DEF Sources
<1>5. \A g \in DOMAIN dirs[e] : dirs'[e][g] = IF dirs[e][g] = p THEN look[p].code ELSE dirs[e][g]
  BY <1>1, <1>3
<1>6. ASSUME NEW g \in Sources(e), ~Half(e, g) PROVE dirs'[e][g] = dirs[e][g]
  BY <1>5, <1>6 DEF Half, Sources
<1>7. ASSUME NEW g \in Sources(e), Current(e, g) PROVE Current(e, g)'
  <2> DEFINE b == Pyc(g[1])
  <2>1. b \in DOMAIN dirs[e] /\ g \in DOMAIN dirs[e]
    BY <1>7 DEF Current, Sources
  <2>2. CASE dirs[e][b] = dirs[e][g]
    <3>1. dirs'[e][b] = dirs'[e][g] /\ b \in DOMAIN dirs'[e]
      BY <1>1, <1>5, <2>1, <2>2
    <3> QED BY <3>1 DEF Current
  <2>3. CASE dirs[e][b] # dirs[e][g] /\ dirs[e][b] = p
    <3>1. dirs[e][g] # p
      BY <2>3
    <3>2. look[p].code = dirs[e][g]
      BY <1>2, <1>7, <2>3 DEF Current, Becomes
    <3> QED BY <1>1, <1>5, <2>1, <2>3, <3>1, <3>2 DEF Current
  <2>4. CASE dirs[e][b] # dirs[e][g] /\ dirs[e][b] # p
    <3>1. dirs[e][g] # p
      <4>1. CASE dirs[e][g] = p
        <5>1. g = c
          BY <1>3, <2>1, <4>1
        <5>2. b = g
          BY <5>1 DEF Pyc, c
        <5> QED BY <2>4, <5>2
      <4> QED BY <4>1
    <3>2. dirs'[e][b] = dirs[e][b] /\ dirs'[e][g] = dirs[e][g]
      BY <1>5, <2>1, <2>4, <3>1
    <3>3. Becomes(dirs[e][b], dirs[e][g])
      BY <1>7, <2>4 DEF Current
    <3>4. Becomes(dirs[e][b], dirs[e][g])'
      BY <1>2, <2>4, <3>2, <3>3 DEF Becomes, Apart
    <3> QED BY <1>1, <2>1, <3>2, <3>4 DEF Current
  <2> QED BY <2>2, <2>3, <2>4
<1> QED BY <1>1, <1>4, <1>6, <1>7

LEMMA LoadKept ==
  ASSUME Typed, HalfOK, NEW p \in Procs, NEW f, Load(p, f)
  PROVE  Kept
<1> DEFINE d == Head(look[p].path)
           rest == [look[p] EXCEPT !.listed = @ \ {f}]
           loaded == [rest EXCEPT !.last = f[1], !.code = dirs[d][f],
                                  !.mods[f[1]] = Executed(dirs[d][f], @)]
<1>1. Apart(p) /\ pc[p] = "load" /\ (pc'[p] = "compile" \/ UNCHANGED dirs)
  BY LoadControl DEF Load, At
<1>2. CASE pc'[p] # "compile"
  BY <1>1, <1>2, KeptUnchanged
<1>3. CASE pc'[p] = "compile"
  <2>1. IsLook(rest) /\ IsLook(loaded)
    BY DEF Typed, LookOK, IsLook
  <2>2. loaded.code = dirs[d][f]
    BY DEF Typed, LookOK
  <2> HIDE DEF d, rest, loaded
  <2>3. /\ f[2] = "py" /\ Loads(d, f) /\ Goto(p, "compile", loaded)
        /\ dirs' = [dirs EXCEPT ![d] = Put(@, Pyc(f[1]), p)]
    <3>1. ~Goto(p, "load", rest) /\ ~Goto(p, "load", loaded) /\ ~NextDir(p)
      BY <1>1, <1>3, <2>1, GotoControl, NextDirControl DEF Places
    <3> QED BY <3>1, LoadCases DEF d, rest, loaded
  <2>4. look'[p] = loaded
    BY <1>1, <2>1, <2>3, GotoControl DEF Places
  <2> QED BY <1>1, <1>3, <2>2, <2>3, <2>4, KeptBegun
<1> QED BY <1>2, <1>3

LEMMA KeptHopeless ==
  ASSUME Kept, NEW d, NEW x, Hopeless(d, x)
  PROVE  Hopeless(d, x)'
<1>1. CASE d \notin Dirs
  BY <1>1 DEF Hopeless
<1>2. CASE d \in Dirs
  <2>1. Sources(d)' = Sources(d) /\ DOMAIN dirs[d] \subseteq DOMAIN dirs'[d]
    BY <1>2 DEF Kept
  <2>2. CASE Sources(d) = {}
    BY <2>1, <2>2 DEF Hopeless
  <2>3. CASE \E f \in Sources(d) : ~Half(d, f) /\ ~Gives(d, f, x)
    <3>1. PICK f \in Sources(d) : ~Half(d, f) /\ ~Gives(d, f, x)
      BY <2>3
    <3>2. dirs'[d][f] = dirs[d][f] /\ f \in DOMAIN dirs[d]
      BY <1>2, <3>1 DEF Kept, Sources
    <3>3. ~Half(d, f)' /\ ~Gives(d, f, x)'
      BY <3>1, <3>2 DEF Half, Gives
    <3> QED BY <2>1, <3>1, <3>3 DEF Hopeless
  <2> QED BY <1>2, <2>2, <2>3 DEF Hopeless
<1> QED BY <1>1, <1>2

LEMMA KeptFound ==
  ASSUME FindInv, Kept, NEW p \in Procs, Found(p),
         pc'[p] = pc[p], look'[p] = look[p], call'[p] = call[p], cmd'[p] = cmd[p],
         status'[p] = status[p]
  PROVE  Found(p)'
<1>1. CASE Hopeless(Dir(p), call[p].x)
  BY <1>1, KeptHopeless DEF Found, Dir
<1>2. CASE pc[p] \in {"load", "compile"} /\ Listing(p) /\ ~Hopeless(Dir(p), call[p].x)
  <2>1. Dir(p) \in Dirs /\ Dir(p)' = Dir(p)
    BY <1>2 DEF Hopeless, Dir
  <2>2. Listing(p)'
    BY <1>2, <2>1 DEF Listing, Kept
  <2> QED BY <1>2, <2>2 DEF Found
<1> QED BY <1>1, <1>2 DEF Found, Dir

\* A step of p that keeps the sources does nothing to the other calls.
LEMMA OthersFind ==
  ASSUME FindInv, Typed', Kept, NoBrokenPyc', HalfOK', NEW p \in Procs, Apart(p), met \subseteq met',
         \A q \in Procs \ {p} : call'[q] = call[q] /\ cmd'[q] = cmd[q] /\ since'[q] = since[q],
         UNCHANGED edits, since' \in [Procs -> Nat], since'[p] <= edits,
         p \notin met' /\ ~Usage(call'[p]) /\ since'[p] = edits => Found(p)'
  PROVE  FindInv'
<1>1. ASSUME NEW q \in Procs \ {p}, q \notin met', pc'[q] # "start", ~Usage(call'[q]),
             since'[q] = edits
      PROVE  Found(q)'
  BY <1>1, KeptFound DEF FindInv, Apart
<1> QED BY <1>1 DEF FindInv

\* The half-written files where p does nothing to the directories.
LEMMA HalfUnchanged ==
  ASSUME HalfOK, UNCHANGED dirs, NEW p \in Procs, Apart(p), pc'[p] # "compile",
         pc[p] \notin {"compile", "ended"} \/ pc'[p] = "ended"
  PROVE  HalfOK'
BY DEF HalfOK, Apart

LEMMA StartFind == ASSUME FindInv, NEW p \in Procs, Start(p) PROVE FindInv'
<1>1. PICK c \in Calls : /\ call' = [call EXCEPT ![p] = c]
                         /\ IF Usage(c) THEN Exit(p, 1)
                                        ELSE Goto(p, "list", Lookup(SearchPath(c)))
  BY DEF Start
<1>3. call'[p] = c /\ pc[p] = "start"
  BY <1>1 DEF FindInv, Typed, Start, At
<1>4. Apart(p) /\ pc'[p] \in {"list", "ended"}
  BY <1>1, <1>3, GotoControl, ExitControl, LookupIsLook DEF Places, FindInv
<1>2. Typed' /\ Kept /\ NoBrokenPyc' /\ HalfOK' /\ UNCHANGED met
  BY <1>3, <1>4, StartTyped, KeptUnchanged, HalfUnchanged DEF FindInv, Start, NoBrokenPyc
<1>5. ASSUME ~Usage(c) PROVE Found(p)'
  <2>1. pc'[p] = "list" /\ look'[p] = Lookup(SearchPath(c))
    BY <1>1, <1>3, <1>5, GotoControl, LookupIsLook DEF Places, FindInv
  <2> QED BY <1>3, <2>1 DEF Found, Lookup
<1> QED BY <1>1, <1>2, <1>3, <1>4, <1>5, OthersFind DEF FindInv, Start, Typed

LEMMA ListFind == ASSUME FindInv, NEW p \in Procs, List(p) PROVE FindInv'
<1> DEFINE d == Head(look[p].path)
           l == [look[p] EXCEPT !.listed = DOMAIN dirs[d], !.last = None]
<1>1. IsLook(l) /\ pc[p] = "list" /\ UNCHANGED <<call, cmd, since, edits, dirs>>
  BY DEF FindInv, Typed, LookOK, IsLook, List, At
<1>3. \/ d \in Dirs /\ Goto(p, "load", l)
      \/ d \notin Dirs /\ Exit(p, 1)
  BY DEF List
<1>4. Apart(p) /\ pc'[p] \in {"load", "ended"}
  BY <1>1, <1>3, GotoControl, ExitControl DEF Places, FindInv
<1>2. Typed' /\ Kept /\ NoBrokenPyc' /\ HalfOK' /\ UNCHANGED met
  BY <1>1, <1>4, ListTyped, KeptUnchanged, HalfUnchanged DEF FindInv, NoBrokenPyc, List
<1>5. ASSUME Found(p) PROVE Found(p)'
  <2>1. CASE Hopeless(Dir(p), call[p].x)
    BY <2>1, <1>1, <1>2, KeptHopeless DEF Found, Dir
  <2>2. CASE look[p].path = SearchPath(call[p]) /\ d \notin Dirs
    <3>1. Hopeless(Dir(p), call[p].x)
      BY <2>2 DEF Hopeless, Dir
    <3> QED BY <3>1, <2>1
  <2>3. CASE look[p].path = SearchPath(call[p]) /\ Goto(p, "load", l)
    <3>1. pc'[p] = "load" /\ look'[p] = l
      BY <1>1, <2>3, GotoControl DEF Places, FindInv
    <3>2. /\ l.path = look[p].path /\ l.listed = DOMAIN dirs[d] /\ l.last = None
      BY DEF FindInv, Typed, LookOK
    <3> HIDE DEF l
    <3>3. Dir(p)' = d /\ Dir(p) = d /\ Sources(Dir(p))' \subseteq DOMAIN dirs[d]
      BY <1>1, <2>3 DEF Dir, Sources
    <3>4. Listing(p)'
      BY <1>1, <2>3, <3>1, <3>2, <3>3 DEF Listing
    <3> QED BY <3>1, <3>4 DEF Found
  <2>4. status[p] # Killed
    BY <1>1, FilesAssumption DEF FindInv, Typed, CallOK, FilesOK
  <2> QED BY <1>1, <1>3, <1>5, <2>1, <2>2, <2>3, <2>4 DEF Found
<1> QED BY <1>1, <1>2, <1>4, <1>5, OthersFind DEF FindInv

\* Only code that compiled gets into a compiled file.
LEMMA NoBrokenPut ==
  ASSUME Typed, NoBrokenPyc, NEW d, NEW a, NEW code, code # Broken \/ a[2] # "pyc",
         dirs' = [dirs EXCEPT ![d] = Put(@, a, code)]
  PROVE  NoBrokenPyc'
<1> SUFFICES ASSUME NEW e \in Dirs, NEW f \in DOMAIN dirs'[e], f[2] = "pyc"
             PROVE  dirs'[e][f] # Broken
  BY DEF NoBrokenPyc
<1>1. CASE e # d
  BY <1>1 DEF Typed, NoBrokenPyc
<1>2. CASE e = d
  <2>1. dirs'[e] = Put(dirs[e], a, code)
    BY <1>2 DEF Typed
  <2> QED BY <2>1 DEF Put, NoBrokenPyc
<1> QED BY <1>1, <1>2

(* A call on a directory that is not hopeless: a file that does not load   *)
(* is a source that gives nothing.                                         *)
LEMMA LoadsWell ==
  ASSUME FindInv, NEW d \in Dirs, NEW f \in DOMAIN dirs[d], NEW x, f[2] # "txt",
         ~Hopeless(d, x), ~Half(d, f)
  PROVE  /\ Loads(d, f)
         /\ f \in Sources(d) => Gives(d, f, x)
         /\ f \notin Sources(d) => f[2] = "pyc" /\ <<f[1], "py">> \in Sources(d)
<1>1. f \in Modules \X Exts
  BY DEF FindInv, Typed
<1>2. f[2] \in {"py", "pyc"}
  BY <1>1 DEF Exts
<1>3. f \in Sources(d) => Gives(d, f, x)
  BY DEF Hopeless
<1>4. f \notin Sources(d) => f[2] = "pyc" /\ <<f[1], "py">> \in Sources(d)
  BY <1>2 DEF Sources
<1>5. Loads(d, f)
  BY <1>2, <1>3, <1>4 DEF Loads, Gives, Half, FindInv, NoBrokenPyc
<1> QED BY <1>3, <1>4, <1>5

\* The turn of the loop, in a directory that is not hopeless.
LEMMA LoadListing ==
  ASSUME FindInv, NEW p \in Procs, NEW f, Load(p, f), Listing(p),
         ~Hopeless(Dir(p), call[p].x)
  PROVE  p \in met' \/ (pc'[p] \in {"load", "compile"} /\ Listing(p)')
<1> DEFINE d == Dir(p)
           x == call[p].x
           rest == [look[p] EXCEPT !.listed = @ \ {f}]
           loaded == [rest EXCEPT !.last = f[1], !.code = dirs[d][f],
                                  !.mods[f[1]] = Executed(dirs[d][f], @)]
<1>1. d = Head(look[p].path) /\ d \in Dirs /\ ~Hopeless(d, x)
  BY DEF Listing, Dir, Hopeless
<1>2. /\ pc[p] = "load" /\ f \in look[p].listed /\ f \in DOMAIN dirs[d]
      /\ look[p].listed \subseteq DOMAIN dirs[d]
  BY DEF Load, Listing, At
<1>3. Kept /\ UNCHANGED <<call>>
  BY LoadKept DEF FindInv, Load
<1>4. /\ Dir(p)' = Dir(p) /\ Sources(Dir(p))' = Sources(Dir(p)) /\ call'[p].x = call[p].x
      /\ DOMAIN dirs[Dir(p)] \subseteq DOMAIN dirs'[Dir(p)]
      /\ \A g \in Sources(Dir(p)) : Current(Dir(p), g) => Current(Dir(p), g)'
  BY <1>1, <1>3 DEF Dir, Kept
<1>5. CASE f[2] = "txt"
  <2>1. Goto(p, "load", rest)
    BY <1>5, <1>1, LoadCases
  <2>2. IsLook(rest)
    BY DEF FindInv, Typed, LookOK, IsLook
  <2>3. pc'[p] = "load" /\ look'[p] = rest
    BY <1>2, <2>1, <2>2, GotoControl DEF Places, FindInv
  <2>4. /\ rest.path = look[p].path /\ rest.last = look[p].last /\ rest.mods = look[p].mods
        /\ rest.listed = look[p].listed \ {f}
    BY DEF FindInv, Typed, LookOK
  <2>5. f \notin Sources(Dir(p)) /\ \A m : f # <<m, "py">>
    BY <1>5 DEF Sources
  <2> HIDE DEF rest
  <2>6. Listing(p)'
    BY <1>2, <1>3, <1>4, <2>3, <2>4, <2>5 DEF Listing
  <2> QED BY <2>3, <2>6
<1>6. CASE f[2] # "txt" /\ Half(d, f)
  <2>1. ~Loads(d, f)
    BY <1>6 DEF Half, Loads
  <2> QED BY <1>1, <1>6, <2>1, LoadCases
<1>7. CASE f[2] # "txt" /\ ~Half(d, f)
  <2>1. /\ Loads(d, f)
        /\ f \in Sources(d) => Gives(d, f, x)
        /\ f \notin Sources(d) => f[2] = "pyc" /\ <<f[1], "py">> \in Sources(d)
    BY <1>1, <1>2, <1>7, LoadsWell
  <2>2. \/ /\ f[2] = "pyc" \/ UpToDate(d, f)
           /\ Goto(p, "load", loaded) /\ UNCHANGED dirs
        \/ /\ f[2] = "py" /\ Goto(p, "compile", loaded)
           /\ dirs' = [dirs EXCEPT ![d] = Put(@, Pyc(f[1]), p)]
    BY <1>1, <1>7, <2>1, LoadCases
  <2>3. IsLook(rest)
    BY DEF FindInv, Typed, LookOK, IsLook
  <2>4. IsLook(loaded)
    BY <2>3 DEF IsLook
  <2>5. f \in Modules \X Exts
    BY <1>1, <1>2 DEF FindInv, Typed
  <2>6. f[1] \in Modules /\ f = <<f[1], f[2]>>
    BY <2>5
  <2>7. pc'[p] \in {"load", "compile"} /\ look'[p] = loaded
    BY <1>2, <2>2, <2>4, GotoControl DEF Places, FindInv
  <2>8. /\ loaded.path = look[p].path /\ loaded.last = f[1] /\ loaded.listed = look[p].listed \ {f}
        /\ loaded.mods[f[1]] = Executed(dirs[d][f], look[p].mods[f[1]])
        /\ loaded.code = dirs[d][f]
    BY <2>6 DEF FindInv, Typed, LookOK
  <2>9. f[1] # None
    BY <2>6, FilesAssumption DEF FilesOK
  <2> HIDE DEF rest, loaded
  <2>10. Current(Dir(p), f)'
    <3>1. CASE f[2] = "pyc" /\ UNCHANGED dirs
      <4>1. Pyc(f[1]) = f
        BY <2>6, <3>1 DEF Pyc
      <4> QED BY <1>2, <1>4, <3>1, <4>1 DEF Current
    <3>2. CASE UpToDate(d, f) /\ UNCHANGED dirs
      BY <1>4, <3>2 DEF UpToDate, Current
    <3>3. CASE /\ f[2] = "py" /\ Goto(p, "compile", loaded)
               /\ dirs' = [dirs EXCEPT ![d] = Put(@, Pyc(f[1]), p)]
      <4>1. dirs'[d] = Put(dirs[d], Pyc(f[1]), p)
        BY <1>1, <3>3 DEF FindInv, Typed
      <4>2. Pyc(f[1]) # f
        BY <3>3 DEF Pyc
      <4>3. /\ Pyc(f[1]) \in DOMAIN dirs'[d] /\ dirs'[d][Pyc(f[1])] = p
            /\ dirs'[d][f] = dirs[d][f]
        BY <1>2, <4>1, <4>2 DEF Put
      <4>4. look'[p].code = dirs'[d][f]
        BY <2>7, <2>8, <4>3
      <4> QED BY <1>4, <4>3, <4>4 DEF Current, Becomes
    <3> QED BY <2>2, <3>1, <3>2, <3>3
  <2>11. Gives(d, f, x) \/ (f[2] = "pyc" /\ <<f[1], "py">> \in look[p].listed)
    <3>1. CASE f \notin Sources(d) /\ <<f[1], "py">> \notin look[p].listed
      <4> DEFINE s == <<f[1], "py">>
      <4>1. s \in Sources(d) /\ s[1] = f[1] /\ f = <<f[1], "pyc">>
        BY <3>1, <2>1, <2>6
      <4>2. Current(d, s)
        BY <3>1, <4>1 DEF Listing
      <4>4. dirs[d][f] \notin Procs
        BY <1>2, <1>7 DEF Half
      <4>5. Pyc(s[1]) = f
        BY <4>1 DEF Pyc
      <4>6. dirs[d][f] = dirs[d][s]
        BY <4>2, <4>4, <4>5 DEF Current, Becomes
      <4>7. ~Half(d, s)
        BY <4>4, <4>6 DEF Half
      <4> QED BY <1>1, <4>1, <4>6, <4>7 DEF Hopeless, Gives
    <3> QED BY <3>1, <2>1
  <2>12. ASSUME Gives(d, f, x)
         PROVE  x \in DOMAIN loaded.mods[f[1]] /\ loaded.mods[f[1]][x] \in Classes
    BY <2>8, <2>12 DEF Gives, Executed
  <2>13. f[2] = "pyc" => f # <<f[1], "py">>
    BY <2>6
  <2>14. Listing(p)'
    <3>1. \A g \in Sources(Dir(p))' : g \in look'[p].listed \/ Current(Dir(p), g)'
      BY <1>4, <2>7, <2>8, <2>10 DEF Listing
    <3>2. \/ <<f[1], "py">> \in look'[p].listed
          \/ /\ call'[p].x \in DOMAIN look'[p].mods[f[1]]
             /\ look'[p].mods[f[1]][call'[p].x] \in Classes
      BY <1>4, <2>7, <2>8, <2>11, <2>12, <2>13
    <3> QED BY <1>2, <1>3, <1>4, <2>7, <2>8, <2>9, <3>1, <3>2 DEF Listing
  <2> QED BY <2>7, <2>14
<1> QED BY <1>5, <1>6, <1>7

LEMMA LoadFind == ASSUME FindInv, NEW p \in Procs, NEW f, Load(p, f) PROVE FindInv'
<1> DEFINE d == Head(look[p].path)
           rest == [look[p] EXCEPT !.listed = @ \ {f}]
           loaded == [rest EXCEPT !.last = f[1], !.code = dirs[d][f],
                                  !.mods[f[1]] = Executed(dirs[d][f], @)]
<1>1. /\ Typed' /\ Kept /\ Apart(p) /\ UNCHANGED <<call, cmd, since, edits>> /\ pc[p] = "load"
      /\ (pc'[p] = "compile" \/ UNCHANGED dirs)
  BY LoadTyped, LoadKept, LoadControl DEF FindInv, Load, At
<1>2. met \subseteq met'
  BY LoadCases
<1>3. NoBrokenPyc' /\ HalfOK'
  <2>1. CASE pc'[p] # "compile"
    BY <1>1, <2>1, HalfUnchanged DEF FindInv, NoBrokenPyc
  <2>2. CASE pc'[p] = "compile"
    <3>1. IsLook(rest) /\ IsLook(loaded)
      BY DEF FindInv, Typed, LookOK, IsLook
    <3>2. loaded.code = dirs[d][f] /\ loaded.path = look[p].path /\ loaded.last = f[1]
      BY DEF FindInv, Typed, LookOK
    <3> HIDE DEF d, rest, loaded
    <3>3. /\ f[2] = "py" /\ Loads(d, f) /\ Goto(p, "compile", loaded)
          /\ dirs' = [dirs EXCEPT ![d] = Put(@, Pyc(f[1]), p)]
      <4>1. ~Goto(p, "load", rest) /\ ~Goto(p, "load", loaded) /\ ~NextDir(p)
        BY <1>1, <2>2, <3>1, GotoControl, NextDirControl DEF Places, FindInv
      <4> QED BY <4>1, LoadCases DEF d, rest, loaded
    <3>4. look'[p] = loaded
      BY <1>1, <3>1, <3>3, GotoControl DEF Places, FindInv
    <3>5. NoBrokenPyc'
      <4>1. p # Broken
        BY FilesAssumption DEF FilesOK
      <4> QED BY <3>3, <4>1, NoBrokenPut DEF FindInv
    <3>6. \A e \in Dirs : dirs'[e] = IF e = d THEN Put(dirs[d], Pyc(f[1]), p) ELSE dirs[e]
      BY <3>3 DEF FindInv, Typed
    <3>7. \A e \in Dirs : \A g \in DOMAIN dirs'[e] :
            \/ e = d /\ g = Pyc(f[1]) /\ dirs'[e][g] = p
            \/ g \in DOMAIN dirs[e] /\ dirs'[e][g] = dirs[e][g]
      <4>1. ASSUME NEW e \in Dirs, NEW g \in DOMAIN dirs'[e], e = d
            PROVE  \/ g = Pyc(f[1]) /\ dirs'[e][g] = p
                   \/ g \in DOMAIN dirs[e] /\ dirs'[e][g] = dirs[e][g]
        <5>1. dirs'[e] = Put(dirs[e], Pyc(f[1]), p)
          BY <3>6, <4>1
        <5> DEFINE a == Pyc(f[1])
        <5> HIDE DEF a
        <5>2. dirs'[e] = Put(dirs[e], a, p)
          BY <5>1 DEF a
        <5>3. (g = a /\ dirs'[e][g] = p) \/ (g \in DOMAIN dirs[e] /\ dirs'[e][g] = dirs[e][g])
          <6>1. g \in DOMAIN Put(dirs[e], a, p)
            BY <4>1, <5>2
          <6> QED BY <6>1, <5>2, PutAt
        <5> QED BY <5>3 DEF a
      <4> QED BY <3>6, <4>1
    <3>8. \A e \in Dirs : \A g \in DOMAIN dirs[e] : dirs[e][g] # p
      BY <1>1 DEF FindInv, HalfOK
    <3>9. d = Head(look'[p].path) /\ look'[p].last = f[1]
      BY <3>2, <3>4 DEF d
    <3>10. look'[p].code \notin Procs \cup {Broken}
      BY <3>2, <3>3, <3>4 DEF Loads
    <3>11. ASSUME NEW e \in Dirs, NEW g \in DOMAIN dirs'[e], NEW q \in Procs, dirs'[e][g] = q
           PROVE  \/ pc'[q] = "ended"
                  \/ pc'[q] = "compile" /\ e = Head(look'[q].path) /\ g = Pyc(look'[q].last)
      <4>1. CASE e = d /\ g = Pyc(f[1]) /\ q = p
        BY <2>2, <3>9, <4>1
      <4>2. CASE g \in DOMAIN dirs[e] /\ dirs[e][g] = q /\ q # p
        BY <1>1, <4>2 DEF FindInv, HalfOK, Apart
      <4> QED BY <3>7, <3>8, <3>11, <4>1, <4>2
    <3>12. HalfOK'
      BY <1>1, <3>10, <3>11 DEF FindInv, HalfOK, Apart
    <3> QED BY <3>5, <3>12
  <2> QED BY <2>1, <2>2
<1>4. p \notin met' /\ Found(p) => Found(p)'
  <2>1. status[p] # Killed
    BY <1>1, FilesAssumption DEF FindInv, Typed, CallOK, FilesOK
  <2> QED BY <1>1, <2>1, KeptHopeless, LoadListing DEF Found, Dir
<1> QED BY <1>1, <1>2, <1>3, <1>4, OthersFind DEF FindInv

LEMMA CompiledFind == ASSUME FindInv, NEW p \in Procs, Compiled(p) PROVE FindInv'
<1> DEFINE d == Head(look[p].path)
           c == Pyc(look[p].last)
<1>1. /\ Typed' /\ Kept /\ UNCHANGED <<call, cmd, since, edits, met>>
      /\ Apart(p) /\ pc[p] = "compile" /\ pc'[p] = "load" /\ look'[p] = look[p]
      /\ status'[p] = None
  BY CompiledTyped, CompiledKept, CompiledControl DEF FindInv, Compiled
<1>2. \A e \in Dirs : \A g \in DOMAIN dirs'[e] :
        /\ g \in DOMAIN dirs[e]
        /\ dirs'[e][g] = IF e = d /\ g = c /\ dirs[e][g] = p THEN look[p].code ELSE dirs[e][g]
  BY CompiledDirs DEF FindInv
<1>3. look[p].code \notin Procs \cup {Broken}
  BY <1>1 DEF FindInv, HalfOK
<1>4. NoBrokenPyc'
  BY <1>2, <1>3 DEF FindInv, NoBrokenPyc
<1>5. ASSUME NEW e \in Dirs, NEW g \in DOMAIN dirs'[e], NEW q \in Procs, dirs'[e][g] = q
      PROVE  \/ pc'[q] = "ended"
             \/ pc'[q] = "compile" /\ e = Head(look'[q].path) /\ g = Pyc(look'[q].last)
  <2>1. g \in DOMAIN dirs[e] /\ dirs[e][g] = q /\ ~(e = d /\ g = c /\ q = p)
    BY <1>2, <1>3, <1>5
  <2>2. q # p
    BY <1>1, <2>1 DEF FindInv, HalfOK
  <2> QED BY <1>1, <2>1, <2>2 DEF FindInv, HalfOK, Apart
<1>6. HalfOK'
  BY <1>1, <1>5 DEF FindInv, HalfOK, Apart
<1>7. ASSUME Found(p) PROVE Found(p)'
  <2>1. CASE Hopeless(Dir(p), call[p].x)
    BY <1>1, <2>1, KeptHopeless DEF Found, Dir
  <2>2. CASE Listing(p) /\ ~Hopeless(Dir(p), call[p].x)
    <3>1. Dir(p) \in Dirs /\ Dir(p)' = Dir(p)
      BY <1>1, <2>2 DEF Hopeless, Dir
    <3>2. Listing(p)'
      BY <1>1, <2>2, <3>1 DEF Listing, Kept
    <3> QED BY <1>1, <3>2 DEF Found
  <2>3. status[p] # Killed
    BY <1>1, FilesAssumption DEF FindInv, Typed, CallOK, FilesOK
  <2> QED BY <1>1, <1>7, <2>1, <2>2, <2>3 DEF Found
<1> QED BY <1>1, <1>4, <1>6, <1>7, OthersFind DEF FindInv

LEMMA LookFind == ASSUME FindInv, NEW p \in Procs, Look(p) PROVE FindInv'
<1> DEFINE m == look[p].last
           x == call[p].x
           has == m # None /\ x \in DOMAIN look[p].mods[m]
           gives == IF has THEN look[p].mods[m][x] ELSE None
<1>1. Typed' /\ UNCHANGED <<call, since, edits, dirs, met>> /\ pc[p] = "load"
  BY LookTyped DEF FindInv, Look, At
<1>2. look[p].listed = {}
      /\ \/ (m = None \/ gives = "raises") /\ Exit(p, 1) /\ UNCHANGED cmd
         \/ m # None /\ (~has \/ gives = "None") /\ NextDir(p) /\ UNCHANGED cmd
         \/ /\ gives \in Classes
            /\ cmd' = [cmd EXCEPT ![p] = gives] /\ Goto(p, "execute", Lookup(<<>>))
  BY DEF Look
<1>3. /\ Apart(p) /\ \A q \in Procs \ {p} : cmd'[q] = cmd[q]
      /\ Kept /\ NoBrokenPyc' /\ HalfOK'
  <2>1. Apart(p) /\ pc'[p] \in {"list", "execute", "ended"}
    BY <1>1, <1>2, GotoControl, ExitControl, NextDirControl, LookupIsLook DEF Places, FindInv
  <2>2. Kept /\ NoBrokenPyc' /\ HalfOK'
    BY <1>1, <2>1, KeptUnchanged, HalfUnchanged DEF FindInv, NoBrokenPyc
  <2> QED BY <1>2, <2>1, <2>2 DEF FindInv, Typed
<1>4. ASSUME Found(p) PROVE Found(p)'
  <2>1. CASE Hopeless(Dir(p), call[p].x)
    BY <2>1, <1>1, <1>3, KeptHopeless DEF Found, Dir
  <2>2. CASE Listing(p) /\ ~Hopeless(Dir(p), call[p].x)
    <3>1. PICK g : g \in Sources(Dir(p))
      BY <2>2 DEF Hopeless
    <3>2. m # None
      BY <1>2, <2>2, <3>1 DEF Listing
    <3>3. has /\ gives \in Classes
      BY <1>2, <2>2, <3>2 DEF Listing
    <3>4. gives # "raises" /\ gives # "None"
      BY <3>3 DEF Classes
    <3>5. cmd' = [cmd EXCEPT ![p] = gives] /\ Goto(p, "execute", Lookup(<<>>))
      BY <1>2, <3>2, <3>3, <3>4
    <3>6. pc'[p] = "execute"
      BY <1>1, <3>5, GotoControl, LookupIsLook DEF Places, FindInv
    <3>7. cmd'[p] # None
      BY <3>3, <3>5, FilesAssumption DEF FindInv, Typed, FilesOK
    <3> QED BY <3>6, <3>7 DEF Found
  <2>3. status[p] # Killed
    BY <1>1, FilesAssumption DEF FindInv, Typed, CallOK, FilesOK
  <2> QED BY <1>1, <1>4, <2>1, <2>2, <2>3 DEF Found
<1> QED BY <1>1, <1>3, <1>4, OthersFind DEF FindInv

\* Once the command is found it stays.
LEMMA AfterFind ==
  ASSUME FindInv, Typed', NEW p \in Procs, Apart(p),
         UNCHANGED <<dirs, call, cmd, since, edits, met>>,
         \/ {pc[p], pc'[p]} \subseteq {"execute", "open", "write", "ended"} /\ pc[p] # "ended"
         \/ pc'[p] = "ended" /\ status'[p] = Killed
  PROVE  FindInv'
<1>1. pc'[p] # "compile" /\ (pc[p] \notin {"compile", "ended"} \/ pc'[p] = "ended")
  OBVIOUS
<1>2. NoBrokenPyc' /\ HalfOK' /\ Kept
  BY <1>1, KeptUnchanged, HalfUnchanged DEF FindInv, NoBrokenPyc
<1>3. pc[p] = "start" \/ Found(p) => Found(p)'
  <2>1. CASE status'[p] = Killed
    BY <2>1 DEF Found
  <2>2. CASE {pc[p], pc'[p]} \subseteq {"execute", "open", "write", "ended"} /\ pc[p] # "ended"
    <3>1. status[p] # Killed
      BY <2>2, FilesAssumption DEF FindInv, Typed, CallOK, FilesOK
    <3> QED BY <1>2, <2>2, <3>1, KeptHopeless DEF Found, Dir
  <2> QED BY <2>1, <2>2
<1> QED BY <1>2, <1>3, OthersFind DEF FindInv

LEMMA ExecuteFind == ASSUME FindInv, NEW p \in Procs, Execute(p) PROVE FindInv'
<1>1. pc[p] = "execute" /\ UNCHANGED <<dirs, call, cmd, since, edits, met>>
  BY DEF Execute, At
<1>2. Exit(p, 0) \/ Exit(p, 1) \/ Goto(p, "open", look[p])
  BY DEF Execute
<1>3. Apart(p) /\ pc'[p] \in {"open", "ended"}
  BY <1>1, <1>2, GotoControl, ExitControl DEF Places, Typed, LookOK, IsLook, FindInv
<1> QED BY <1>1, <1>3, ExecuteTyped, AfterFind DEF FindInv

LEMMA OpenFind == ASSUME FindInv, NEW p \in Procs, Open(p) PROVE FindInv'
<1>1. pc[p] = "open" /\ UNCHANGED <<dirs, call, cmd, since, edits, met>>
  BY DEF Open, At
<1>2. Exit(p, 1) \/ Goto(p, "write", look[p])
  BY DEF Open
<1>3. Apart(p) /\ pc'[p] \in {"write", "ended"}
  BY <1>1, <1>2, GotoControl, ExitControl DEF Places, Typed, LookOK, IsLook, FindInv
<1> QED BY <1>1, <1>3, OpenTyped, AfterFind DEF FindInv

LEMMA WriteKillFind == ASSUME FindInv, NEW p \in Procs, Write(p) \/ Kill(p) PROVE FindInv'
<1>1. /\ UNCHANGED <<dirs, call, cmd, since, edits, met>>
      /\ \/ pc[p] = "write" /\ \E code \in {0, 1} : Exit(p, code)
         \/ Exit(p, Killed)
  BY DEF Write, Kill, At
<1>2. Apart(p) /\ pc'[p] = "ended" /\ (pc[p] = "write" \/ status'[p] = Killed)
  BY <1>1, ExitControl DEF FindInv
<1> QED BY <1>1, <1>2, WriteTyped, KillTyped, AfterFind DEF FindInv

LEMMA EditFind ==
  ASSUME FindInv, NEW d \in Dirs, NEW m \in Modules, Edit(d, m)
  PROVE  FindInv'
<1>1. UNCHANGED <<pc, look, call, since>> /\ edits' = edits + 1
  BY DEF Edit, progVars
<1>4. HalfOK'
  <2>1. \A e \in Dirs : \A g \in DOMAIN dirs'[e] :
          dirs'[e][g] \in Procs => g \in DOMAIN dirs[e] /\ dirs'[e][g] = dirs[e][g]
    <3>1. CASE \E code \in Codes \cup {Broken} :
                 dirs' = [dirs EXCEPT ![d] = Put(@, <<m, "py">>, code)]
      <4>1. PICK code \in Codes \cup {Broken} :
                 dirs' = [dirs EXCEPT ![d] = Put(@, <<m, "py">>, code)]
        BY <3>1
      <4>2. code \notin Procs
        BY FilesAssumption DEF FilesOK
      <4>3. \A e \in Dirs : dirs'[e] = IF e = d THEN Put(dirs[d], <<m, "py">>, code) ELSE dirs[e]
        BY <4>1 DEF FindInv, Typed
      <4> QED BY <4>2, <4>3 DEF Put
    <3>2. CASE \E f \in DOMAIN dirs[d] :
                 f[1] = m /\ dirs' = [dirs EXCEPT ![d] = [g \in DOMAIN @ \ {f} |-> @[g]]]
      <4>1. PICK f : dirs' = [dirs EXCEPT ![d] = [g \in DOMAIN @ \ {f} |-> @[g]]]
        BY <3>2
      <4> QED BY <4>1 DEF FindInv, Typed
    <3> QED BY <3>1, <3>2 DEF Edit
  <2> QED BY <1>1, <2>1 DEF FindInv, HalfOK
<1>2. NoBrokenPyc'
  <2>1. CASE \E code \in Codes \cup {Broken} :
               dirs' = [dirs EXCEPT ![d] = Put(@, <<m, "py">>, code)]
    <3>1. <<m, "py">>[2] # "pyc"
      OBVIOUS
    <3> QED BY <2>1, <3>1, NoBrokenPut DEF FindInv
  <2>2. CASE \E f \in DOMAIN dirs[d] :
               f[1] = m /\ dirs' = [dirs EXCEPT ![d] = [g \in DOMAIN @ \ {f} |-> @[g]]]
    <3>1. PICK f : dirs' = [dirs EXCEPT ![d] = [g \in DOMAIN @ \ {f} |-> @[g]]]
      BY <2>2
    <3>2. \A e \in Dirs : \A g \in DOMAIN dirs'[e] :
            g \in DOMAIN dirs[e] /\ dirs'[e][g] = dirs[e][g]
      BY <3>1 DEF FindInv, Typed
    <3> QED BY <3>2 DEF FindInv, NoBrokenPyc
  <2> QED BY <2>1, <2>2 DEF Edit
<1>3. edits' \in Nat /\ \A p \in Procs : since'[p] <= edits' /\ since'[p] # edits'
  BY <1>1 DEF FindInv
<1> QED BY <1>1, <1>2, <1>3, <1>4, EditTyped DEF FindInv

LEMMA SameFind == ASSUME FindInv, UNCHANGED vars PROVE FindInv'
<1>1. UNCHANGED <<dirs, file, pc, call, look, cmd, buff, status, edits, since, met>>
  BY DEF vars, progVars
<1>2. Typed' /\ NoBrokenPyc' /\ HalfOK'
  BY <1>1 DEF FindInv, Typed, LookOK, CallOK, NoBrokenPyc, HalfOK
<1>3. Kept
  BY <1>1 DEF Kept, Sources, Current, Becomes
<1>4. \A p \in Procs : Found(p) => Found(p)'
  BY <1>1, <1>3, KeptFound DEF FindInv
<1> QED BY <1>1, <1>2, <1>4 DEF FindInv

LEMMA FoundWhenAllGiveHolds == FindInv => FoundWhenAllGive
<1> SUFFICES ASSUME FindInv, NEW p \in Procs \ met, pc[p] = "ended", status[p] # Killed, ~Usage(call[p]), since[p] = edits,
                    Dir(p) \in Dirs,
                    NEW f \in DOMAIN dirs[Dir(p)], f[2] # "txt",
                    \A g \in DOMAIN dirs[Dir(p)] : g[2] # "txt" => Gives(Dir(p), g, call[p].x)
             PROVE  cmd[p] # None
  BY DEF FoundWhenAllGive, At, Dir
<1>1. Found(p)
  BY DEF FindInv
<1>2. \A g \in Sources(Dir(p)) : Gives(Dir(p), g, call[p].x)
  BY DEF Sources
<1>3. f[2] \in {"py", "pyc"}
  BY DEF FindInv, Typed, Exts
<1>4. f \in Sources(Dir(p)) \/ <<f[1], "py">> \in Sources(Dir(p))
  <2>1. <<f[1], "py">>[1] = f[1] /\ <<f[1], "py">>[2] = "py"
    OBVIOUS
  <2> QED BY <1>3, <2>1 DEF Sources
<1> QED BY <1>1, <1>2, <1>4 DEF Found, Hopeless

(* A call finds its command where every module file gives it, whatever the *)
(* order of listdir and whatever other calls compile meanwhile, unless it  *)
(* comes upon a .pyc in the middle of being written.                       *)
THEOREM CommandIsFound == Spec => []FoundWhenAllGive
<1>1. FindInv /\ [Next]_vars => FindInv'
  BY StartFind, ListFind, LoadFind, CompiledFind, LookFind, ExecuteFind, OpenFind, WriteKillFind, EditFind,
  SameFind
     DEF Next, Step
<1> QED BY InitFind, FoundWhenAllGiveHolds, <1>1, PTL DEF Spec
------------------------------------------------------------------------------
(* InotifyLoop. *)

\* The events of the kernel; those of a creation have a name.
Whats == {"create", "attrib", "delete", "delete_self", "ignored", "overflow", "none"}
Events == {e \in [on : Paths \cup {NoName}, what : Whats, dir : BOOLEAN, name : Names \cup {NoName}] :
             e.what = "create" => e.name # NoName}
Waiting == ToSet(queue) \cup (IF place = "first" THEN {pevent} ELSE {})

\* The entries of the watch point are the paths of one name.
LEMMA PathNames ==
  ASSUME NEW p \in Paths, p # <<>>
  PROVE  /\ Last(p) \in Names /\ p \in Seq(Names)
         /\ Front(p) = <<>> => Len(p) = 1 /\ p = <<Last(p)>>
         /\ Len(p) = 1 => Front(p) = <<>> /\ p = <<Last(p)>>
<1>1. p \in Seq(Names)
  BY WatchAssumption DEF WatchOK
<1>2. Len(p) \in Nat \ {0} /\ Last(p) = p[Len(p)] /\ Last(p) \in Names
  BY <1>1 DEF Last
<1>3. Front(p) \in Seq(Names) /\ Len(Front(p)) = Len(p) - 1
  <2>1. Front(p) = SubSeq(p, 1, Len(p) - 1) /\ Len(p) - 1 \in Nat
    BY <1>2 DEF Front
  <2>2. \A i \in 1..Len(p) - 1 : i \in 1..Len(p) /\ p[i] \in Names
    BY <1>1, <1>2
  <2>3. 1 \in Int /\ Len(p) - 1 \in Int /\ \A i \in 1..Len(p) - 1 : p[i] \in Names
    BY <2>1, <2>2
  <2>4. /\ Front(p) \in Seq(Names)
        /\ Len(Front(p)) = IF 1 <= Len(p) - 1 THEN Len(p) - 1 - 1 + 1 ELSE 0
    BY <2>1, <2>3, SubSeqProperties
  <2> DEFINE n == Len(p)
             m == Len(Front(p))
  <2>5. n \in Nat \ {0} /\ m = IF 1 <= n - 1 THEN n - 1 - 1 + 1 ELSE 0
    BY <1>2, <2>4
  <2> HIDE DEF n, m
  <2>6. m = n - 1
    BY <2>5
  <2> QED BY <2>4, <2>6 DEF n, m
<1>4. Len(p) = 1 => p = <<p[1]>>
  BY <1>1
<1>5. Len(p) = 1 <=> Front(p) = <<>>
  BY <1>2, <1>3
<1> QED BY <1>1, <1>2, <1>4, <1>5

\* A path is a prefix of itself, and only itself and <<>> are of one of one name.
LEMMA TopPrefix ==
  ASSUME NEW q \in Seq(Names), NEW t \in Seq(Names), IsPrefix(q, t), q # <<>>, Len(t) = 1
  PROVE  q = t
<1>1. Len(q) = 1 /\ SubSeq(q, 1, Len(q)) = SubSeq(t, 1, Len(q))
  BY DEF IsPrefix
<1>2. SubSeq(q, 1, 1) = SubSeq(t, 1, 1)
  BY <1>1, Zenon
<1>3. q = SubSeq(q, 1, 1) /\ t = SubSeq(t, 1, 1)
  BY <1>1
<1> QED BY <1>2, <1>3, Zenon

LEMMA PrefixOfItself == \A t \in Seq(Names) : IsPrefix(t, t) /\ (IsPrefix(t, <<>>) => t = <<>>)
BY DEF IsPrefix

LEMMA AppendedTo ==
  ASSUME NEW S, NEW s \in Seq(S), NEW x
  PROVE  ToSet(Append(s, x)) = ToSet(s) \cup {x}
<1>1. /\ DOMAIN Append(s, x) = 1..Len(s) + 1 /\ DOMAIN s = 1..Len(s) /\ Len(s) \in Nat
      /\ Append(s, x)[Len(s) + 1] = x /\ \A i \in 1..Len(s) : Append(s, x)[i] = s[i]
  OBVIOUS
<1>2. 1..Len(s) + 1 = (1..Len(s)) \cup {Len(s) + 1}
  BY <1>1
<1> QED BY <1>1, <1>2 DEF ToSet

(* What a change adds to the queue leaves there what is in it, and unless  *)
(* the queue is full it is there then, or was.                             *)
LEMMA QueuedAdds ==
  ASSUME NEW q \in Seq(Events), NEW e \in Events
  PROVE  /\ Queued(q, e) \in Seq(Events) /\ ToSet(q) \subseteq ToSet(Queued(q, e))
         /\ ~Full(q) => e \in ToSet(Queued(q, e))
<1>0. Overflow \in Events
  BY DEF Overflow, Event, Events, Whats
<1>1. ASSUME NEW f \in Events
      PROVE  Append(q, f) \in Seq(Events) /\ ToSet(Append(q, f)) = ToSet(q) \cup {f}
  <2>1. Append(q, f) \in Seq(Events)
    OBVIOUS
  <2>2. ToSet(Append(q, f)) = ToSet(q) \cup {f}
    BY AppendedTo
  <2> QED BY <2>1, <2>2
<1>2. CASE Full(q)
  BY <1>0, <1>1, <1>2 DEF Queued
<1>3. CASE ~Full(q) /\ q # <<>> /\ Last(q) = e
  <2>1. Queued(q, e) = q
    BY <1>3 DEF Queued
  <2>2. e \in ToSet(q)
    BY <1>3 DEF Last, ToSet
  <2> QED BY <2>1, <2>2
<1>4. CASE ~Full(q) /\ ~(q # <<>> /\ Last(q) = e)
  <2>1. Queued(q, e) = Append(q, e)
    BY <1>4 DEF Queued
  <2> QED BY <1>1, <2>1
<1> QED BY <1>2, <1>3, <1>4

LEMMA SelfAdds ==
  ASSUME NEW q \in Seq(Events), watched \subseteq Paths, NEW p, NEW what \in Whats \ {"create"},
         fs \in [Paths -> Kinds]
  PROVE  ToSelf(q, p, what) \in Seq(Events) /\ ToSet(q) \subseteq ToSet(ToSelf(q, p, what))
<1>1. p \in watched => Event(p, what, fs[p] = "dir" /\ what = "attrib", NoName) \in Events
  BY DEF Event, Events
<1> QED BY <1>1, QueuedAdds DEF ToSelf

LEMMA ParentAdds ==
  ASSUME NEW q \in Seq(Events), watched \subseteq Paths, NEW p \in Paths, NEW what \in Whats
  PROVE  /\ ToParent(q, p, what) \in Seq(Events) /\ ToSet(q) \subseteq ToSet(ToParent(q, p, what))
         /\ p # <<>> /\ Front(p) \in watched /\ ~Full(q) =>
              Event(Front(p), what, fs'[p] = "dir" \/ fs[p] = "dir", Last(p))
                \in ToSet(ToParent(q, p, what))
<1>1. p # <<>> /\ Front(p) \in watched =>
        Event(Front(p), what, fs'[p] = "dir" \/ fs[p] = "dir", Last(p)) \in Events
  BY PathNames, WatchAssumption DEF Event, Events, WatchOK
<1> QED BY <1>1, QueuedAdds DEF ToParent

\* The inductive invariant of the watches; Cover is UnwatchedWasOverlooked.
Announced(t) == \E e \in Waiting : IsNewDir(e) /\ e.on = <<>> /\ <<e.name>> = t
Cover ==
  <<>> \in watched /\ place # "ended" =>
    \A p \in Top : fs[p] = "dir" /\ p \notin watched => p \in overlooked \/ Announced(p)
LoopTyped ==
  /\ fs \in [Paths -> Kinds] /\ watched \subseteq Paths /\ overlooked \subseteq Seq(Names)
  /\ place \in {"stat", "watch", "read", "first", "print", "ended"}
  /\ queue \in Seq(Events) /\ pevent \in Events /\ batch \in Seq(Names \cup {NoName})
  /\ place \in {"stat", "watch"} => watched = {}
WatchInv == LoopTyped /\ Cover

LEMMA NoEventTyped == NoEvent \in Events
BY DEF NoEvent, Event, Events, Whats

LEMMA InitWatch == LoopInit => WatchInv
<1> SUFFICES ASSUME LoopInit PROVE WatchInv
  OBVIOUS
<1>1. /\ watched = {} /\ queue = <<>> /\ pevent = NoEvent /\ batch = <<>> /\ overlooked = {}
      /\ place = "stat" /\ fs \in [Paths -> {"none", "dir"}]
  BY DEF LoopInit
<1>2. queue \in Seq(Events) /\ batch \in Seq(Names \cup {NoName}) /\ pevent \in Events
  BY <1>1, NoEventTyped
<1> QED BY <1>1, <1>2 DEF WatchInv, LoopTyped, Cover, Kinds

\* A change of the queue that keeps what is in it.
LEMMA Told ==
  ASSUME NEW q, UNCHANGED <<place, pevent>>, queue' = q, q \in Seq(Events),
         ToSet(queue) \subseteq ToSet(q)
  PROVE  /\ queue' \in Seq(Events) /\ Waiting \subseteq Waiting' /\ ToSet(q) \subseteq Waiting'
         /\ \A t : Announced(t) => Announced(t)'
<1>1. Waiting \subseteq Waiting' /\ ToSet(q) \subseteq Waiting'
  BY DEF Waiting
<1> QED BY <1>1 DEF Announced, IsNewDir

\* What waits does not change when the queue does not.
LEMMA SameWaiting ==
  ASSUME UNCHANGED <<place, queue, pevent>> PROVE \A t : Announced(t) => Announced(t)'
BY DEF Announced, Waiting, IsNewDir

LEMMA MakeWatch ==
  ASSUME WatchInv, NEW p \in Paths, NEW kind \in {"dir", "file"}, Make(p, kind),
         UNCHANGED <<place, printed>>
  PROVE  WatchInv'
<1>0. UNCHANGED <<place, pevent, batch>>
  BY DEF printed
<1>1. /\ fs' = [fs EXCEPT ![p] = kind] /\ UNCHANGED watched
      /\ overlooked' = IF Full(queue) THEN overlooked \cup ({p} \cap Top) ELSE overlooked
  BY DEF Make
<1>2. fs' \in [Paths -> Kinds] /\ overlooked' \subseteq Seq(Names)
  BY <1>1, WatchAssumption DEF WatchInv, LoopTyped, Kinds, WatchOK
<1> DEFINE q == ToParent(queue, p, "create")
           e == Event(Front(p), "create", fs'[p] = "dir" \/ fs[p] = "dir", Last(p))
<1>3. /\ q \in Seq(Events) /\ ToSet(queue) \subseteq ToSet(q)
      /\ p # <<>> /\ Front(p) \in watched /\ ~Full(queue) => e \in ToSet(q)
  BY ParentAdds DEF WatchInv, LoopTyped, Whats
<1>4. /\ queue' \in Seq(Events) /\ ToSet(q) \subseteq Waiting'
      /\ \A t : Announced(t) => Announced(t)'
  <2>1. queue' = q
    BY DEF Make
  <2> HIDE DEF q
  <2> QED BY <1>0, <1>3, <2>1, Told
<1>5. Cover'
  <2> SUFFICES ASSUME <<>> \in watched, place # "ended", NEW t \in Top, fs'[t] = "dir",
                      t \notin watched, t \notin overlooked'
               PROVE  Announced(t)'
    BY <1>0, <1>1 DEF Cover, Top
  <2>1. CASE t # p
    <3>1. fs[t] = "dir" /\ t \notin overlooked
      BY <1>1, <2>1 DEF WatchInv, LoopTyped, Top
    <3> QED BY <1>4, <3>1 DEF WatchInv, Cover
  <2>2. CASE t = p
    <3>1. p # <<>> /\ Front(p) = <<>> /\ p = <<Last(p)>>
      BY <2>2, PathNames, WatchAssumption DEF Top, WatchOK
    <3>2. ~Full(queue)
      BY <1>1, <2>2
    <3>3. e \in Waiting'
      BY <3>1, <3>2, <1>3, <1>4
    <3>4. IsNewDir(e) /\ e.on = <<>> /\ <<e.name>> = t
      BY <2>2, <3>1 DEF IsNewDir, Event
    <3> HIDE DEF e
    <3> QED BY <3>3, <3>4 DEF Announced, IsNewDir
  <2> QED BY <2>1, <2>2
<1> QED BY <1>0, <1>1, <1>2, <1>4, <1>5 DEF WatchInv, LoopTyped

LEMMA ChmodWatch ==
  ASSUME WatchInv, NEW p \in Paths, Chmod(p), UNCHANGED <<place, printed>>
  PROVE  WatchInv'
<1>0. UNCHANGED <<place, pevent, batch, fs, watched, overlooked>>
  BY DEF printed, Chmod
<1> DEFINE q1 == ToParent(queue, p, "attrib")
           q == ToSelf(q1, p, "attrib")
<1>1. q1 \in Seq(Events) /\ ToSet(queue) \subseteq ToSet(q1)
  BY ParentAdds DEF WatchInv, LoopTyped, Whats
<1>2. q \in Seq(Events) /\ ToSet(q1) \subseteq ToSet(q)
  <2> HIDE DEF q1
  <2> QED BY <1>1, SelfAdds DEF WatchInv, LoopTyped, Whats
<1>3. queue' \in Seq(Events) /\ \A t : Announced(t) => Announced(t)'
  <2>1. queue' = q
    BY DEF Chmod
  <2> HIDE DEF q
  <2> QED BY <1>0, <1>1, <1>2, <2>1, Told
<1> QED BY <1>0, <1>3 DEF WatchInv, LoopTyped, Cover

LEMMA DeleteWatch ==
  ASSUME WatchInv, NEW p \in Paths, Delete(p), UNCHANGED <<place, printed>>
  PROVE  WatchInv'
<1> DEFINE q0 == IF fs[p] = "file" THEN ToSelf(queue, p, "attrib") ELSE queue
           q1 == ToParent(q0, p, "delete")
           q2 == ToSelf(q1, p, "delete_self")
           q == ToSelf(q2, p, "ignored")
<1>0. queue' = q /\ UNCHANGED <<place, pevent, batch>>
  BY DEF Delete, printed
<1>1. q0 \in Seq(Events) /\ ToSet(queue) \subseteq ToSet(q0)
  BY SelfAdds DEF WatchInv, LoopTyped, Whats
<1> HIDE DEF q0
<1>2. q1 \in Seq(Events) /\ ToSet(q0) \subseteq ToSet(q1)
  BY <1>1, ParentAdds DEF WatchInv, LoopTyped, Whats
<1> HIDE DEF q1
<1>3. q2 \in Seq(Events) /\ ToSet(q1) \subseteq ToSet(q2)
  BY <1>2, SelfAdds DEF WatchInv, LoopTyped, Whats
<1> HIDE DEF q2
<1>4. q \in Seq(Events) /\ ToSet(q2) \subseteq ToSet(q)
  BY <1>3, SelfAdds DEF WatchInv, LoopTyped, Whats
<1> HIDE DEF q
<1>5. queue' \in Seq(Events) /\ \A t : Announced(t) => Announced(t)'
  BY <1>0, <1>1, <1>2, <1>3, <1>4, Told
<1>6. /\ fs' = [fs EXCEPT ![p] = "none"]
      /\ watched' = watched \ {p} /\ overlooked' = overlooked \ {p}
  BY DEF Delete
<1>7. fs' \in [Paths -> Kinds]
  BY <1>6 DEF WatchInv, LoopTyped, Kinds
<1>8. Cover'
  <2> SUFFICES ASSUME <<>> \in watched, place # "ended", NEW t \in Top, fs'[t] = "dir",
                      t \notin watched', t \notin overlooked'
               PROVE  Announced(t)'
    BY <1>0, <1>6 DEF Cover, Top
  <2>1. t # p /\ fs[t] = "dir"
    BY <1>6 DEF WatchInv, LoopTyped, Top
  <2> QED BY <2>1, <1>5, <1>6 DEF WatchInv, Cover
<1> QED BY <1>0, <1>5, <1>6, <1>7, <1>8 DEF WatchInv, LoopTyped

LEMMA MoveWatch ==
  ASSUME WatchInv, NEW p \in Paths, UNCHANGED <<place, printed>>,
         (\E kind \in {"dir", "file"} : MoveIn(p, kind)) \/ MoveOut(p)
  PROVE  WatchInv'
<1>0. UNCHANGED <<place, queue, pevent, batch>> /\ \A t : Announced(t) => Announced(t)'
  BY SameWaiting DEF printed, MoveIn, MoveOut
<1>1. CASE \E kind \in {"dir", "file"} : MoveIn(p, kind)
  <2>1. PICK kind \in {"dir", "file"} :
          /\ fs' = [fs EXCEPT ![p] = kind] /\ UNCHANGED watched
          /\ overlooked' = overlooked \cup ({p} \cap Top)
    BY <1>1 DEF MoveIn
  <2>2. fs' \in [Paths -> Kinds] /\ overlooked' \subseteq Seq(Names)
    BY <2>1, WatchAssumption DEF WatchInv, LoopTyped, Kinds, WatchOK
  <2>3. Cover'
    <3> SUFFICES ASSUME <<>> \in watched, place # "ended", NEW t \in Top, fs'[t] = "dir",
                        t \notin watched, t \notin overlooked'
                 PROVE  Announced(t)'
      BY <1>0, <2>1 DEF Cover, Top
    <3>1. t # p /\ t \notin overlooked
      BY <2>1
    <3>2. fs[t] = "dir"
      BY <2>1, <3>1 DEF WatchInv, LoopTyped, Top
    <3> QED BY <1>0, <3>1, <3>2 DEF WatchInv, Cover
  <2> QED BY <1>0, <2>1, <2>2, <2>3 DEF WatchInv, LoopTyped
<1>2. CASE MoveOut(p)
  <2>1. /\ fs' = [r \in Paths |-> IF IsPrefix(p, r) THEN "none" ELSE fs[r]]
        /\ watched' = {r \in watched : ~IsPrefix(p, r)} /\ overlooked' = overlooked \ {p}
    BY <1>2 DEF MoveOut
  <2>2. fs' \in [Paths -> Kinds]
    BY <2>1 DEF WatchInv, LoopTyped, Kinds
  <2>3. Cover'
    <3> SUFFICES ASSUME <<>> \in watched', place # "ended", NEW t \in Top, fs'[t] = "dir",
                        t \notin watched', t \notin overlooked'
                 PROVE  Announced(t)'
      BY <1>0 DEF Cover, Top
    <3>1. t \in Paths /\ p \in Seq(Names)
      BY WatchAssumption DEF Top, WatchOK
    <3>2. ~IsPrefix(p, t) /\ fs[t] = "dir"
      BY <2>1, <3>1
    <3>3. t # p
      BY <3>1, <3>2, PrefixOfItself
    <3>4. <<>> \in watched /\ t \notin watched /\ t \notin overlooked
      BY <2>1, <3>2, <3>3
    <3> QED BY <1>0, <3>2, <3>4 DEF WatchInv, Cover
  <2> QED BY <1>0, <2>1, <2>2, <2>3 DEF WatchInv, LoopTyped
<1> QED BY <1>1, <1>2

LEMMA RenameWatch ==
  ASSUME WatchInv, NEW p \in Paths, NEW q \in Paths, Rename(p, q), UNCHANGED <<place, printed>>
  PROVE  WatchInv'
<1>0. UNCHANGED <<place, queue, pevent, batch>> /\ \A t : Announced(t) => Announced(t)'
  BY SameWaiting DEF printed, Rename
<1>1. /\ q # <<>>
      /\ fs' = [r \in Paths |->
                  IF IsPrefix(p, r) \/ Before(r, p, q) \notin Paths THEN "none"
                                                                   ELSE fs[Before(r, p, q)]]
      /\ watched' = {r \in Paths : ~IsPrefix(p, r) /\ Before(r, p, q) \in watched}
      /\ overlooked' = (overlooked \ {p}) \cup ({q} \cap Top)
  BY DEF Rename
<1>2. fs' \in [Paths -> Kinds] /\ overlooked' \subseteq Seq(Names) /\ watched' \subseteq Paths
  BY <1>1, WatchAssumption DEF WatchInv, LoopTyped, Kinds, WatchOK
<1>3. q \in Seq(Names) /\ p \in Seq(Names) /\ Top \subseteq Seq(Names) /\ <<>> \in Seq(Names)
  BY WatchAssumption DEF Top, WatchOK
<1>4. Before(<<>>, p, q) = <<>>
  BY <1>1, <1>3, PrefixOfItself DEF Before
<1>5. Cover'
  <2> SUFFICES ASSUME <<>> \in watched', place # "ended", NEW t \in Top, fs'[t] = "dir",
                      t \notin watched', t \notin overlooked'
               PROVE  Announced(t)'
    BY <1>0 DEF Cover, Top
  <2>1. t \in Paths /\ Len(t) = 1 /\ t # q
    BY <1>1 DEF Top
  <2>2. ~IsPrefix(p, t) /\ Before(t, p, q) \in Paths /\ fs[Before(t, p, q)] = "dir"
    BY <1>1, <2>1
  <2>3. Before(t, p, q) = t
    <3>1. ~IsPrefix(q, t)
      BY <1>1, <1>3, <2>1, TopPrefix
    <3> QED BY <3>1 DEF Before
  <2>4. t # p
    BY <1>3, <2>2, PrefixOfItself
  <2>5. <<>> \in watched /\ t \notin watched /\ t \notin overlooked
    BY <1>1, <1>4, <2>1, <2>2, <2>3, <2>4
  <2> QED BY <1>0, <2>2, <2>3, <2>5 DEF WatchInv, Cover
<1> QED BY <1>0, <1>1, <1>2, <1>5 DEF WatchInv, LoopTyped

\* An event takes a chunk at least and fits in the buffer.
LEMMA ChunksIs == \A name \in Names \cup {NoName} : Chunks(name) \in 1..BufferChunks
BY WatchAssumption DEF Chunks, WatchOK

\* Events of one size take that size as often as there are events.
LEMMA EvenSize ==
  ASSUME NEW es \in Seq(Names \cup {NoName}), NEW c \in Nat \ {0},
         \A i \in 1..Len(es) : Chunks(es[i]) = c
  PROVE  Size(es) = Len(es) * c
<1> DEFINE P == {at \in (1..Len(es)) \X (1..BufferChunks) : at[2] <= Chunks(es[at[1]])}
<1>1. Len(es) \in Nat /\ 1 \in Int /\ Len(es) \in Int /\ c \in Int /\ BufferChunks \in Nat
  BY WatchAssumption DEF WatchOK
<1>2. \A i \in 1..Len(es) : c <= BufferChunks
  BY ChunksIs, <1>1
<1>3. P = (1..Len(es)) \X (1..c)
  <2>1. ASSUME NEW at \in P PROVE at \in (1..Len(es)) \X (1..c)
    BY <1>1
  <2>2. ASSUME NEW at \in (1..Len(es)) \X (1..c) PROVE at \in P
    BY <1>1, <1>2
  <2> HIDE DEF P
  <2> QED BY <2>1, <2>2
<1>4. IsFiniteSet(1..Len(es)) /\ Cardinality(1..Len(es)) = Len(es)
  <2>1. /\ IsFiniteSet(1..Len(es))
        /\ Cardinality(1..Len(es)) = IF 1 > Len(es) THEN 0 ELSE Len(es) - 1 + 1
    BY <1>1, FS_Interval
  <2> QED BY <1>1, <2>1
<1>5. IsFiniteSet(1..c) /\ Cardinality(1..c) = c
  <2>1. IsFiniteSet(1..c) /\ Cardinality(1..c) = IF 1 > c THEN 0 ELSE c - 1 + 1
    BY <1>1, FS_Interval
  <2> QED BY <2>1
<1>6. Cardinality((1..Len(es)) \X (1..c)) = Len(es) * c
  <2>1. ASSUME NEW S, NEW T, IsFiniteSet(S), IsFiniteSet(T)
        PROVE  Cardinality(S \X T) = Cardinality(S) * Cardinality(T)
    BY <2>1, FS_Product
  <2>2. Cardinality((1..Len(es)) \X (1..c)) = Cardinality(1..Len(es)) * Cardinality(1..c)
    BY <1>4, <1>5, <2>1, Zenon
  <2> QED BY <1>4, <1>5, <2>2
<1> QED BY <1>3, <1>6 DEF Size

\* Every event takes a chunk at least.
LEMMA SizeIs ==
  ASSUME NEW es \in Seq(Names \cup {NoName})
  PROVE  Size(es) \in Nat /\ Len(es) <= Size(es) /\ (es = <<>> => Size(es) = 0)
<1> DEFINE P == {at \in (1..Len(es)) \X (1..BufferChunks) : at[2] <= Chunks(es[at[1]])}
           Q == (1..Len(es)) \X (1..1)
<1>1. Len(es) \in Nat /\ 1 \in Int /\ Len(es) \in Int /\ BufferChunks \in Nat \ {0}
  BY WatchAssumption DEF WatchOK
<1>2. IsFiniteSet(1..Len(es)) /\ Cardinality(1..Len(es)) = Len(es)
  <2>1. /\ IsFiniteSet(1..Len(es))
        /\ Cardinality(1..Len(es)) = IF 1 > Len(es) THEN 0 ELSE Len(es) - 1 + 1
    BY <1>1, FS_Interval
  <2> QED BY <1>1, <2>1
<1>3. IsFiniteSet(1..1) /\ Cardinality(1..1) = 1
  <2>1. IsFiniteSet(1..1) /\ Cardinality(1..1) = IF 1 > 1 THEN 0 ELSE 1 - 1 + 1
    BY <1>1, FS_Interval
  <2> QED BY <2>1
<1>4. IsFiniteSet(Q) /\ Cardinality(Q) = Len(es)
  <2>1. IsFiniteSet(Q) /\ Cardinality(Q) = Len(es) * 1
    BY <1>2, <1>3, FS_Product
  <2> QED BY <1>1, <2>1
<1>5. Q \subseteq P
  <2>1. ASSUME NEW at \in Q PROVE at \in P
    <3>1. at[1] \in 1..Len(es) /\ at[2] = 1 /\ at = <<at[1], at[2]>>
      BY <1>1
    <3>2. Chunks(es[at[1]]) \in 1..BufferChunks
      BY <3>1, ChunksIs
    <3> QED BY <1>1, <3>1, <3>2
  <2> QED BY <2>1
<1>6. IsFiniteSet((1..Len(es)) \X (1..BufferChunks))
  <2>1. IsFiniteSet(1..BufferChunks)
    BY <1>1, FS_Interval
  <2> QED BY <1>2, <2>1, FS_Product
<1>7. IsFiniteSet(P) /\ P \subseteq (1..Len(es)) \X (1..BufferChunks)
  BY <1>6, FS_Subset
<1>8. Size(es) = Cardinality(P)
  BY DEF Size
<1>9. es = <<>> => P = {}
  BY <1>1
<1> HIDE DEF P, Q
<1>10. Cardinality(P) \in Nat /\ Cardinality(Q) <= Cardinality(P)
  BY <1>5, <1>7, FS_Subset, FS_CardinalityType
<1> QED BY <1>4, <1>8, <1>9, <1>10, FS_EmptySet

ReadLength(n) == n \in 1..Len(queue) /\ Fits(n) /\ \A j \in 1..Len(queue) : Fits(j) => j <= n

\* The names in the first events of the queue.
LEMMA NamesAre ==
  ASSUME LoopTyped, NEW n \in 1..Len(queue)
  PROVE  /\ NamesOf(n) \in Seq(Names \cup {NoName}) /\ Len(NamesOf(n)) = n
         /\ \A i \in 1..n : NamesOf(n)[i] = queue[i].name
<1>1. queue \in Seq(Events) /\ Len(queue) \in Nat
  BY DEF LoopTyped
<1>2. \A i \in 1..n : queue[i] \in Events
  BY <1>1
<1>3. \A i \in 1..n : queue[i].name \in Names \cup {NoName}
  BY <1>2 DEF Events
<1> QED BY <1>1, <1>3 DEF NamesOf

(* There is a longest sequence of whole events that fits. *)
LEMMA Readable ==
  ASSUME LoopTyped, queue # <<>>
  PROVE  \E n : ReadLength(n)
<1> DEFINE R == {k \in 0..Len(queue) - 1 : Fits(Len(queue) - k)}
<1>1. Fits(1)
  <2> DEFINE es == NamesOf(1)
             c == Chunks(es[1])
  <2>1. es \in Seq(Names \cup {NoName}) /\ Len(es) = 1
    <3>1. 1 \in 1..Len(queue)
      BY DEF LoopTyped
    <3> QED BY <3>1, NamesAre
  <2>2. c \in 1..BufferChunks
    BY <2>1, ChunksIs
  <2>3. c \in Nat \ {0} /\ c <= BufferChunks
    BY <2>2, WatchAssumption DEF WatchOK
  <2> HIDE DEF es
  <2>4. \A i \in 1..Len(es) : Chunks(es[i]) = c
    BY <2>1
  <2> HIDE DEF c
  <2>5. Size(es) = Len(es) * c
    BY <2>1, <2>3, <2>4, EvenSize
  <2>6. Size(es) = c
    BY <2>1, <2>3, <2>5
  <2> QED BY <2>3, <2>6 DEF Fits, es
<1>2. Len(queue) - 1 \in R
  BY <1>1 DEF LoopTyped
<1>3. PICK k \in R : \A j \in R : k <= j
  <2>1. R \subseteq Nat
    BY DEF LoopTyped
  <2> HIDE DEF R
  <2>2. IsWellFoundedOn(OpToRel(<, Nat), Nat)
    BY NatLessThanWellFounded
  <2>3. PICK k \in R : \A j \in R : ~(<<j, k>> \in OpToRel(<, Nat))
    BY <1>2, <2>1, <2>2, WFMin
  <2>4. \A j \in R : <<j, k>> \in OpToRel(<, Nat) <=> j < k
    BY <2>1 DEF OpToRel
  <2>5. \A j \in R : j \in Nat /\ k \in Nat /\ ~(j < k)
    BY <2>1, <2>3, <2>4
  <2> QED BY <2>5
<1>4. ASSUME NEW j \in 1..Len(queue), Fits(j) PROVE j <= Len(queue) - k
  <2>1. Len(queue) - j \in 0..Len(queue) - 1 /\ Len(queue) - (Len(queue) - j) = j
    BY DEF LoopTyped
  <2>2. Len(queue) - j \in R
    BY <1>4, <2>1
  <2>3. k <= Len(queue) - j
    BY <1>3, <2>2
  <2> QED BY <2>3 DEF LoopTyped
<1> QED BY <1>3, <1>4 DEF ReadLength, LoopTyped

LEMMA ReadIs ==
  ASSUME LoopTyped, Read
  PROVE  \E n : /\ ReadLength(n) /\ batch' = NamesOf(n) /\ pevent' = queue[1]
                /\ queue' = SubSeq(queue, n + 1, Len(queue))
                /\ overlooked' = overlooked \cup
                     {<<queue[i].name>> :
                         i \in {j \in 2..n : queue[j].on = <<>> /\ IsNewDir(queue[j])}}
<1> DEFINE n == CHOOSE k \in 1..Len(queue) :
                  Fits(k) /\ \A j \in 1..Len(queue) : Fits(j) => j <= k
<1>1. ReadLength(n)
  BY Readable DEF Read, ReadLength
<1> QED BY <1>1 DEF Read, Looked

LEMMA ReadWatch == ASSUME WatchInv, Read PROVE WatchInv'
<1>1. PICK n : /\ ReadLength(n) /\ batch' = NamesOf(n) /\ pevent' = queue[1]
               /\ queue' = SubSeq(queue, n + 1, Len(queue))
               /\ overlooked' = overlooked \cup
                    {<<queue[i].name>> :
                         i \in {j \in 2..n : queue[j].on = <<>> /\ IsNewDir(queue[j])}}
  BY ReadIs DEF WatchInv
<1>2. n \in 1..Len(queue) /\ queue \in Seq(Events) /\ Len(queue) \in Nat
  BY <1>1 DEF ReadLength, WatchInv, LoopTyped
<1>3. /\ batch' \in Seq(Names \cup {NoName}) /\ pevent' \in Events
      /\ queue' \in Seq(Events) /\ Len(queue') = Len(queue) - n
      /\ \A i \in 1..Len(queue) - n : queue'[i] = queue[n + i]
  <2>1. batch' \in Seq(Names \cup {NoName}) /\ pevent' \in Events
    BY <1>1, <1>2, NamesAre DEF WatchInv
  <2>2. queue' \in Seq(Events)
    BY <1>1, <1>2
  <2>3. Len(queue') = Len(queue) - n
    BY <1>1, <1>2
  <2>4. \A i \in 1..Len(queue) - n : queue'[i] = queue[n + i]
    BY <1>1, <1>2
  <2> QED BY <2>1, <2>2, <2>3, <2>4
<1>4. place' = "first" /\ UNCHANGED <<fs, watched>> /\ place = "read"
  BY DEF Read
<1>5. overlooked' \subseteq Seq(Names)
  <2>1. ASSUME NEW i \in 2..n, IsNewDir(queue[i]) PROVE <<queue[i].name>> \in Seq(Names)
    <3>1. queue[i] \in Events
      BY <1>2
    <3>2. queue[i].name \in Names
      BY <2>1, <3>1 DEF Events, IsNewDir
    <3> QED BY <3>2
  <2> QED BY <1>1, <2>1 DEF WatchInv, LoopTyped
<1>6. Cover'
  <2> SUFFICES ASSUME <<>> \in watched, NEW t \in Top, fs[t] = "dir", t \notin watched,
                      t \notin overlooked'
               PROVE  \E e \in Waiting' : IsNewDir(e) /\ e.on = <<>> /\ <<e.name>> = t
    BY <1>4 DEF Cover, IsNewDir, Top, Announced
  <2>1. PICK e \in ToSet(queue) : IsNewDir(e) /\ e.on = <<>> /\ <<e.name>> = t
    BY <1>1, <1>4 DEF WatchInv, Cover, Waiting, Announced
  <2>2. PICK i \in 1..Len(queue) : queue[i] = e
    BY <1>2 DEF ToSet
  <2>3. CASE i = 1
    BY <2>1, <2>2, <2>3, <1>1, <1>4 DEF Waiting
  <2>4. CASE i \in 2..n
    BY <2>1, <2>2, <2>4, <1>1
  <2>5. CASE i > n
    <3>1. i - n \in 1..Len(queue') /\ queue'[i - n] = e
      BY <1>2, <1>3, <2>2, <2>5
    <3>2. e \in ToSet(queue')
      BY <3>1 DEF ToSet
    <3> QED BY <2>1, <3>2 DEF Waiting
  <2> QED BY <1>2, <2>3, <2>4, <2>5
<1> QED BY <1>3, <1>4, <1>5, <1>6 DEF WatchInv, LoopTyped

LEMMA FirstWatch == ASSUME WatchInv, First PROVE WatchInv'
<1> DEFINE w == <<pevent.name>>
<1>1. place = "first" /\ UNCHANGED <<fs, queue, pevent, batch, overlooked>>
  BY DEF First, printed
<1>2. \/ IsNewDir(pevent) /\ w \in Paths /\ watched' = watched \cup {w} /\ place' = "print"
      \/ place' = "ended" /\ UNCHANGED watched
      \/ ~IsNewDir(pevent) /\ place' = "print" /\ UNCHANGED watched
  BY DEF First, NewDir, addPath2WatchList, logFatalAndExit
<1>3. w # <<>>
  OBVIOUS
<1>4. /\ watched' \subseteq Paths /\ place' \in {"print", "ended"}
      /\ <<>> \in watched' => <<>> \in watched
  <2> HIDE DEF w
  <2> QED BY <1>2, <1>3, Zenon DEF WatchInv, LoopTyped
<1>5. Cover'
  <2> SUFFICES ASSUME <<>> \in watched, place' = "print", NEW t \in Top, fs[t] = "dir",
                      t \notin watched', t \notin overlooked
               PROVE  \E n \in ToSet(queue) : IsNewDir(n) /\ n.on = <<>> /\ <<n.name>> = t
    BY <1>1, <1>4 DEF Cover, IsNewDir, Top, Waiting, Announced
  <2>1. t \notin watched
    BY <1>2
  <2>2. PICK n \in Waiting : IsNewDir(n) /\ n.on = <<>> /\ <<n.name>> = t
    BY <1>1, <2>1 DEF WatchInv, Cover, Announced
  <2>3. n = pevent => t \in watched'
    BY <1>2, <2>2
  <2> QED BY <2>2, <2>3, <1>1 DEF Waiting
<1> QED BY <1>1, <1>4, <1>5 DEF WatchInv, LoopTyped

LEMMA OtherWatch ==
  ASSUME WatchInv,
         Stat \/ Watch \/ ReadFails \/ PrintEvent \/ PrintAstray \/ Again \/ UNCHANGED loopVars
  PROVE  WatchInv'
<1>1. CASE Stat
  <2>1. place = "stat" /\ place' \in {"watch", "ended"}
        /\ UNCHANGED <<fs, watched, queue, pevent, batch, overlooked>>
    BY <1>1 DEF Stat, startInotifyWatchList, logFatalAndExit, printed
  <2> QED BY <2>1 DEF WatchInv, LoopTyped, Cover
<1>2. CASE Watch
  <2>1. /\ place = "watch" /\ overlooked' = {p \in Top : fs[p] = "dir"}
        /\ UNCHANGED <<fs, queue, pevent, batch>>
        /\ \/ watched' = watched \cup {<<>>} /\ place' = "read"
           \/ UNCHANGED watched /\ place' = "ended"
    BY <1>2 DEF Watch, addPath2WatchList, logFatalAndExit, printed
  <2>2. Top \subseteq Seq(Names) /\ <<>> \in Paths
    BY WatchAssumption DEF Top, WatchOK
  <2> QED BY <2>1, <2>2 DEF WatchInv, LoopTyped, Cover, Top
<1>3. CASE ReadFails
  <2>1. place' = "ended" /\ UNCHANGED <<fs, watched, queue, pevent, batch, overlooked>>
    BY <1>3 DEF ReadFails, logFatalAndExit, printed
  <2> QED BY <2>1 DEF WatchInv, LoopTyped, Cover
<1>4. CASE PrintEvent \/ PrintAstray \/ Again
  <2>1. /\ place = "print" /\ place' \in {"print", "read", "ended"} /\ pevent' \in Events
        /\ batch' \in {batch, <<>>} /\ UNCHANGED <<fs, watched, queue, overlooked>>
    BY <1>4, NoEventTyped DEF PrintEvent, PrintAstray, Again, WatchInv, LoopTyped
  <2>2. Waiting \subseteq Waiting'
    BY <2>1 DEF Waiting
  <2>3. batch' \in Seq(Names \cup {NoName})
    <3>1. <<>> \in Seq(Names \cup {NoName})
      OBVIOUS
    <3> QED BY <2>1, <3>1, Zenon DEF WatchInv, LoopTyped
  <2> QED BY <2>1, <2>2, <2>3 DEF WatchInv, LoopTyped, Cover, Announced, IsNewDir, Top
<1>5. CASE UNCHANGED loopVars
  BY <1>5, SameWaiting DEF loopVars, printed, WatchInv, LoopTyped, Cover
<1> QED BY <1>1, <1>2, <1>3, <1>4, <1>5

LEMMA AnybodyWatch == ASSUME WatchInv, Anybody PROVE WatchInv'
<1>1. CASE \E x \in Entries : Make(x[1], x[2]) \/ MoveIn(x[1], x[2])
  <2>1. PICK x \in Entries : Make(x[1], x[2]) \/ MoveIn(x[1], x[2])
    BY <1>1
  <2>2. x[1] \in Paths /\ x[2] \in {"dir", "file"}
    BY WatchAssumption DEF WatchOK
  <2> QED BY <2>1, <2>2, MakeWatch, MoveWatch DEF Anybody
<1>2. CASE \E p \in Touched : Chmod(p)
  BY <1>2, ChmodWatch, WatchAssumption DEF Anybody, WatchOK
<1>3. CASE \E p \in Paths : Delete(p) \/ MoveOut(p) \/ \E q \in Paths : Rename(p, q)
  BY <1>3, DeleteWatch, MoveWatch, RenameWatch DEF Anybody
<1> QED BY <1>1, <1>2, <1>3 DEF Anybody

LEMMA NextWatch == ASSUME WatchInv, [LoopNext]_loopVars PROVE WatchInv'
BY AnybodyWatch, ReadWatch, FirstWatch, OtherWatch DEF LoopNext, Program

(* A directory that is not watched was there before, was moved in, was     *)
(* announced behind another event or to a full queue, or is being          *)
(* announced.                                                              *)
THEOREM UnwatchedIsExplained == LoopSpec => []UnwatchedWasOverlooked
<1>1. WatchInv => UnwatchedWasOverlooked
  BY DEF WatchInv, Cover, Waiting, Announced, UnwatchedWasOverlooked
<1>2. WatchInv /\ [LoopNext]_loopVars => WatchInv'
  BY NextWatch
<1> QED BY InitWatch, <1>1, <1>2, PTL DEF LoopSpec

\* Multiples of a size come in the order of what they are multiples of.
LEMMA Multiples ==
  ASSUME NEW c \in Nat \ {0}, NEW x \in Int, NEW y \in Int
  PROVE  /\ c * x < c * y => x < y
         /\ c * x = c * y => x = y
         /\ x < y => c * x < c * y
         /\ c * (x - 1) = c * x - c /\ c * (x + 1) = c * x + c
         /\ x * c = c * x /\ c * 0 = 0
         /\ c * x \in Int
<1>1. ASSUME NEW u \in Int, NEW v \in Int, u < v PROVE c * u < c * v
  <2>1. c * (v - u) = c * v - c * u
    OBVIOUS
  <2>2. c * (v - u) >= 1
    <3> DEFINE d == v - u
    <3>1. d \in Nat \ {0}
      BY <1>1
    <3> HIDE DEF d
    <3> QED BY <3>1 DEF d
  <2> QED BY <2>1, <2>2
<1>2. c * (x - 1) = c * x - c /\ c * (x + 1) = c * x + c /\ x * c = c * x /\ c * 0 = 0 /\ c * x \in Int
  OBVIOUS
<1>3. x < y \/ x = y \/ y < x
  OBVIOUS
<1> QED BY <1>1, <1>2, <1>3

(* All events of the read of one size; and then how far the print loop is. *)
Uniform(c) == \A j \in 1..Len(batch) : Chunks(batch[j]) = c
Order(c) ==
  /\ ~astray
  /\ shown # <<>> =>
       /\ left = c * (Len(batch) - Len(shown)) /\ Len(shown) <= Len(batch)
       /\ \A k \in 2..Len(shown) : shown[k] = Len(batch) + 2 - k
Distinct == \A j, k \in 1..Len(shown) : j # k /\ shown[j] # 0 => shown[j] # shown[k]
\* Nothing behind the first event was printed that begins before what is left.
Behind == \A k \in 2..Len(shown) : shown[k] = 0 \/ (Begin(shown[k]) > left /\ Begin(shown[k]) >= 1)
\* The inductive invariant of the print loop, over a batch that stays.
PrintInv ==
  /\ left \in Int /\ left <= BufferChunks /\ shown \in Seq(0..Len(batch)) /\ astray \in BOOLEAN
  /\ place \in {"stat", "watch", "read"} => batch = <<>>
  /\ batch = <<>> => shown = <<>> /\ ~astray
  /\ place \in {"first", "print"} => batch # <<>>
  /\ place = "first" => shown = <<>> /\ ~astray
  /\ place \in {"first", "print"} /\ shown = <<>> /\ ~astray => left = Size(batch)
  /\ shown # <<>> => shown[1] = 1
  /\ ~astray => Behind
  /\ Distinct
  /\ batch # <<>> => \A c \in Nat \ {0} : Uniform(c) => Order(c)

LEMMA InitPrint == LoopInit => PrintInv
<1> SUFFICES ASSUME LoopInit PROVE PrintInv
  OBVIOUS
<1>1. batch = <<>> /\ shown = <<>> /\ left = 0 /\ place = "stat" /\ ~astray /\ Len(shown) = 0
      /\ astray \in BOOLEAN
  BY DEF LoopInit
<1>2. left \in Int /\ left <= BufferChunks
  BY <1>1, WatchAssumption DEF WatchOK
<1>3. shown \in Seq(0..Len(batch))
  BY <1>1
<1> QED BY <1>1, <1>2, <1>3 DEF PrintInv, Distinct, Behind

(* Steps that leave the batch and what is shown of it alone. *)
LEMMA SamePrint ==
  ASSUME PrintInv, UNCHANGED <<batch, left, shown, astray>>,
         place' = "ended" \/ place' = place \/ (place = "first" /\ place' = "print")
         \/ (place = "stat" /\ place' = "watch") \/ (place = "watch" /\ place' = "read")
  PROVE  PrintInv'
<1>1. /\ Distinct' = Distinct /\ Behind' = Behind /\ Size(batch)' = Size(batch)
      /\ \A c : Uniform(c)' = Uniform(c) /\ Order(c)' = Order(c)
  BY DEF Distinct, Behind, Uniform, Order, Begin, Size, Chunks
<1> QED BY <1>1 DEF PrintInv

LEMMA ReadPrint == ASSUME WatchInv, PrintInv, Read PROVE PrintInv'
<1>1. PICK n : ReadLength(n) /\ batch' = NamesOf(n)
  BY ReadIs DEF WatchInv
<1>2. n \in 1..Len(queue) /\ queue \in Seq(Events) /\ Fits(n)
  BY <1>1 DEF ReadLength, WatchInv, LoopTyped
<1>3. batch' \in Seq(Names \cup {NoName}) /\ Len(batch') = n
  BY <1>1, <1>2, NamesAre DEF WatchInv
<1>4. left' = Size(batch') /\ shown' = <<>> /\ ~astray' /\ place' = "first" /\ astray' \in BOOLEAN
  BY DEF Read, PrintInv
<1>5. Size(batch') \in Nat /\ n <= Size(batch') /\ Size(batch') <= BufferChunks
  BY <1>1, <1>2, <1>3, SizeIs DEF Fits
<1>6. left' \in Int /\ left' <= BufferChunks /\ batch' # <<>>
  BY <1>2, <1>3, <1>4, <1>5
<1>7. shown' \in Seq(0..Len(batch')) /\ Len(shown') = 0
  BY <1>4
<1> QED BY <1>4, <1>6, <1>7 DEF PrintInv, Distinct, Behind, Order

LEMMA AgainPrint == ASSUME WatchInv, PrintInv, Again PROVE PrintInv'
<1>1. batch' = <<>> /\ shown' = <<>> /\ left' = 0 /\ ~astray' /\ place' = "read"
      /\ Len(shown') = 0 /\ astray' \in BOOLEAN
  BY DEF Again
<1>2. left' \in Int /\ left' <= BufferChunks
  BY <1>1, WatchAssumption DEF WatchOK
<1>3. shown' \in Seq(0..Len(batch'))
  BY <1>1
<1> QED BY <1>1, <1>2, <1>3 DEF PrintInv, Distinct, Behind

\* Events begin one after the other, evenly when they are of one size.
LEMMA BeginIs ==
  ASSUME batch \in Seq(Names \cup {NoName}), NEW i \in 1..Len(batch)
  PROVE  /\ Begin(i) \in Nat /\ i - 1 <= Begin(i) /\ (i = 1 => Begin(i) = 0)
         /\ \A c \in Nat \ {0} : Uniform(c) => Begin(i) = c * (i - 1)
<1> DEFINE es == SubSeq(batch, 1, i - 1)
<1>1. /\ es \in Seq(Names \cup {NoName}) /\ Len(es) = i - 1
      /\ \A j \in 1..Len(es) : es[j] = batch[j] /\ j \in 1..Len(batch)
  OBVIOUS
<1>2. Begin(i) = Size(es)
  BY DEF Begin
<1> HIDE DEF es
<1>3. \A c \in Nat \ {0} : Uniform(c) => \A j \in 1..Len(es) : Chunks(es[j]) = c
  BY <1>1 DEF Uniform
<1>4. \A c \in Nat \ {0} : Uniform(c) => Begin(i) = Len(es) * c
  BY <1>1, <1>2, <1>3, EvenSize
<1>5. \A c \in Nat \ {0} : Uniform(c) => Begin(i) = c * (i - 1)
  <2> SUFFICES ASSUME NEW c \in Nat \ {0}, Uniform(c) PROVE Begin(i) = c * (i - 1)
    OBVIOUS
  <2>1. Begin(i) = (i - 1) * c /\ i - 1 \in Int
    BY <1>1, <1>4
  <2> QED BY <2>1, Multiples
<1>6. Size(es) \in Nat /\ Len(es) <= Size(es) /\ (es = <<>> => Size(es) = 0)
  BY <1>1, SizeIs
<1>7. i = 1 => es = <<>>
  BY <1>1
<1> QED BY <1>1, <1>2, <1>5, <1>6, <1>7

(* Where all events are of one size, the loop never looks into a name. *)
LEMMA NotInName ==
  ASSUME WatchInv, PrintInv, place = "print", NEW c \in Nat \ {0}, Uniform(c)
  PROVE  ~LengthOfName(Offset)
<1> SUFFICES ASSUME NEW i \in 1..Len(batch), Begin(i) < Offset, Offset < Begin(i) + Chunks(batch[i])
             PROVE  FALSE
  BY DEF LengthOfName
<1>1. batch \in Seq(Names \cup {NoName}) /\ Len(batch) \in Nat /\ i \in Int
  BY DEF WatchInv, LoopTyped
<1>2. Begin(i) = c * (i - 1) /\ Begin(i) \in Nat /\ Chunks(batch[i]) = c
  BY <1>1, BeginIs DEF Uniform
<1>3. shown # <<>> /\ Offset = left
  <2>1. Offset # 0
    BY <1>2
  <2> QED BY <2>1, Zenon DEF Offset
<1> DEFINE m == Len(batch) - Len(shown)
<1>4. left = c * m /\ m \in Int
  BY <1>1, <1>3 DEF PrintInv, Order
<1> HIDE DEF m
<1>5. c * (i - 1) < c * m /\ c * m < c * (i - 1) + c /\ i - 1 \in Int
  BY <1>1, <1>2, <1>3, <1>4
<1>6. c * (i - 1) + c = c * i
  BY <1>1, Multiples
<1>7. i - 1 < m /\ m < i
  BY <1>1, <1>4, <1>5, <1>6, Multiples
<1> QED BY <1>1, <1>4, <1>7

\* Of what is printed once an event is taken from a name, nothing is said.
LEMMA AstrayPrint == ASSUME WatchInv, PrintInv, PrintAstray PROVE PrintInv'
<1>1. /\ place = "print" /\ place' \in {"print", "ended"} /\ astray' = TRUE /\ left' \in {0, 1}
      /\ UNCHANGED <<batch, shown>> /\ (astray \/ LengthOfName(Offset))
  BY DEF PrintAstray
<1>2. left' \in Int /\ left' <= BufferChunks /\ astray' \in BOOLEAN
  BY <1>1, WatchAssumption DEF WatchOK
<1>3. batch # <<>>
  BY <1>1 DEF PrintInv
<1>4. \A c \in Nat \ {0} : ~Uniform(c)
  <2> SUFFICES ASSUME NEW c \in Nat \ {0}, Uniform(c) PROVE FALSE
    OBVIOUS
  <2>1. ~astray
    BY <1>3 DEF PrintInv, Order
  <2> QED BY <1>1, <2>1, NotInName
<1>5. (\A c \in Nat \ {0} : ~Uniform(c)') /\ Distinct'
  BY <1>1, <1>4 DEF Uniform, PrintInv, Distinct
<1> QED BY <1>1, <1>2, <1>3, <1>5 DEF PrintInv

(* One turn of the print loop: it prints x, an event that begins at the    *)
(* offset, or bytes that are none, and its size goes off what is left.     *)
LEMMA PrintCases ==
  ASSUME WatchInv, PrintInv, PrintEvent
  PROVE  \E x \in 0..Len(batch), size \in Nat \ {0} :
           /\ shown' = Append(shown, x) /\ left' = left - size
           /\ x = 0 => EventsAt(Offset) = {}
           /\ x # 0 => Begin(x) = Offset /\ size = Chunks(batch[x])
<1> DEFINE at == EventsAt(Offset)
           x == IF at = {} THEN 0 ELSE CHOOSE i \in at : TRUE
           size == FullSize(at)
<1>1. at = {i \in 1..Len(batch) : Begin(i) = Offset}
  BY DEF EventsAt
<1>2. shown' = Append(shown, x) /\ left' = left - size
  BY DEF PrintEvent
<1>3. CASE at = {}
  <2>1. x = 0 /\ size = 1
    BY <1>3 DEF FullSize
  <2>2. Len(batch) \in Nat
    BY DEF WatchInv, LoopTyped
  <2> HIDE DEF x, size, at
  <2> QED BY <1>2, <1>3, <2>1, <2>2 DEF at
<1>4. CASE at # {}
  <2>1. x \in at /\ size = Chunks(batch[x])
    BY <1>4 DEF FullSize
  <2>2. x \in 1..Len(batch) /\ Begin(x) = Offset
    BY <1>1, <2>1
  <2> HIDE DEF x, size, at
  <2>3. batch[x] \in Names \cup {NoName}
    BY <2>2 DEF WatchInv, LoopTyped
  <2>4. x \in 0..Len(batch) /\ x # 0 /\ size \in Nat \ {0}
    BY <2>1, <2>2, <2>3, ChunksIs DEF WatchInv, LoopTyped
  <2> QED BY <1>2, <2>1, <2>2, <2>4
<1> QED BY <1>3, <1>4

LEMMA FirstPrinted ==
  ASSUME WatchInv, PrintInv, PrintEvent, shown = <<>>
  PROVE  PrintInv'
<1>1. /\ place = "print" /\ place' = "print" /\ ~astray /\ UNCHANGED <<batch, astray>>
      /\ Offset = 0
  BY DEF PrintEvent, Offset
<1>2. /\ batch \in Seq(Names \cup {NoName}) /\ batch # <<>> /\ Len(batch) \in Nat \ {0}
      /\ left = Size(batch) /\ left \in Int /\ left <= BufferChunks /\ astray \in BOOLEAN
  BY <1>1 DEF WatchInv, LoopTyped, PrintInv
<1>3. PICK x \in 0..Len(batch), size \in Nat \ {0} :
        /\ shown' = Append(shown, x) /\ left' = left - size
        /\ x = 0 => EventsAt(Offset) = {}
        /\ x # 0 => Begin(x) = Offset /\ size = Chunks(batch[x])
  BY PrintCases
<1>4. x = 1 /\ size = Chunks(batch[1])
  <2>1. 1 \in 1..Len(batch) /\ Begin(1) = 0
    BY <1>2, BeginIs
  <2>2. x # 0
    BY <1>1, <1>3, <2>1 DEF EventsAt
  <2>3. x \in 1..Len(batch) /\ x - 1 <= Begin(x) /\ Begin(x) = 0
    BY <1>1, <1>2, <1>3, <2>2, BeginIs
  <2> QED BY <1>2, <1>3, <2>3
<1>5. shown' = <<1>>
  BY <1>3, <1>4
<1>6. left' \in Int /\ left' <= BufferChunks
  BY <1>2, <1>3, WatchAssumption DEF WatchOK
<1>7. shown' \in Seq(0..Len(batch)) /\ Len(shown') = 1 /\ shown'[1] = 1 /\ shown' # <<>>
  BY <1>2, <1>5
<1>8. ASSUME NEW c \in Nat \ {0}, Uniform(c)
      PROVE  left' = c * (Len(batch) - 1)
  <2>1. Size(batch) = Len(batch) * c
    BY <1>2, <1>8, EvenSize DEF Uniform
  <2>2. size = c
    BY <1>2, <1>4, <1>8 DEF Uniform
  <2>3. Len(batch) \in Int
    BY <1>2
  <2>4. Len(batch) * c = c * Len(batch) /\ c * (Len(batch) - 1) = c * Len(batch) - c
    BY <2>3, Multiples
  <2> QED BY <1>2, <1>3, <2>1, <2>2, <2>4
<1>9. ASSUME NEW c \in Nat \ {0}, Uniform(c)'
      PROVE  Order(c)'
  <2>1. Uniform(c)
    BY <1>1, <1>9 DEF Uniform
  <2>2. left' = c * (Len(batch) - 1)
    BY <1>8, <2>1
  <2> QED BY <1>1, <1>2, <1>7, <2>2 DEF Order
<1>10. Distinct' /\ Behind'
  BY <1>7 DEF Distinct, Behind
<1> QED BY <1>1, <1>2, <1>6, <1>7, <1>9, <1>10 DEF PrintInv

LEMMA LaterPrinted ==
  ASSUME WatchInv, PrintInv, PrintEvent, shown # <<>>
  PROVE  PrintInv'
<1>1. /\ place = "print" /\ place' = "print" /\ ~astray /\ UNCHANGED <<batch, astray>>
      /\ Offset = left /\ left > 0
  BY DEF PrintEvent, Offset
<1>2. /\ batch \in Seq(Names \cup {NoName}) /\ batch # <<>> /\ Len(batch) \in Nat \ {0}
      /\ left \in Int /\ left >= 1 /\ left <= BufferChunks /\ astray \in BOOLEAN
      /\ shown \in Seq(0..Len(batch)) /\ Len(shown) \in Nat \ {0} /\ shown[1] = 1
  BY <1>1 DEF WatchInv, LoopTyped, PrintInv
<1>3. PICK x \in 0..Len(batch), size \in Nat \ {0} :
        /\ shown' = Append(shown, x) /\ left' = left - size
        /\ x = 0 => EventsAt(Offset) = {}
        /\ x # 0 => Begin(x) = Offset /\ size = Chunks(batch[x])
  BY PrintCases
<1>4. x # 0 => Begin(x) = left /\ x # 1
  <2>1. 1 \in 1..Len(batch) /\ Begin(1) = 0
    BY <1>2, BeginIs
  <2> QED BY <1>1, <1>2, <1>3, <2>1
<1>5. left' \in Int /\ left' <= BufferChunks /\ left' < left
  <2>1. BufferChunks \in Nat
    BY WatchAssumption DEF WatchOK
  <2>2. left' = left - size
    BY <1>3
  <2> QED BY <1>2, <2>1, <2>2
<1>6. /\ shown' \in Seq(0..Len(batch)) /\ Len(shown') = Len(shown) + 1 /\ shown' # <<>>
      /\ \A k \in 1..Len(shown) : shown'[k] = shown[k]
      /\ shown'[Len(shown) + 1] = x
  BY <1>2, <1>3
<1>7. ASSUME NEW k \in 2..Len(shown)
      PROVE  shown[k] = 0 \/ (Begin(shown[k]) > left /\ Begin(shown[k]) >= 1)
  BY <1>1 DEF PrintInv, Behind
<1>8. ASSUME NEW k \in 2..Len(shown')
      PROVE  shown'[k] = 0 \/ (Begin(shown'[k]) > left' /\ Begin(shown'[k]) >= 1)
  <2>1. CASE k \in 2..Len(shown)
    <3>1. shown[k] # 0 => shown[k] \in 1..Len(batch)
      BY <1>2, <2>1
    <3>2. shown[k] # 0 => Begin(shown[k]) \in Nat
      BY <1>2, <3>1, BeginIs
    <3>3. shown'[k] = shown[k]
      BY <1>2, <1>6, <2>1
    <3>4. left' < left /\ left' \in Int /\ left \in Int
      BY <1>2, <1>5, WatchAssumption DEF WatchOK
    <3>5. shown[k] = 0 \/ (Begin(shown[k]) > left' /\ Begin(shown[k]) >= 1)
      BY <1>7, <2>1, <3>2, <3>4
    <3> QED BY <3>3, <3>5
  <2>2. CASE k = Len(shown) + 1
    BY <1>2, <1>4, <1>5, <1>6, <2>2
  <2> QED BY <1>2, <1>6, <2>1, <2>2
<1>9. ASSUME NEW k \in 1..Len(shown), x # 0 PROVE shown[k] # x
  BY <1>2, <1>4, <1>7, <1>9
<1>10. Distinct'
  <2> SUFFICES ASSUME NEW j \in 1..Len(shown'), NEW k \in 1..Len(shown'), j # k, shown'[j] # 0
               PROVE  shown'[j] # shown'[k]
    BY DEF Distinct
  <2>1. CASE j \in 1..Len(shown) /\ k \in 1..Len(shown)
    BY <2>1, <1>6 DEF PrintInv, Distinct
  <2>2. CASE j = Len(shown) + 1 /\ k \in 1..Len(shown)
    BY <2>2, <1>6, <1>9
  <2>3. CASE k = Len(shown) + 1 /\ j \in 1..Len(shown)
    BY <2>3, <1>6, <1>9
  <2> QED BY <1>2, <1>6, <2>1, <2>2, <2>3
<1>11. ASSUME NEW c \in Nat \ {0}, Uniform(c)'
       PROVE  Order(c)'
  <2> DEFINE N == Len(batch)
             L == Len(shown)
  <2>1. Uniform(c) /\ N \in Nat /\ L \in Nat \ {0}
    BY <1>1, <1>2, <1>11 DEF Uniform
  <2>2. left = c * (N - L) /\ \A k \in 2..L : shown[k] = N + 2 - k
    BY <1>2, <2>1 DEF PrintInv, Order
  <2>3. L < N
    <3> HIDE DEF N, L
    <3>1. c * 0 < c * (N - L) /\ 0 \in Int /\ N - L \in Int
      BY <1>1, <2>1, <2>2, Multiples
    <3>2. 0 < N - L
      BY <3>1, Multiples
    <3> QED BY <2>1, <3>2
  <2>4. \A j \in 1..N : Begin(j) = c * (j - 1)
    BY <1>2, <2>1, BeginIs
  <2>5. x = N + 1 - L /\ size = c
    <3>1. N + 1 - L \in 1..N /\ N + 1 - L - 1 = N - L
      BY <2>1, <2>3
    <3>2. Begin(N + 1 - L) = left
      BY <2>2, <2>4, <3>1
    <3>3. x # 0
      BY <1>1, <1>3, <3>1, <3>2 DEF EventsAt
    <3>4. x \in 1..N /\ c * (x - 1) = c * (N - L)
      BY <1>2, <1>3, <1>4, <2>2, <2>4, <3>3
    <3>5. size = c
      BY <1>3, <2>1, <3>3, <3>4 DEF Uniform
    <3> HIDE DEF N, L
    <3>6. x - 1 = N - L
      <4>1. x - 1 \in Int /\ N - L \in Int
        BY <2>1, <3>4
      <4> QED BY <3>4, <4>1, Multiples
    <3> QED BY <2>1, <3>4, <3>5, <3>6
  <2>6. left' = c * (N - (L + 1))
    <3> HIDE DEF N, L
    <3>1. N - L \in Int /\ N - (L + 1) = N - L - 1
      BY <2>1
    <3>2. c * (N - L - 1) = c * (N - L) - c
      BY <3>1, Multiples
    <3> QED BY <1>3, <2>2, <2>5, <3>1, <3>2
  <2>7. ASSUME NEW k \in 2..L + 1 PROVE shown'[k] = N + 2 - k
    <3>1. k \in 2..L \/ k = L + 1
      BY <2>1
    <3>2. k \in 2..L => shown'[k] = shown[k]
      BY <1>6, <2>1
    <3>3. k = L + 1 => shown'[k] = N + 1 - L
      BY <1>6, <2>5
    <3> HIDE DEF N, L
    <3> QED BY <2>1, <2>2, <3>1, <3>2, <3>3
  <2> QED BY <1>1, <1>6, <2>1, <2>3, <2>6, <2>7 DEF Order
<1>12. Behind'
  <2>1. \A i : Begin(i)' = Begin(i)
    BY <1>1 DEF Begin, Size, Chunks
  <2> QED BY <1>8, <2>1 DEF Behind
<1> QED BY <1>1, <1>2, <1>5, <1>6, <1>10, <1>11, <1>12 DEF PrintInv

LEMMA NextPrint == ASSUME WatchInv, PrintInv, [LoopNext]_loopVars PROVE PrintInv'
<1>1. CASE Anybody \/ UNCHANGED loopVars
  BY <1>1, SamePrint DEF Anybody, loopVars, printed
<1>2. CASE Stat
  BY <1>2, SamePrint DEF Stat, startInotifyWatchList, logFatalAndExit, printed
<1>3. CASE Watch
  BY <1>3, SamePrint DEF Watch, addPath2WatchList, logFatalAndExit, printed
<1>4. CASE First
  BY <1>4, SamePrint DEF First, addPath2WatchList, logFatalAndExit, printed
<1>5. CASE ReadFails
  BY <1>5, SamePrint DEF ReadFails, logFatalAndExit, printed
<1>6. CASE PrintEvent
  BY <1>6, FirstPrinted, LaterPrinted
<1> QED BY <1>1, <1>2, <1>3, <1>4, <1>5, <1>6, ReadPrint, AgainPrint, AstrayPrint
        DEF LoopNext, Program

\* When the print loop is over, events of one size are all printed.
LEMMA AllPrinted ==
  ASSUME WatchInv, PrintInv, place = "print", left <= 0,
         Cardinality({Chunks(name) : name \in ToSet(batch)}) = 1
  PROVE  ~astray /\ ToSet(shown) = 1..Len(batch)
<1> DEFINE C == {Chunks(name) : name \in ToSet(batch)}
           N == Len(batch)
<1>1. batch \in Seq(Names \cup {NoName}) /\ N \in Nat \ {0} /\ batch # <<>>
  BY DEF WatchInv, LoopTyped, PrintInv
<1>2. ToSet(batch) \subseteq Names \cup {NoName}
  BY <1>1 DEF ToSet
<1>3. C \subseteq 1..BufferChunks
  BY <1>2, ChunksIs
<1>4. PICK c : C = {c}
  <2>1. 1 \in Int /\ BufferChunks \in Int
    BY WatchAssumption DEF WatchOK
  <2>2. IsFiniteSet(C)
    BY <1>3, <2>1, FS_Interval, FS_Subset
  <2>3. Cardinality(C) = 1
    OBVIOUS
  <2> HIDE DEF C
  <2> QED BY <2>2, <2>3, FS_Singleton
<1>5. c \in Nat \ {0}
  <2>1. BufferChunks \in Nat
    BY WatchAssumption DEF WatchOK
  <2> HIDE DEF C
  <2>2. c \in 1..BufferChunks
    BY <1>3, <1>4
  <2> QED BY <2>1, <2>2
<1>6. Uniform(c)
  BY <1>1, <1>4 DEF Uniform, ToSet
<1>7. shown # <<>> /\ ~astray
  <2>1. Order(c)
    BY <1>1, <1>5, <1>6 DEF PrintInv
  <2>2. Size(batch) \in Nat /\ N <= Size(batch)
    BY <1>1, SizeIs
  <2> QED BY <1>1, <2>1, <2>2 DEF PrintInv, Order
<1>8. /\ left \in Int /\ left <= 0 /\ left = c * (N - Len(shown)) /\ Len(shown) <= N
      /\ \A k \in 2..Len(shown) : shown[k] = N + 2 - k
  BY <1>1, <1>5, <1>6, <1>7 DEF PrintInv, Order
<1>9. shown \in Seq(0..N) /\ Len(shown) \in Nat \ {0} /\ shown[1] = 1
  BY <1>7 DEF PrintInv
<1>10. Len(shown) = N
  <2> DEFINE m == N - Len(shown)
  <2>1. m \in Nat /\ c * m <= 0
    BY <1>1, <1>8, <1>9
  <2> HIDE DEF m
  <2>2. 0 \in Int /\ m \in Int /\ (0 < m => c * 0 < c * m) /\ c * 0 = 0
    BY <1>5, <2>1, Multiples
  <2>3. m = 0
    BY <1>5, <2>1, <2>2
  <2> QED BY <1>1, <1>9, <2>3 DEF m
<1>11. ToSet(shown) = {shown[k] : k \in 1..N}
  BY <1>9, <1>10 DEF ToSet
<1>12. ASSUME NEW k \in 1..N PROVE shown[k] \in 1..N
  BY <1>1, <1>8, <1>9, <1>10
<1>13. ASSUME NEW m \in 1..N PROVE \E k \in 1..N : shown[k] = m
  <2>1. CASE m = 1
    BY <1>1, <1>9, <2>1
  <2>2. CASE m # 1
    <3>1. N + 2 - m \in 2..N /\ N + 2 - (N + 2 - m) = m
      BY <1>1, <2>2
    <3>2. shown[N + 2 - m] = m
      BY <1>8, <1>10, <3>1
    <3> QED BY <1>1, <3>1, <3>2
  <2> QED BY <2>1, <2>2
<1> QED BY <1>7, <1>11, <1>12, <1>13

(* Until bytes of a name are taken for a length, no event is printed       *)
(* twice; and when all have one size, that never happens and none is left  *)
(* out.                                                                    *)
THEOREM NothingPrintedTwice == LoopSpec => []PrintedOnce
<1>1. WatchInv /\ PrintInv => PrintedOnce
  BY AllPrinted DEF PrintInv, Distinct, PrintedOnce
<1>2. WatchInv /\ PrintInv /\ [LoopNext]_loopVars => (WatchInv /\ PrintInv)'
  BY NextWatch, NextPrint
<1>3. LoopInit => WatchInv /\ PrintInv
  BY InitWatch, InitPrint
<1> QED BY <1>1, <1>2, <1>3, PTL DEF LoopSpec

\* The variables keep their types, and what is left to print is in the buffer.
THEOREM LoopTypeCorrect == LoopSpec => []TypeOK
<1>1. WatchInv /\ PrintInv => TypeOK
  <2> SUFFICES ASSUME WatchInv, PrintInv PROVE TypeOK
    OBVIOUS
  <2>1. ASSUME NEW e \in ToSet(queue) \cup {pevent} PROVE e \in Events
    BY DEF ToSet, WatchInv, LoopTyped
  <2>2. ToSet(shown) \subseteq 0..Len(batch)
    BY DEF ToSet, PrintInv
  <2>3. \A e \in ToSet(queue) \cup {pevent} :
          e.on \in Paths \cup {NoName} /\ e.dir \in BOOLEAN /\ e.name \in Names \cup {NoName}
    BY <2>1 DEF Events
  <2>4. ToSet(batch) \subseteq Names \cup {NoName}
    BY DEF ToSet, WatchInv, LoopTyped
  <2> QED BY <2>2, <2>3, <2>4 DEF WatchInv, LoopTyped, PrintInv, TypeOK
<1>2. WatchInv /\ PrintInv /\ [LoopNext]_loopVars => (WatchInv /\ PrintInv)'
  BY NextWatch, NextPrint
<1>3. LoopInit => WatchInv /\ PrintInv
  BY InitWatch, InitPrint
<1> QED BY <1>1, <1>2, <1>3, PTL DEF LoopSpec
===============================================================================
