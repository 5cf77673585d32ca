--------------------------- MODULE FileManipulator ---------------------------
(***************************************************************************)
(* python/ibm: FileManipulator.py looks a command up in the modules of its *)
(* search path and executes it on a file; CoreCommands.py has the commands *)
(* Reverse and Sort.  Each process is one call of the program.  Meanwhile  *)
(* users change the modules, other calls use the same files, and a call    *)
(* may be killed.                                                          *)
(*                                                                         *)
(* The code of a module is the function from the commands it defines to    *)
(* what calling their names gives.  External: Python's imp module, which   *)
(* executes code over the module of that name the process already has, and *)
(* which leaves the compiled code of a source beside it, in directories    *)
(* that can be written: it replaces the .pyc there by a new one, fills it  *)
(* and dates it last.  While a call fills it the .pyc holds that call, and *)
(* it stays so when the call is killed.                                    *)
(***************************************************************************)
EXTENDS Integers, SequencesExt

CONSTANTS
  Procs, Dirs, Modules, Files,
  Core,        \* the name of the module CoreCommands
  Codes,       \* the code a module may have
  Broken,      \* code that does not compile
  Calls,       \* command lines, each with its MODULE_SEARCH_PATH, None when not set
  Cwd, None, Newline,
  Folders,     \* what the directories hold at first, one of these
  Letters,     \* what files are made of, apart from Newline
  Contents,    \* what the files hold at first, one of these; None when there is no file
  MaxEdits     \* bound on what users change

Exts == {"py", "pyc", "txt"}
Killed == 137  \* the status of a call that was killed
Classes == {"Reverse", "Sort"}
Texts == Seq(Letters \cup {Newline})

(* None stands for nothing else; files hold texts; a directory's files are *)
(* of the modules; and compiled code is that of a source that compiled.    *)
FilesOK ==
  /\ Codes \cap Procs = {} /\ Broken \notin Codes \cup Procs
  /\ None \notin Files \cup Modules \cup Classes /\ None \notin {0, 1, 4, Killed}
  /\ \A start \in Contents : start \in [Files -> Texts \cup {None}]
  /\ \A c \in Calls : {c.i, c.o} \subseteq Files \cup {None}
  /\ \A start \in Folders :
       /\ start = [d \in Dirs |-> start[d]]
       /\ \A d \in Dirs : \A f \in DOMAIN start[d] :
            /\ f \in Modules \X Exts /\ start[d][f] \notin Procs
            /\ ~(f[2] = "pyc" /\ start[d][f] = Broken)
ASSUME FilesAssumption == FilesOK

VARIABLES
  dirs,    \* the code in each directory's files, by module and extension
  file,    \* what each file holds
  pc, call,  \* where each call is, and its command line
  look,      \* the lookup: directories left, files left, last module and its source, modules
  cmd, buff, status,  \* the command it found, what it is to write, its exit status
  edits, since,  \* history: changes by users, and how many there were when a call began
  met,           \* history: the calls that came upon a half-written .pyc
  first,         \* history: what each file held at first
  spoilt         \* history: the files two calls had open at once, or one did not finish
progVars == <<pc, call, look, cmd, buff, status>>
vars == <<dirs, file, progVars, edits, since, met, first, spoilt>>

CoreCommands == [x \in Classes |-> x]
Lookup(path) == [path |-> path, listed |-> {}, last |-> None, code |-> None,
                 mods |-> [m \in Modules |-> IF m = Core THEN CoreCommands ELSE <<>>]]
Put(g, a, v) == [x \in DOMAIN g \cup {a} |-> IF x = a THEN v ELSE g[x]]
Executed(new, old) ==
  [x \in DOMAIN new \cup DOMAIN old |-> IF x \in DOMAIN new THEN new[x] ELSE old[x]]

Init ==
  /\ dirs \in Folders /\ file \in Contents /\ first = file
  /\ pc = [p \in Procs |-> "start"] /\ status = [p \in Procs |-> None]
  /\ call = [p \in Procs |-> None] /\ cmd = [p \in Procs |-> None]
  /\ look = [p \in Procs |-> Lookup(<<>>)] /\ buff = [p \in Procs |-> <<>>]
  /\ edits = 0 /\ since = [p \in Procs |-> 0] /\ met = {} /\ spoilt = {}
-----------------------------------------------------------------------------
At(p, here) == pc[p] = here
Goto(p, there, l) ==
  pc' = [pc EXCEPT ![p] = there] /\ look' = [look EXCEPT ![p] = l] /\ UNCHANGED status
Exit(p, code) ==
  /\ pc' = [pc EXCEPT ![p] = "ended"] /\ status' = [status EXCEPT ![p] = code]
  /\ look' = [look EXCEPT ![p] = Lookup(<<>>)]
Usage(c) == c.argc \notin 5..7 \/ ~c.switchesKnown \/ c.x = None \/ c.i = None
SearchPath(c) == (IF c.searchPath = None THEN <<>> ELSE <<c.searchPath>>) \o <<Cwd>>

(* main up to the lookup: the command line, and the path of directories.   *)
Start(p) ==
  /\ At(p, "start")
  /\ \E c \in Calls :
       /\ call' = [call EXCEPT ![p] = c]
       /\ IF Usage(c) THEN Exit(p, 1) ELSE Goto(p, "list", Lookup(SearchPath(c)))
  /\ since' = [since EXCEPT ![p] = edits]
  /\ UNCHANGED <<dirs, file, cmd, buff, edits, met, first, spoilt>>

\* Mutant: the lookup stays with the directory.
NextDir_Same(p) ==
  IF Len(look[p].path) = 1 THEN Exit(p, 4) ELSE Goto(p, "list", look[p])

\* cmdLookup: the directory gives nothing, the next one is tried.
NextDir(p) ==
  IF Len(look[p].path) = 1 THEN Exit(p, 4)
  ELSE Goto(p, "list", [look[p] EXCEPT !.path = Tail(@)])

\* load_module_from_dir: the names are listed once; a directory that is not there raises.
List(p) ==
  /\ At(p, "list")
  /\ LET d == Head(look[p].path)
     IN IF d \in Dirs
        THEN Goto(p, "load", [look[p] EXCEPT !.listed = DOMAIN dirs[d], !.last = None])
        ELSE Exit(p, 1)
  /\ UNCHANGED <<dirs, file, call, cmd, buff, edits, since, met, first, spoilt>>

\* Mutant: compiled modules are read as sources.
Loads_Source(d, f) ==
  f \in DOMAIN dirs[d] /\ dirs[d][f] \notin Procs \cup {Broken} /\ f[2] = "py"

Loads(d, f) == f \in DOMAIN dirs[d] /\ dirs[d][f] \notin Procs \cup {Broken}
Half(d, f) == f \in DOMAIN dirs[d] /\ dirs[d][f] \in Procs
Pyc(m) == <<m, "pyc">>
\* The .pyc has the date of the source: sources that differ have different dates.
UpToDate(d, f) == Pyc(f[1]) \in DOMAIN dirs[d] /\ dirs[d][Pyc(f[1])] = dirs[d][f]

(* One turn of its loop, in the order listdir happens to have: a file that *)
(* does not load, is half written or is gone by now, gives up the whole    *)
(* directory.  A source without an up to date .pyc begins a new one; that  *)
(* the old one is removed and the new one created is one step, as another  *)
(* call can load neither.                                                  *)
Load(p, f) ==
  /\ At(p, "load") /\ f \in look[p].listed
  /\ LET d == Head(look[p].path)
         rest == [look[p] EXCEPT !.listed = @ \ {f}]
         loaded == [rest EXCEPT !.last = f[1], !.code = dirs[d][f],
                                !.mods[f[1]] = Executed(dirs[d][f], @)]
     IN \/ f[2] = "txt" /\ Goto(p, "load", rest) /\ UNCHANGED <<dirs, met>>
        \/ /\ f[2] # "txt" /\ ~Loads(d, f) /\ NextDir(p) /\ UNCHANGED dirs
           /\ met' = IF Half(d, f) THEN met \cup {p} ELSE met
        \/ /\ f[2] # "txt" /\ Loads(d, f) /\ (f[2] = "pyc" \/ UpToDate(d, f))
           /\ Goto(p, "load", loaded) /\ UNCHANGED <<dirs, met>>
        \/ /\ f[2] = "py" /\ Loads(d, f) /\ ~UpToDate(d, f)
           /\ Goto(p, "compile", loaded) /\ UNCHANGED met
           /\ dirs' = [dirs EXCEPT ![d] = Put(@, Pyc(f[1]), p)]
  /\ UNCHANGED <<file, call, cmd, buff, edits, since, first, spoilt>>

(* load_source comes back with the .pyc written, unless another call has   *)
(* put its own in that one's place, or a user has removed it.              *)
Compiled(p) ==
  /\ At(p, "compile") /\ Goto(p, "load", look[p])
  /\ LET d == Head(look[p].path)
         f == Pyc(look[p].last)
     IN dirs' = IF f \in DOMAIN dirs[d] /\ dirs[d][f] = p
                THEN [dirs EXCEPT ![d][f] = look[p].code] ELSE dirs
  /\ UNCHANGED <<file, call, cmd, buff, edits, since, met, first, spoilt>>

(* cmdLookup again: only the module loaded last is looked at.  Without any *)
(* it is a local nobody assigned; what calling the name raises is caught   *)
(* by nobody.                                                              *)
Look(p) ==
  /\ At(p, "load") /\ look[p].listed = {}
  /\ LET m == look[p].last
         has == m # None /\ call[p].x \in DOMAIN look[p].mods[m]
         gives == IF has THEN look[p].mods[m][call[p].x] ELSE None
     IN \/ (m = None \/ gives = "raises") /\ Exit(p, 1) /\ UNCHANGED cmd
        \/ m # None /\ (~has \/ gives = "None") /\ NextDir(p) /\ UNCHANGED cmd
        \/ /\ gives \in Classes
           /\ cmd' = [cmd EXCEPT ![p] = gives] /\ Goto(p, "execute", Lookup(<<>>))
  /\ UNCHANGED <<dirs, file, call, buff, edits, since, met, first, spoilt>>
-----------------------------------------------------------------------------
readFile(p) == file[call[p].i]

(* execute: Sort only prints; Reverse reads all of its input.              *)
Execute(p) ==
  /\ At(p, "execute")
  /\ LET in == readFile(p)
     IN \/ /\ cmd[p] = "Sort" /\ Exit(p, 0) /\ UNCHANGED buff
        \/ /\ cmd[p] = "Reverse" /\ in = None /\ Exit(p, 1) /\ UNCHANGED buff
        \/ /\ cmd[p] = "Reverse" /\ in # None
           /\ buff' = [buff EXCEPT ![p] = Append(Reverse(in), Newline)]
           /\ IF call[p].o = None THEN Exit(p, 0) ELSE Goto(p, "open", look[p])
  /\ UNCHANGED <<dirs, file, call, cmd, edits, since, met, first, spoilt>>

Writers(f) == {p \in Procs : At(p, "write") /\ call[p].o = f}

\* Mutant: the file keeps what it holds until it is written over.
Opened_Kept(f) == IF file[f] = None THEN <<>> ELSE file[f]

Opened(f) == <<>>

(* writeFile: opening the output empties it; what is written gets there    *)
(* when the file is closed, which is left to the end of the process.       *)
Open(p) ==
  /\ At(p, "open")
  /\ LET f == call[p].o
     IN \/ /\ file' = [file EXCEPT ![f] = Opened(f)]
           /\ spoilt' = IF Writers(f) = {} THEN spoilt ELSE spoilt \cup {f}
           /\ Goto(p, "write", look[p])
        \/ Exit(p, 1) /\ UNCHANGED <<file, spoilt>>
  /\ UNCHANGED <<dirs, call, cmd, buff, edits, since, met, first>>

Over(new, old) == new \o SubSeq(old, Len(new) + 1, Len(old))

(* The end of the process closes the file.  When that cannot be written    *)
(* (a full disk) a part of it is there, and the status tells only of       *)
(* output too long for its buffer.                                         *)
Write(p) ==
  /\ At(p, "write")
  /\ LET o == call[p].o
     IN \/ /\ file' = [file EXCEPT ![o] = Over(buff[p], @)]
           /\ Exit(p, 0) /\ UNCHANGED spoilt
        \/ /\ \E n \in 0..(Len(buff[p]) - 1) : file' = [file EXCEPT ![o] = Over(SubSeq(buff[p], 1, n), @)]
           /\ \E code \in {0, 1} : Exit(p, code)
           /\ spoilt' = spoilt \cup {o}
  /\ UNCHANGED <<dirs, call, cmd, buff, edits, since, met, first>>

(* A call killed before it opened its output, and not in the middle of a   *)
(* .pyc, leaves what one that has not come further does.                   *)
Kill(p) ==
  /\ pc[p] \in {"compile", "write"}
  /\ Exit(p, Killed)
  /\ spoilt' = IF At(p, "write") THEN spoilt \cup {call[p].o} ELSE spoilt
  /\ UNCHANGED <<dirs, file, call, cmd, buff, edits, since, met, first>>

(* A user gives a module other code, or removes a file of it. *)
Edit(d, m) ==
  /\ edits < MaxEdits /\ edits' = edits + 1
  /\ \/ \E code \in Codes \cup {Broken} : dirs' = [dirs EXCEPT ![d] = Put(@, <<m, "py">>, code)]
     \/ \E f \in DOMAIN dirs[d] :
          f[1] = m /\ dirs' = [dirs EXCEPT ![d] = [g \in DOMAIN @ \ {f} |-> @[g]]]
  /\ UNCHANGED <<file, progVars, since, met, first, spoilt>>

Step(p) ==
  \/ Start(p) \/ List(p) \/ (\E f \in look[p].listed : Load(p, f)) \/ Look(p)
  \/ Compiled(p) \/ Execute(p) \/ Open(p) \/ Write(p)
Next == (\E p \in Procs : Step(p) \/ Kill(p)) \/ \E d \in Dirs, m \in Modules : Edit(d, m)
Spec == Init /\ [][Next]_vars /\ \A p \in Procs : WF_vars(Step(p))
-----------------------------------------------------------------------------
Gives(d, f, x) ==
  dirs[d][f] \notin Procs \cup {Broken} /\ x \in DOMAIN dirs[d][f] /\ dirs[d][f][x] \in Classes

(* What a user of cmdLookup can rely on, whatever the order of listdir and *)
(* whatever other calls compile meanwhile: when every module file of the   *)
(* directory searched first gives the command, and nobody changed any      *)
(* since, a call with a good command line gets to execute it, unless it    *)
(* came upon a .pyc another call was in the middle of writing.             *)
FoundWhenAllGive ==
  \A p \in Procs \ met :
    At(p, "ended") /\ status[p] # Killed /\ ~Usage(call[p]) /\ since[p] = edits =>
      LET d == Head(SearchPath(call[p]))
          code == {f \in DOMAIN dirs[d] : f[2] # "txt"}
      IN d \in Dirs /\ code # {} /\ (\A f \in code : Gives(d, f, call[p].x)) => cmd[p] # None

(* writeFile: unless two calls had it open at once, or one was killed over *)
(* it or could not write it all, a file nobody is writing holds what it    *)
(* did at first or all that one call wrote, in place or not; and a call    *)
(* that ended well left no file as it was.                                 *)
OutputWhole ==
  \A f \in Files \ spoilt : Writers(f) = {} =>
    LET done == {p \in Procs : status[p] = 0 /\ cmd[p] = "Reverse" /\ call[p].o = f}
    IN IF done = {} THEN file[f] = first[f] ELSE \E p \in done : file[f] = buff[p]

(* The lookup and the command end: every call comes to its exit. *)
CallEnds == \A p \in Procs : pc[p] # "start" ~> pc[p] = "ended"
=============================================================================
