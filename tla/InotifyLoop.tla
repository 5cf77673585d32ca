----------------------------- MODULE InotifyLoop -----------------------------
(***************************************************************************)
(* pocs/inotify/inotify_test.cpp: one thread that watches a directory, is  *)
(* to watch the directories made in it, and prints what it reads from the  *)
(* inotify queue.  Anybody changes the file system meanwhile.              *)
(*                                                                         *)
(* A path is the sequence of names below the watch point, <<>> the watch   *)
(* point itself.  An event takes a chunk of 16 bytes, and as many more as  *)
(* its name has.  External: the kernel's queue and watches.                *)
(***************************************************************************)
EXTENDS Integers, FiniteSets, SequencesExt

CONSTANTS
  Names,         \* the names entries have
  Paths,         \* the paths there may be entries at, with their prefixes
  Entries,       \* what anybody makes or moves in: pairs of a path and a kind
  Touched,       \* the paths whose attributes anybody changes
  NoName,        \* the name of an event about the watched entry itself
  NameChunks,    \* the chunks each name takes in an event
  Short,         \* names shorter than 12 characters: a length read from them is 0
  BufferChunks,  \* EVENT_BUFFER_SZ in chunks
  MaxQueuedEvents \* events the kernel keeps before it drops them

(* The buffer takes every event: read(2) would fail otherwise. *)
WatchOK ==
  /\ Paths \subseteq Seq(Names) /\ <<>> \in Paths /\ NoName \notin Names
  /\ Entries \subseteq Paths \X {"dir", "file"} /\ Touched \subseteq Paths
  /\ NameChunks \in [Names -> Nat \ {0}]
  /\ Short \subseteq {n \in Names : NameChunks[n] = 1}
  /\ BufferChunks \in Nat \ {0} /\ \A n \in Names : 1 + NameChunks[n] <= BufferChunks
  /\ MaxQueuedEvents \in Nat \ {0}
ASSUME WatchAssumption == WatchOK

VARIABLES
  fs,          \* what is at each path
  watched,     \* the paths with an inotify watch
  queue,       \* the events nobody read yet
  place,       \* where the program is
  pevent,      \* the first event of the read, until the print loop moves it on
  batch,       \* the names in the events of the last read
  left,        \* bytesRead, in chunks
  shown,       \* the events of the batch printed so far, 0 for bytes that are none
  astray,      \* bytes of a name were taken for the length of an event since the read
  overlooked   \* history: directories there before the watch point was watched,
               \* moved in, announced behind another event of their read, or not at
               \* all because the queue was full
printed == <<pevent, batch, left, shown, astray>>
loopVars == <<fs, watched, queue, place, printed, overlooked>>

Kinds == {"none", "dir", "file"}
Top == {p \in Paths : Len(p) = 1}
Event(on, what, dir, name) == [on |-> on, what |-> what, dir |-> dir, name |-> name]
IsNewDir(e) == e.dir /\ e.what = "create"
Overflow == Event(NoName, "overflow", FALSE, NoName)
NoEvent == Event(NoName, "none", FALSE, NoName)

LoopInit ==
  /\ fs \in {f \in [Paths -> {"none", "dir"}] : \A p \in Paths \ {<<>>} : f[p] = "none"}
  /\ watched = {} /\ queue = <<>> /\ overlooked = {}
  /\ pevent = NoEvent /\ batch = <<>> /\ left = 0 /\ shown = <<>>
  /\ place = "stat" /\ astray = FALSE
-----------------------------------------------------------------------------
(* The kernel: an event about p goes to the watch on its directory and to  *)
(* the watch on p itself.  A full queue gets one event that says so and    *)
(* nothing else; an event equal to the last that waits is dropped.  Each   *)
(* of these is the queue q with what is added.                             *)
Full(q) == Len(q) >= MaxQueuedEvents
Queued(q, e) ==
  IF Full(q) THEN IF Overflow \in ToSet(q) THEN q ELSE Append(q, Overflow)
  ELSE IF q # <<>> /\ Last(q) = e THEN q ELSE Append(q, e)
ToParent(q, p, what) ==
  IF p # <<>> /\ Front(p) \in watched
  THEN Queued(q, Event(Front(p), what, fs'[p] = "dir" \/ fs[p] = "dir", Last(p))) ELSE q
ToSelf(q, p, what) ==
  IF p \in watched
  THEN Queued(q, Event(p, what, fs[p] = "dir" /\ what = "attrib", NoName)) ELSE q

Make(p, kind) ==
  /\ fs[p] = "none" /\ (p # <<>> => fs[Front(p)] = "dir")
  /\ fs' = [fs EXCEPT ![p] = kind]
  /\ queue' = ToParent(queue, p, "create")
  /\ overlooked' = IF Full(queue) THEN overlooked \cup ({p} \cap Top) ELSE overlooked
  /\ UNCHANGED watched

Chmod(p) ==
  /\ fs[p] # "none"
  /\ UNCHANGED <<fs, watched, overlooked>>
  /\ queue' = ToSelf(ToParent(queue, p, "attrib"), p, "attrib")

Delete(p) ==
  /\ fs[p] # "none"
  /\ \A c \in Paths : c # <<>> /\ Front(c) = p => fs[c] = "none"
  /\ fs' = [fs EXCEPT ![p] = "none"]
  /\ LET links == IF fs[p] = "file" THEN ToSelf(queue, p, "attrib") ELSE queue
     IN queue' = ToSelf(ToSelf(ToParent(links, p, "delete"), p, "delete_self"), p, "ignored")
  /\ watched' = watched \ {p}
  /\ overlooked' = overlooked \ {p}

(* Moves: their events are not in the mask, and a watch stays with what is *)
(* moved.  One into the tree comes from elsewhere; of one out of the tree  *)
(* nothing is seen any more; the watch point itself is not moved.          *)
MoveIn(p, kind) ==
  /\ p # <<>> /\ fs[p] = "none" /\ fs[Front(p)] = "dir"
  /\ fs' = [fs EXCEPT ![p] = kind]
  /\ overlooked' = overlooked \cup ({p} \cap Top)
  /\ UNCHANGED <<watched, queue>>

MoveOut(p) ==
  /\ p # <<>> /\ fs[p] # "none"
  /\ fs' = [r \in Paths |-> IF IsPrefix(p, r) THEN "none" ELSE fs[r]]
  /\ watched' = {r \in watched : ~IsPrefix(p, r)}
  /\ overlooked' = overlooked \ {p}
  /\ UNCHANGED queue

\* Where what is at r, in the tree moved from p to q, was before.
Before(r, p, q) == IF IsPrefix(q, r) THEN p \o SubSeq(r, Len(q) + 1, Len(r)) ELSE r

Rename(p, q) ==
  /\ p # <<>> /\ q # <<>> /\ ~IsPrefix(p, q)
  /\ fs[p] # "none" /\ fs[q] = "none" /\ fs[Front(q)] = "dir"
  /\ \A r \in Paths : IsPrefix(p, r) /\ fs[r] # "none" => Before(r, q, p) \in Paths
  /\ fs' = [r \in Paths |->
              IF IsPrefix(p, r) \/ Before(r, p, q) \notin Paths THEN "none"
                                                               ELSE fs[Before(r, p, q)]]
  /\ watched' = {r \in Paths : ~IsPrefix(p, r) /\ Before(r, p, q) \in watched}
  /\ overlooked' = (overlooked \ {p}) \cup ({q} \cap Top)
  /\ UNCHANGED queue

\* After the program's end nothing of this is seen any more.
Anybody ==
  /\ place # "ended"
  /\ \/ \E x \in Entries : Make(x[1], x[2]) \/ MoveIn(x[1], x[2])
     \/ \E p \in Touched : Chmod(p)
     \/ \E p \in Paths : \/ Delete(p) \/ MoveOut(p)
                        \/ \E q \in Paths : Rename(p, q)
  /\ UNCHANGED <<place, printed>>
-----------------------------------------------------------------------------
logFatalAndExit == place' = "ended"
startInotifyWatchList == logFatalAndExit \/ place' = "watch"

(* main: the argument must be a directory; the watch comes later. *)
Stat ==
  /\ place = "stat"
  /\ IF fs[<<>>] = "dir" THEN startInotifyWatchList ELSE logFatalAndExit
  /\ UNCHANGED <<fs, watched, queue, printed, overlooked>>

addPath2WatchList(p, next) ==
  IF p \in Paths /\ fs[p] # "none" THEN watched' = watched \cup {p} /\ place' = next
                                   ELSE logFatalAndExit /\ UNCHANGED watched

Watch ==
  /\ place = "watch"
  /\ addPath2WatchList(<<>>, "read")
  /\ overlooked' = {p \in Top : fs[p] = "dir"}
  /\ UNCHANGED <<fs, queue, printed>>

Chunks(name) == IF name = NoName THEN 1 ELSE 1 + NameChunks[name]
Size(names) ==
  Cardinality({at \in (1..Len(names)) \X (1..BufferChunks) : at[2] <= Chunks(names[at[1]])})
NamesOf(n) == [i \in 1..n |-> queue[i].name]
Fits(n) == Size(NamesOf(n)) <= BufferChunks

\* read(2) may fail, with a signal for instance: that ends the program.
ReadFails ==
  /\ place = "read" /\ logFatalAndExit
  /\ UNCHANGED <<fs, watched, queue, printed, overlooked>>

\* Mutant: the last event of the read is looked at.
Looked_Last(n) == queue[n]

\* listen2Events looks at the first event of the n it reads.
Looked(n) == queue[1]

\* read(2): as many whole events as the buffer takes; it blocks when there are none.
Read ==
  /\ place = "read" /\ queue # <<>>
  /\ LET n == CHOOSE k \in 1..Len(queue) :
                Fits(k) /\ \A j \in 1..Len(queue) : Fits(j) => j <= k
     IN /\ batch' = NamesOf(n) /\ pevent' = Looked(n)
        /\ queue' = SubSeq(queue, n + 1, Len(queue))
        /\ overlooked' = overlooked \cup
             {<<queue[i].name>> : i \in {j \in 2..n : queue[j].on = <<>> /\ IsNewDir(queue[j])}}
  /\ left' = Size(batch') /\ place' = "first"
  /\ UNCHANGED <<fs, watched, shown, astray>>

\* The path is made of the watch point and the name, wherever the event is from.
NewDir(e) == <<e.name>>

First ==
  /\ place = "first"
  /\ IF IsNewDir(pevent) THEN addPath2WatchList(NewDir(pevent), "print")
                         ELSE place' = "print" /\ UNCHANGED watched
  /\ UNCHANGED <<fs, queue, printed, overlooked>>

\* Mutant: a chunk too early.
Offset_Early == IF shown = <<>> THEN 0 ELSE left - 1

(* The print loop: the first event is at the start of the buffer, every    *)
(* further one where the bytes that are left would end.                    *)
Offset == IF shown = <<>> THEN 0 ELSE left
Begin(i) == Size(SubSeq(batch, 1, i - 1))
EventsAt(off) == {i \in 1..Len(batch) : Begin(i) = off}
FullSize(at) == IF at = {} THEN 1 ELSE Chunks(batch[CHOOSE i \in at : TRUE])

(* Inside a name that is not a short one, any bytes may be there where an  *)
(* event has its length.                                                   *)
LengthOfName(off) ==
  \E i \in 1..Len(batch) : /\ Begin(i) < off /\ off < Begin(i) + Chunks(batch[i])
                           /\ batch[i] \notin Short

\* Mutant: an event is as long as its name, without the header.
PrintEvent_Name ==
  /\ place = "print" /\ left > 0 /\ ~astray /\ ~LengthOfName(Offset)
  /\ LET at == EventsAt(Offset)
     IN /\ left' = left - (FullSize(at) - 1)
        /\ shown' = IF left' = left THEN shown ELSE Append(shown, CHOOSE i \in at : TRUE)
  /\ pevent' = NoEvent
  /\ UNCHANGED <<fs, watched, queue, place, batch, astray, overlooked>>

PrintEvent ==
  /\ place = "print" /\ left > 0 /\ ~astray /\ ~LengthOfName(Offset)
  /\ LET at == EventsAt(Offset)
     IN /\ shown' = Append(shown, IF at = {} THEN 0 ELSE CHOOSE i \in at : TRUE)
        /\ left' = left - FullSize(at)
  /\ pevent' = NoEvent
  /\ UNCHANGED <<fs, watched, queue, place, batch, astray, overlooked>>

(* A length read from a name may be anything: as an int, the size of the   *)
(* event may also be 0 or negative.  What is printed then may be outside   *)
(* the buffer, and the loop may go on for ever: left is 1 while it does.   *)
PrintAstray ==
  /\ place = "print" /\ left > 0 /\ (astray \/ LengthOfName(Offset))
  /\ astray' = TRUE
  /\ left' \in {0, 1}
  /\ place' \in {"print", "ended"}
  /\ UNCHANGED <<fs, watched, queue, pevent, batch, shown, overlooked>>

\* The print loop is over when no bytes are left; the next turn begins with none.
Again ==
  /\ place = "print" /\ left <= 0
  /\ left' = 0 /\ batch' = <<>> /\ shown' = <<>> /\ astray' = FALSE /\ place' = "read"
  /\ UNCHANGED <<fs, watched, queue, pevent, overlooked>>

Program == Stat \/ Watch \/ Read \/ ReadFails \/ First \/ PrintEvent \/ PrintAstray \/ Again
LoopNext == Anybody \/ Program
LoopSpec == LoopInit /\ [][LoopNext]_loopVars /\ WF_loopVars(Program)
-----------------------------------------------------------------------------
(* The variables have their types, and what one read leaves to print is in the buffer. *)
TypeOK ==
  /\ fs \in [Paths -> Kinds] /\ watched \subseteq Paths /\ overlooked \subseteq Seq(Names)
  /\ place \in {"stat", "watch", "read", "first", "print", "ended"} /\ astray \in BOOLEAN
  /\ ToSet(batch) \subseteq Names \cup {NoName}
  /\ \A e \in ToSet(queue) \cup {pevent} :
       e.on \in Paths \cup {NoName} /\ e.dir \in BOOLEAN /\ e.name \in Names \cup {NoName}
  /\ left \in Int /\ left <= BufferChunks /\ ToSet(shown) \subseteq 0..Len(batch)

(* listen2Events takes the events behind the first from the end of the     *)
(* buffer.  No event is printed twice, whatever the sizes, as long as no   *)
(* bytes of a name are taken for a length; and when all events of a read   *)
(* have one size, that never happens and each of them is printed.          *)
PrintedOnce ==
  /\ \A i, j \in 1..Len(shown) : ~astray /\ i # j /\ shown[i] # 0 => shown[i] # shown[j]
  /\ place = "print" /\ left <= 0 /\ Cardinality({Chunks(name) : name \in ToSet(batch)}) = 1
       => ~astray /\ ToSet(shown) = 1..Len(batch)

(* While the watch point is watched, a directory in it that is not watched *)
(* was there before the program, was moved in, was announced behind another *)
(* event of its read or to a full queue, or is being announced: no other   *)
(* interleaving of making, moving, removing, reading and adding leaves one *)
(* out.                                                                    *)
UnwatchedWasOverlooked ==
  <<>> \in watched /\ place # "ended" =>
    \A p \in Top : fs[p] = "dir" /\ p \notin watched =>
      \/ p \in overlooked
      \/ \E e \in ToSet(queue) \cup (IF place = "first" THEN {pevent} ELSE {}) :
           IsNewDir(e) /\ e.on = <<>> /\ <<e.name>> = p

(* listen2Events comes back to its read: events that wait are read, or the *)
(* program ends, or bytes of a name were taken for a length, after which   *)
(* it may print for ever.                                                  *)
ReadsOn == queue # <<>> ~> (place = "first" \/ place = "ended" \/ (place = "print" /\ astray))

(* What the note in main says, "only one nesting level", and what a        *)
(* watched directory that is moved into another one breaks.                *)
OneNestingLevel == \A p \in watched : Len(p) <= 1
=============================================================================
