----------------------------- MODULE MemDbServer -----------------------------
(***************************************************************************)
(* mem_db: servers on one host (main, the task's thread, the flow manager  *)
(* up to a table's memory), the allocator that the first table of a server *)
(* constructs, the shared memory segment they compete for, and the control *)
(* tool run beside them.                                                   *)
(*                                                                         *)
(* The allocator's segment has key 1; other programs own segments at other *)
(* keys.  A server that is over may be started again.  External: System V  *)
(* shared memory, and the acceptor that hands over messages.               *)
(***************************************************************************)
EXTENDS Integers, FiniteSets

CONSTANTS
  Servers,  \* server processes
  NoOne,    \* not one of them
  Keys,     \* the keys of other programs' segments, some 2..n
  Mega      \* MEGA, the size of the allocator's segment, more than the keys used

ASSUME MemDbAssumption ==
  NoOne \notin Servers /\ Keys \subseteq 2..Mega /\ Mega \in Nat \ {0, 1}

VARIABLES
  srv,      \* where each server is
  status,   \* the exit status of its last run, -1 for a crash
  maker,    \* the server whose segment key 1 leads to, or NoOne
  word,     \* the first word of that segment
  others,   \* the keys of the other segments there are
  tool,     \* what the tool does
  key,      \* its loop variable
  opt,      \* the option it read last
  segs,     \* s_num_of_seg
  removed   \* history: servers whose last segment the tool removed
memDbVars == <<srv, status, maker, word, others, tool, key, opt, segs, removed>>
segment == <<maker, word, removed>>
toolVars == <<tool, key, opt, segs>>

Options == {"exit", "display", "delete", "delete by id", "amount", "bad"}

MemDbInit ==
  /\ srv = [s \in Servers |-> "down"] /\ status = [s \in Servers |-> 0]
  /\ maker = NoOne /\ word = 0 /\ others \in SUBSET Keys /\ removed = {}
  /\ tool = "off" /\ key = 0 /\ opt = "exit" /\ segs = 0
-----------------------------------------------------------------------------
(* One server. *)
Goes(s, to) == srv' = [srv EXCEPT ![s] = to] /\ UNCHANGED status
Ends(s, code) == srv' = [srv EXCEPT ![s] = "down"] /\ status' = [status EXCEPT ![s] = code]

\* main: the task's one thread runs the flow manager, and main waits for it.
Start(s) == srv[s] = "down" /\ Goes(s, "listen") /\ UNCHANGED segment

(* A column without a name or of no type getTypSzByStr knows. *)
BadDefinition(s) == Goes(s, "listen")

(* More columns than MAX_COL_NUM, which is looked at behind the loop only, *)
(* or a name longer than its buffer: memory of the stack is overwritten.   *)
Overrun(s) == Ends(s, -1) \/ Goes(s, "listen") \/ Goes(s, "create")

(* handle_create makes new registries, reads the columns and gives up a    *)
(* definition that is not well formed; what is left gets a layout.         *)
handle_create(s) == Goes(s, "create") \/ BadDefinition(s) \/ Overrun(s)

(* The registry is not initialised before a creation; after one it has no  *)
(* tables, and the -1 for that is an index out of range once it is an      *)
(* unsigned short.  What follows is undefined: it may crash, or come back. *)
findTbIdx(s) == Ends(s, -1) \/ Goes(s, "listen")
handle_select(s) == findTbIdx(s)
handle_insert(s) == findTbIdx(s)
handle_update(s) == Goes(s, "listen")

\* run: one message after the other, until the acceptor fails.
Listen(s) ==
  /\ srv[s] = "listen"
  /\ \/ handle_create(s) \/ handle_select(s) \/ handle_insert(s) \/ handle_update(s)
     \/ Ends(s, 0)
  /\ UNCHANGED segment

\* Mutant: no IPC_EXCL.
Free_Shared == TRUE

\* Mutant: wait for the key instead of ending.
GetSegment_Waits(s) ==
  /\ srv[s] = "create" /\ maker = NoOne
  /\ maker' = s /\ word' = 0 /\ removed' = removed \ {s} /\ Goes(s, "header")

\* The allocator's constructor: shmget with IPC_EXCL, then the cleaning.
Free == maker = NoOne

GetSegment(s) ==
  /\ srv[s] = "create"
  /\ IF Free THEN maker' = s /\ word' = 0 /\ removed' = removed \ {s} /\ Goes(s, "header")
             ELSE Ends(s, 1) /\ UNCHANGED segment

(* The segment is attached and gets its chunk header.  Once the tool has   *)
(* removed it, shmat fails, or the tool has it attached still: what is     *)
(* written then is at no key.                                              *)
PlaceHeader(s) ==
  /\ srv[s] = "header"
  /\ \/ maker = s /\ word' = Mega /\ Goes(s, "export")
     \/ maker # s /\ (Ends(s, 1) \/ Goes(s, "export")) /\ UNCHANGED word
  /\ UNCHANGED <<maker, removed>>

\* Mutant: a server that fails removes its segment.
ExportId_CleansUp(s) ==
  /\ srv[s] = "export" /\ Ends(s, 3)
  /\ maker' = NoOne /\ word' = 0 /\ UNCHANGED removed

(* The id is written to a file opened with O_CREAT|O_SYNC, which is for    *)
(* reading: the write fails.  Opening it may fail before that.             *)
CanWrite == FALSE

ExportId(s) ==
  /\ srv[s] = "export"
  /\ \/ Ends(s, 1)
     \/ (IF CanWrite THEN Goes(s, "table") ELSE Ends(s, 3))
  /\ UNCHANGED segment

Server(s) == Listen(s) \/ GetSegment(s) \/ PlaceHeader(s) \/ ExportId(s)

AnyServer == (\E s \in Servers : Start(s) \/ Server(s)) /\ UNCHANGED <<others, toolVars>>

OtherProgram == /\ \E k \in Keys : others' = others \cup {k} \/ others' = others \ {k}
                /\ UNCHANGED <<srv, status, segment, toolVars>>
-----------------------------------------------------------------------------
(* The tool. *)
Exists(k) == (k = 1 /\ maker # NoOne) \/ k \in others

get_num_of_seg == segs' = word

ToolStart ==
  /\ tool = "off" /\ tool' = "menu" /\ opt' = "exit"
  /\ IF Exists(1) THEN get_num_of_seg ELSE segs' = 0
  /\ UNCHANGED <<srv, status, segment, others, key>>

(* A new option, no number, or the end of the input: that makes scanf      *)
(* return -1, which is not 0, and the last option is taken once more.      *)
Select ==
  /\ tool = "menu"
  /\ \/ \E o \in Options \ {"exit"} :
          /\ opt' = o /\ UNCHANGED segs
          /\ tool' = IF o = "bad" THEN "menu" ELSE o
     \/ tool' = "off" /\ UNCHANGED <<opt, segs>>
     \/ tool' = (IF opt = "exit" THEN "off" ELSE IF opt = "bad" THEN "menu" ELSE opt)
        /\ UNCHANGED <<opt, segs>>
  /\ key' = 1
  /\ UNCHANGED <<srv, status, segment, others>>

Amount ==
  /\ tool = "amount"
  /\ IF Exists(1) THEN get_num_of_seg /\ tool' = "menu" ELSE tool' = "off" /\ UNCHANGED segs
  /\ UNCHANGED <<srv, status, segment, others, key, opt>>

\* handle_delete_by_seg: IPC_RMID takes the segment from its key at once.
handle_delete_by_seg(k) ==
  /\ others' = others \ {k}
  /\ IF k = 1 THEN maker' = NoOne /\ word' = 0 /\ removed' = removed \cup {maker}
              ELSE UNCHANGED segment

\* No number is typed: back to the menu, with nothing deleted.
InvalidNumber == tool' = "menu" /\ UNCHANGED <<others, segment>>

DeleteById ==
  /\ tool = "delete by id"
  /\ \/ \E k \in 0..Mega :
          IF Exists(k) THEN handle_delete_by_seg(k) /\ tool' = "menu"
                       ELSE tool' = "off" /\ UNCHANGED <<others, segment>>
     \/ InvalidNumber
  /\ UNCHANGED <<srv, status, key, opt, segs>>

\* handle_delete: one segment after the other, back at the first that is missing.
Delete ==
  /\ tool = "delete"
  /\ \/ key > 1 + segs /\ tool' = "menu" /\ UNCHANGED <<key, others, segment>>
     \/ /\ key <= 1 + segs /\ Exists(key) /\ handle_delete_by_seg(key)
        /\ key' = key + 1 /\ UNCHANGED tool
     \/ /\ key <= 1 + segs /\ ~Exists(key) /\ tool' = "off"
        /\ UNCHANGED <<key, others, segment>>
  /\ UNCHANGED <<srv, status, opt, segs>>

(* handle_disply begins behind the allocator's segment; what it shows of a *)
(* segment lies before its start, where nothing may be mapped.             *)
Display ==
  /\ tool = "display"
  /\ \/ key > segs /\ tool' = "menu" /\ UNCHANGED key
     \/ key <= segs /\ Exists(key + 1) /\ key' = key + 1 /\ tool' \in {tool, "off"}
     \/ key <= segs /\ ~Exists(key + 1) /\ tool' = "off" /\ UNCHANGED key
  /\ UNCHANGED <<srv, status, segment, others, opt, segs>>

Tool == ToolStart \/ Select \/ Amount \/ DeleteById \/ Delete \/ Display
MemDbNext == AnyServer \/ OtherProgram \/ Tool

(* A server's thread goes on once a message is there. *)
Creates(s) == GetSegment(s) \/ PlaceHeader(s) \/ ExportId(s)
MemDbSpec ==
  /\ MemDbInit /\ [][MemDbNext]_memDbVars
  /\ \A s \in Servers : WF_memDbVars(Creates(s) /\ UNCHANGED <<others, toolVars>>)
-----------------------------------------------------------------------------
Building == {s \in Servers : srv[s] \in {"header", "export"}}

(* Types, and the count is the first word of a segment in one of its two states. *)
MemDbTypeOK ==
  /\ srv \in [Servers -> {"down", "listen", "create", "header", "export", "table"}]
  /\ status \in [Servers -> {-1, 0, 1, 3}] /\ maker \in Servers \cup {NoOne}
  /\ word \in {0, Mega} /\ segs \in {0, Mega} /\ others \subseteq Keys
  /\ tool \in {"off", "menu"} \cup Options /\ opt \in Options /\ key \in Nat
  /\ removed \subseteq Servers

(* A server never gets as far as a table: the constructor of its allocator *)
(* ends it at the latest when the id cannot be written, whatever other     *)
(* servers and the tool do meanwhile.                                      *)
NoTable == \A s \in Servers : srv[s] # "table"

(* IPC_EXCL: two servers never build the same segment.  The one at the key *)
(* is the segment of every server that is building, unless the tool took   *)
(* that server's segment away, and its header is not there before the      *)
(* server has written it.                                                  *)
OneBuilder ==
  \A s \in Building : /\ maker = s \/ s \in removed
                      /\ maker = s /\ srv[s] = "header" => word = 0

(* A server that could not export its id leaves its segment behind, with   *)
(* the header in it: that goes on until the server runs again, and only    *)
(* the tool ends it.                                                       *)
LeftBehind ==
  \A s \in Servers : srv[s] = "down" /\ status[s] = 3 =>
    s \in removed \/ (maker = s /\ word = Mega)

(* No server is held up in a creation, neither by another server's segment *)
(* at the key nor by the tool: it is over, with or without a table, and    *)
(* the server hears the next message or is down.                           *)
CreationConcludes ==
  \A s \in Servers : srv[s] = "create" ~> srv[s] \in {"down", "listen", "table"}

(* What the tool says of its count, and what is not so: shm_control.cpp:125 *)
(* "current amount of segments", of the size of the allocator's segment.    *)
AmountIsCount ==
  [][tool = "amount" /\ tool' = "menu"
     => segs' = Cardinality({k \in 1..Mega : Exists(k)})]_memDbVars
=============================================================================
