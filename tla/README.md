# lab1: specifications, checks and proofs

This directory holds TLA+ models of the programs in this repository, the TLC
configurations that check them, and proofs checked by TLAPS. The repository is
a workshop: several independent programs and libraries, some of them finished,
some sketches. The models follow the code, line by line where it decides
something; where the code does not compile as it stands (`task1` has `= |=`
for `|=`, `i_count` for its argument, a call to the out-handler on the client's
in-handler; the handlers of `mem_db` use names that are gone) they take its
evident meaning.

To check one configuration: `tlc -config MCBulkStream.cfg MCBulkStream`; to
check the proofs of a module: `tlapm BulkStream_proofs.tla`.

## 1. Inventory

| Component | State | Operations | Talks to | Hard behaviours |
|---|---|---|---|---|
| **task1 bulk stream** (`DataStreamManager.cpp`, `SocketClient.cpp`, `LocalBuffer.h`) | result set, row count, message under construction, MSG_CONT flag; client's received rows | execute, add a row, end a bulk, send, receive, consume | the framing below it, the server thread above it | a message object reused for every bulk, end of set at the end of a bulk, exceptions between bulks |
| **task1 server** (`SocketServer.cpp`, `PracticalSocket.cpp`) | the listening socket, the listener's `threadParams`, one `TCPSocket` per connection, descriptors | bind and listen, accept, start a thread, read a request, reply, delete the socket | clients, the bulk stream | two threads on one `threadParams`, early returns that keep a connection, SIGPIPE, no descriptors left, clients that left before `accept` |
| **task1 framing** (loops over `send`/`recv` in four functions) | bytes left to send, bytes left to receive | send loop, header loop, payload loop | TCP | partial reads and writes, connection lost in the middle |
| **producer-consumer** (`producer_task.cpp`, `consumer_task.cpp`, `serialization_utils.h`) | producer's socket and message number, consumer's listener and connection | connect, reconnect, send, acknowledge | each other over AF_UNIX | crash and restart of either side, writes to a dead peer, several producers on a consumer that serves one |
| **mem_db array layout** (`layouts.h`, `data_structs.h`) | stack of free slots, bit map, row memory, column definitions | addEntry, findEntry, updateEntry, delEntry | allocator below, flow manager above | two structures for the same slots, a counter that lives too long, shifts past the word, a pointer that never goes back |
| **mem_db server** (`main.cpp`, `flow_manager.cpp`, `Task.cpp`) | the thread of the task, the registry of tables | start, run, create, insert, select, update | acceptor, allocator | registry made anew by each create, search past its end |
| **mem_db allocator** (`shm_handler.cpp`) | one System V segment with a chunk header, the file `id` | constructor, allocChunk, disposeChunk | other servers, the tool | two servers at one key, a segment left behind by a failure, removal by others |
| **mem_db shared memory tool** (`shm_control.cpp`) | its count of segments, the option read last | display, delete, delete by id, amount | the segments of servers and of other programs | a size taken for a count, a count that is old, loops up to it |
| **common/nw acceptor** (`Acceptor.cpp`, `nw_message.h`, `macros.h`) | listening socket, epoll set, the batch of events, the status of the last request, the message being read | start-up, event loop, accept, handle_request | clients | blocking reads in an event loop, end of file taken for data, one status for a batch of requests |
| **MessageStore** (`ClientUiTask.cpp`, `UserManager.cpp`, `StdStreamIODevice.cpp`) | map from hash to message box, the line asked for, the input stream | add a user, send, receive, exit | the user over a stream, main | users told apart by a hash of joined names, an iterator that may be the end, a stream that ends within a line |
| **pocs/inotify** (`inotify_test.cpp`) | watch list, read buffer | add a watch, read, print | kernel, whoever changes files | several events in one read, directories made while the program is busy |
| **python** (`ibm/FileManipulator.py`, `CoreCommands.py`) | search path, loaded modules, the command found, the output buffer | look up, read, execute, write | the files and modules of a user, other calls | order of `listdir`, compiled code beside sources, an output emptied before it is written |
| **phone-officer** (`preload_utils.c`) | `environ` | find, insert and update an entry | the preloaded process | entry overwritten by the terminator, memory freed that others hold |
| **loader_magic** | a `dlopen` handle | open, move, close | libdl | move assignment over a handle in use |
| scrap, pagaya, fukushima, app-srv, machine-saver, dev_env, ut-fw | none, or stubs | | | |

What makes each component correct:

- *bulk stream*: rows arrive in order, none lost or repeated; the client stops
  exactly when all have arrived; a failure is never taken for a complete
  answer; the result set is freed and both sides end.
- *server*: a thread serves the connection it was started for; a connection is
  answered at most once, shared or not, and closed exactly once; no query is
  forgotten.
- *framing*: whole packages in order, whatever TCP does to the bytes; a client
  that waits for its answer does not wait for ever.
- *producer-consumer*: an acknowledgement belongs to the message just sent; no
  message is handled twice or out of order; a crash of one side does not take
  the other down; no wait lasts for ever.
- *array layout*: a slot is free or in use, never both; a row stays where it
  was put; a search finds every row that matches and no other; an update
  changes what it names.
- *mem_db server, allocator, tool*: two servers never build one segment; what a
  failed server leaves behind is known; no creation is held up; the tool's count
  is the number of segments, and a deletion of all deletes all.
- *acceptor*: whole messages are handled in order; the only thread never waits
  for something that is not there; what a client sends is read at last.
- *MessageStore*: a message is kept until it is shown, shown once, in order, to
  its addressee, as it was typed.
- *inotify*: what happens in the directory is printed once; a directory made or
  moved in is watched; the program comes back to its read.
- *FileManipulator*: a command that is there is found, whatever other calls are
  doing; an output file is whole;
  every call ends.

`PROJECT.json` lists every hazard at its line, with the properties that
cover it, or why none does.

## 2. Modules

| Module | Models | Extends / instantiates |
|---|---|---|
| `BulkReply` | abstract: what a client may rely on when it asks for rows | |
| `BulkStream` | server's `handleProtoBuffSend` and client's `handleProtoBuffRecv`/`consume` | `BulkReply` by refinement |
| `BulkStream_proofs` | proofs about it | `BulkStream` |
| `SocketServer` | main, listener, connection threads, clients | |
| `SocketServer_proofs` | proofs about it | `SocketServer` |
| `PackagePipe` | abstract: whole packages, in order | |
| `FramedSocket` | send and receive loops byte by byte | `PackagePipe` by refinement |
| `FramedSocket_proofs` | proofs about it | `FramedSocket` |
| `ProducerConsumer` | producers, the consumer, crashes and restarts | |
| `ProducerConsumer_proofs` | proofs about it | `ProducerConsumer` |
| `ArrayLayout` | the layout's four operations | |
| `Acceptor` | start-up, the event loop, its requests, clients | |
| `Acceptor_proofs` | proofs about it | `Acceptor` |
| `MailStore` | abstract: boxes with owners, mail put in and taken out | |
| `MessageStore` | the user interface thread, the stream, the user manager | `MailStore` by refinement |
| `MessageStore_proofs` | proofs about it | `MessageStore` |
| `MemDbServer` | servers up to their first table, the shared segment, the tool | |
| `MemDb_proofs` | proofs about both parts of mem_db | `ArrayLayout`, `MemDbServer` |
| `InotifyLoop` | the watching program, the kernel's queue, file changes | |
| `FileManipulator` | calls of the program, users, kills | |
| `FilePrograms_proofs` | proofs about the two programs on files | `InotifyLoop`, `FileManipulator` |
| `MC...` | instances for TLC | the module of that name |

A proofs module that extends two components sees all the names of both. In
`InotifyLoop` and `MemDbServer` the names that every specification has are
therefore longer: `LoopSpec`, `MemDbSpec`, `loopVars`, `memDbVars`, `place`,
`Begin`.

### BulkStream

`spc` is where the server thread is: `execute` (the query runs), `fill` (the
row loop, lines 217-228 of `DataStreamManager.cpp`), `send` (`sendBulk`),
`cleanup` (the result set is deleted and `executeTask` deletes the socket).
`cpc` is the client's. Rows are numbered, so that a lost, repeated or swapped
row shows; of a row's text only the length counts. `protobufRespond` is one
record that the server fills, sends and clears, exactly when the code does, and
this is why a field that is not set again is missing from the next bulk. The
connection is a queue of whole packages, which `FramedSocket` justifies. Every
exception path is an action: `ExecuteThrows`, `RowThrows`, `SendThrows`,
`SendKilled` (SIGPIPE), `RecvThrows`.

### SocketServer

Main binds and listens (`Main`, `SetLocalPort`, `SetListen`), or ends
(`StartFails`). From then on clients connect: they wait in the queue of the
socket, may have sent or gone before `accept` takes them, and are numbered in
that order; thread *t* is started for connection *t*. `slot` is the listener's
`threadParams`, one place on the stack for every turn of the loop;
`FillParams`, `Begin` and `ReadParams` are separate steps because nothing
orders them in the code. `raced` is a history variable: the slot was rewritten
while a started thread had not read it. A socket has `conn` (open or closed)
and a count of deletes. A request has two parts, header and payload; it is a
query, something that `executeTask` refuses (`bad`), or cut short (`partial`).
Using a socket after another thread's delete and deleting it twice are
undefined in C++. The model lets the call fail or read nothing, and the second
delete may end the process; and the memory or the descriptor of a deleted
`TCPSocket` may become that of a connection accepted later (`Accept`), after
which a thread that still works with the old one reads, answers and deletes the
new one. `reused` is a history of that. A thread that takes payload bytes for a
header (`garbled`) may wait for more, return, or throw. Nothing in `Reply` keeps
two threads from answering one connection: that they do not is the property
`AnsweredOnce`. Any error of `accept` ends the server (`AcceptThrows`), not only
the want of descriptors.

### FramedSocket

One writer, one reader, a connection that holds `SocketBuffer` bytes. The stream
is an answer, package by package until the server deletes the socket, or a
`query`: one package, after which the client keeps the connection open and waits
for the answer (`wpc` = `awaits`, `AnswerEnds`), as `sendQuery` does. A byte is
its package and its place in it. `Recv` may return any number of bytes up to
what was asked for; `RecvSize` has the bound of the header loop and that of the
payload loop. When `shortWrites` was chosen, `send` may take fewer bytes than
it is given, which POSIX permits, and which the code does not look at; `cut` is a
history of it. A query that was cut leaves both sides waiting for ever, which is
what the TODOs beside the loops say (`SocketServer.cpp:87`): the model has that
state, and `EndsUnlessCut` promises an end of every other run.

### ProducerConsumer

`conns` are all the connections ever made, each with the messages and
acknowledgements under way and which of its ends is open. `Connect` has both
outcomes the code accepts: a new connection and EISCONN on the old one,
whatever has become of it. Messages and acknowledgements are small enough to be
read and written in one piece; `readFromSocket` leaves the zeroed message, id 0,
when the other end is closed, and that is what the callers look at. A write to a
closed peer kills the writer, as neither program handles SIGPIPE.

### ArrayLayout

`pstack` and `capacity` are the fields of `Stack`, `bits` the set of bits that
are one, `mem` the cells of the segment with one cell for a column. `findEntry`
is a function over the bit numbers that carries the count of matches from row to
row as the code does; `Written` moves the pointer of `updateEntry` through its
writes; `findByUnknownName` is what every operation does with a name that is no
column. An update copies as many cells as the value it is given has
(`i_updBuff[j].sz`, `layouts.h:295`), less or more than the column. Three things
are abstracted: columns have one width; the segment ends
with the last row that is looked at, and a write behind it or behind the end of
a `ResultBuff` ends the process; the asserts of `bit_on` are compiled in. A
shift past the width of the word is undefined: `shiftWraps` chooses between the
two things processors do.

### Acceptor

`apc` is where the one thread is: in the constructor (`Construct`), about to
watch its listening socket (`WatchListening`), in `epoll_wait`, at an event of
the batch (`events`, `place`), or in `handle_request` (`header`, `switch`,
`body`). It is the build with `__TESTING_MODE`, which `nw/Makefile` asks for: a
message is written to the log and nothing goes back. A header is two numbers, a
body is letters, and they arrive one at a time; `ReadHeader` and `ReadBody` are
the turns of the drain loop and `AtEof` its other end, after which the code goes
on as if all had been read. A client whose size is 0, as in the unit tests,
leaves its body behind, and the letters are read as the next header.
`epoll_wait` returns at most `MAX_EVENTS` of what is ready, in any order.
`outcomes` is a history of the batch. A size above `MAX_MSG_SZ`, for which the
code has no check, is outside the model. An interrupted `epoll_wait` changes
nothing and is a stuttering step.

### MessageStore

`ui` is the line the user interface thread asks for; each action handles one
line and asks for the next, so `handleSendToUser` is three actions, with
`userFrom` and `userTo` its locals. A line is a sequence of characters because
what becomes of it decides who is who: `Cut` is `readLineFromStream` on a long
line, `Filled` is what the read loop makes up when the input ends within the
line, `parseUser` splits at the first space and `fullName` joins again without
it. The hash is taken to be injective, so a box belongs to a full name.
`StreamNotGood` is the exception that nothing catches. `sent` and `shown` are
histories by full name. `MailStore` says what is promised: mail put into an open
box is taken out once, in order.

### MemDbServer

Each server goes from `down` through `listen` (the flow manager's loop) to
`create`, where the first table constructs the process's allocator:
`GetSegment` (`shmget` with IPC_EXCL), `PlaceHeader`, `ExportId`. The code opens
the file `id` for reading and then writes to it, so `ExportId` ends the server;
no server ever gets as far as a table. `PlaceHeader` may fail before, when the
tool has removed the segment between `shmget` and `shmat`. A definition with too
many columns or too long a name overwrites the stack before it is looked at
(`Overrun`), which is undefined: the server crashes or goes on. That is a theorem, `NeverATable`, and the
reason why the model ends where it does: what follows in `handle_create` and
`allocChunk` is not reached. `maker` and `word` are the segment key 1 leads to
and its first word, the rest of the memory does not matter here. The tool reads
that word as a number of segments; where it asks for one to delete, no number may
be typed (`InvalidNumber`). Other programs own segments at the other keys.

### InotifyLoop

The file system is a function of paths below the watch point; `Make`, `Chmod`,
`Delete`, `MoveIn`, `MoveOut` and `Rename` are what anybody does. Each puts the
events the kernel has for it into `queue`: equal neighbours are one, moves are not
in the mask and have none, and a full queue gets one event that says so. `Read`
takes as many whole events as the buffer holds, and may fail (`ReadFails`); an
event is one chunk of 16 bytes and those of its name, `NameChunks`. `First` looks
at the first event of a read and adds a watch; `PrintEvent` is one turn of the
print loop, with `Offset` the place in the buffer the code computes. An offset
inside a name of fewer than 12 characters reads a length of 0 there. Inside a
longer name it reads whatever bytes are there, and with `EVENT_SIZE + len` as an
int (line 133) the size may be 0 or negative: `PrintAstray` prints anything, ends
in a fault, or never comes to an end, and `astray` remembers it. `overlooked` is a
history of the directories that were there before the watch, moved in, or
announced behind another event of their read or to a full queue.

### FileManipulator

Each process is one call of the program, step by step: `Start` (the command
line), `List` (`listdir`), `Load` (one turn of the loop, in any order, as
`listdir` promises none), `Look`, `Execute`, `Open`, `Write`. The code of a
module is a function from the commands it defines to what calling them gives.
`imp` is external: it executes a module over the one of that name the process
already has, and leaves compiled code beside a source. It creates the `.pyc` in
`Load`, fills it and dates it in a later step (`Compiled`); meanwhile the file
holds the call that writes it, and another call that loads it gets an exception,
which gives the directory up (line 80). `met` is a history of the calls that came
upon such a file. Users edit and remove modules meanwhile. A call may be killed
where that leaves something behind: while it compiles, and between `Open` and
`Write`. `Write` may fail with all, half or nothing of the text in the file; the
file object is closed at the exit of the interpreter, so the status may be 0 or 1
then. `spoilt` is a history of files two calls had open at once, one was killed
over, or one could not write.

## 3. Runs

| Run | Instance | States | Shows |
|---|---|---|---|
| `bulk_stream` | up to 4 rows of up to 3 bytes, limit 2 | 39 141 | rows in order, completeness, bulk sizes, release of the result set, refinement of `BulkReply` |
| `server_mixup` | 3 connections, 2 descriptors | 722 921 | who can be mixed up with whom; that nothing is, and every query ends, without the race; that two threads on one connection do not both answer it |
| `server_params` | 2 connections | violation | two threads, one connection |
| `framing` | a query, or an answer of 2 packages, of 0 to 3 bytes, header 2, chunk 2, buffer 3, full and short writes | 11 988 | whole packages in order, refinement of `PackagePipe`, both sides end unless a send was cut, and then no query is put together wrongly |
| `producer_consumer` | 2 producers, 2 messages, 2 crashes | 419 926 | acknowledgements, order, at most once, no wait for an answer lasts for ever |
| `consumer_down` | 1 producer, 3 messages, 2 crashes | violation | a consumer started again, and a producer that goes on with the dead connection |
| `array_layout` | 4 slots, bits to 6, 2 columns, values 0 and 1 of 0 to 2 cells, 1 update | 223 819 | slots, rows, searches, updates |
| `acceptor` | 2 clients, 2 messages and 1, batches of 2 | 451 457 | no event blocks, whole messages in order, which request decides, input is read at last |
| `message_store` | 3 lines for names of up to 3 characters, 2 texts, 2 messages to a name | 170 158 | mail is kept, shown once and as typed; refinement of `MailStore` |
| `mem_db_server` | 2 servers, 2 keys of other programs, size 4 | 339 728 | one builder of a segment, what failures leave, no creation is held up |
| `inotify_loop` | a short and a long name, 4 paths, moves, buffer of 4 chunks, queue of 2 events | 314 859 | what is printed, what is watched, the loop comes back to its read |
| `file_manipulator` | 2 calls of 6, 3 files, 2 directories, 2 modules, 1 edit | 674 901 | commands found, output whole, every call ends |

### Bounds, and why they are enough

- *bulk stream*: four rows of 0 to 3 bytes with a limit of 2 give bulks of one
  row, of several, of rows without bytes, rows longer than the limit, ends of
  set inside a bulk and exactly at its end, and answers of no row. Three bulks
  follow each other, so a field left over from one shows in the next. The
  safety part is proved without bounds.
- *server*: a mix-up takes two connections, a third shows what a late thread
  does to two others, and takes the memory of a deleted socket that a thread
  still uses. Two descriptors for three connections make `accept` run
  out of them. The safety part is proved without bounds.
- *framing*: header and payload are longer than a chunk, a package is longer
  than the buffer, payloads may be empty, and the second package shows what the
  first leaves behind. The safety part is proved without bounds.
- *producer-consumer*: two crashes let each side, or one side twice, go down in
  one exchange; `MaxMsgs`, `MaxCrashes` and `MaxRuns` are the bounds in the
  guards. A producer whose messages are sent stays in `connect`, so deadlock is
  not checked there. The safety part is proved for all values of the bounds.
- *array layout*: four slots stand for 32 and `MAX_BIT` = 7 for 49: behind the
  word by more than one, by less than a word. Slot 0 and the full layout are
  reached, five rows found overflow a `ResultBuff` of four; the values of an update
  have no cell, that of the column, or one more. The layout may end
  in an abort or with `MaxUpdates` used, so deadlock is not checked. All the
  properties of this run are proved without bounds.
- *acceptor*: two clients and batches of two events put a request, a new
  connection and a second request in every order into one batch; two messages
  of one client show what the first leaves for the second. Messages have a body
  of one letter and come with their size, without it, or as TRM. The loop may
  end, so deadlock is not checked. The safety part is proved without bounds.
- *message store*: `a bc`, cut to three characters, `ab`, and what the end of
  the input makes of them are different users with one full name; `b ` has a
  space and nothing behind it. A text is longer than `MAX_MSG_SIZE`. Two
  messages to a name (`MaxSent`) have an order. Proved without bounds.
- *mem_db server*: two servers compete for the key, and one may run again over
  what the other left; the keys 2 and 3 let the tool's loops go on for none, one
  or two segments before they miss one; `Mega` = 4 is more than the keys in
  use, as 2^20 is. The safety part is proved without bounds.
- *inotify*: two directories in the watch point and one below, with the name of
  one above, since the path of a new directory is made of the watch point and the
  name. Events have one, two or three chunks, one name is short and one is not:
  the buffer of four takes an event with the long name and one more, two with
  the short one, or several without, and the place the loop computes can be the
  start of an event, inside a short name and inside a long one.
  `MaxQueuedEvents` = 2 lets the queue overflow. The program may end, so deadlock
  is not checked. The safety part is proved without bounds.
- *FileManipulator*: the module in both directories has the commands of
  `CoreCommands`; beside it are a text file and compiled code with the name of
  `CoreCommands`. Calls miss arguments, miss the directory, miss the input, write
  in place, and write to another file that is longer than what is written. Two
  calls that compile the same source are enough for one to come upon the other's
  half-written `.pyc`, one edit (`MaxEdits`) to change what a call sees between
  two of its steps. When both calls have ended nothing happens, so deadlock is
  not checked. The safety part is proved without bounds.

### Fairness

Threads and processes keep running (`WF` on the listener, each server thread,
each side of the stream, each producer, the consumer, the watching program, each
call of `FileManipulator`): the code's loops have no step that waits for
anything but input. Nothing is assumed of failures, crashes, restarts, new
connections or requests, of users or of other programs. In `FramedSocket` a
writer whose reader has stopped gets an error at last, since TCP reports a
closed peer, and the server's thread answers a query it has taken and ends
(`AnswerEnds`). In `BulkStream` the fairness is of the server as a whole, as it is
one thread. `AnswerComes` excepts the producer that waits in the backlog while
another one is served: it waits as long as that one stays connected, which is
how the consumer is written. In `Acceptor` the thread keeps running and a client
writes a message it has begun to the end unless it leaves (`WF` on `Arrive`):
without that one client could hold up all others for ever, as the code has no
time limit. In `MemDbServer` a server that has begun to create a table goes on
(`WF` on `Creates`); whether a message comes is up to the clients. In
`MessageStore` the thread ends when its input has, and main's join returns; a
user may leave it waiting for a line.

## 4. Findings

Two runs have a property that quotes the repository and that TLC refutes.

1. `threadParams` is a local of the accept loop although the comment wants
   separate memory for each client (`SocketServer.cpp:42`): `SeparateParams`.
2. A producer whose consumer went down is to reconnect
   (`producer_task.cpp:58`), and `connect` on the socket of the dead connection
   says EISCONN, which the code takes for success (line 50):
   `ReconnectsWhenDown`. In the trace the consumer starts, the producer connects
   and sends, the consumer crashes, the producer's read ends at the end of file,
   the consumer is started again, and `handleConnect` then goes on to the next
   write with a connection that has nobody at its other end.

The modules state more, which TLC refutes just so when they are put in the
place of the property of the run named here:

- `IntermediateSumOnEveryBulk` (`bulk_stream`): the row sums that
  `SocketClient.cpp:125` expects on every bulk are on the last only.
- `LimitNotCrossed` (`bulk_stream`): the limit that `DataStreamManager.cpp:221`
  is "extra careful not to cross" is crossed by the last row of a bulk.
- `GivenIsWritten` (`framing`): a `send` that takes part of a chunk drops the
  rest, although `PracticalSocket.h:154` says it writes the buffer.
- `ProducerDownNotFatal` (`consumer_down`): a consumer that acknowledges a
  message of a producer that is gone dies, although `consumer_task.cpp:69` says
  it waits for new connections.
- `ClosedAtTaskEnd` (`server_params`): the early returns of `executeTask` do not
  close the connection, although `SocketServer.cpp:184` warns of it.
- `UpdateStaysInRows` (`array_layout`, with 3 columns): `updateEntry` with two
  columns writes the second one behind its place (`layouts.h:294`, test
  `layouts_tests.cpp:233`).
- `FoundMatches` (`array_layout`): `findEntry` adds up matches of different rows
  (`layouts.h:340`) and reports a row that matches in part, of which
  `layouts.h:367` prints that it matches nicely.
- `FoundIsSlot` (`array_layout`): `MAX_BIT` is 0x31, 49, where
  `data_structs.h:81` says 31, and rows are found where no slot is.
- `DeletedIsFree` (`array_layout`): `delEntry` frees nothing, although
  `layouts.h:303` says it marks the bits as available. `SlotsAccounted` holds
  with either behaviour.
- `AmountIsCount` (`mem_db_server`): what the tool prints as the "current amount
  of segments" (`shm_control.cpp:125`) is the size of the allocator's segment.
- `OneNestingLevel` (`inotify_loop`): "only one nesting level" is watched, says
  the note in `main`; a watched directory that is moved into another one stays
  watched there.
- `StoppedByUser` (`acceptor`): the acceptor is stopped "by user"
  (`Acceptor.cpp:142`) when any client closes its connection: the end of file is
  read as a header of type INV, and what `handle_request` returns of it ends the
  loop.

Some divergences are in the models as the code has them, with no property of
their own: `CmdLookupMng` of `FileManipulator.py` says that each module is
loaded and scanned, and only the one loaded last is looked at
(`FoundWhenAllGive` says what is left of the promise); and what another call is
in the middle of compiling makes it give the directory up. In `mem_db` the
comments and tests want more than the server does: `shm_handler.cpp:62` says that
the id "is garenteed to be on the disk now", `flow_manager.cpp:125` prints that the
layout was created and `layouts_tests.cpp:33` expects one, but the file is not
open for writing and the server ends in `ExportId` (`NoTable`, a theorem about the
code as it is, not a promise: a repaired server would break it, and would keep
`CreationConcludes`). The deletion of all segments, which goes by the tool's
count, runs into the first key that is missing and ends the tool.

## 5. Proofs

All are for every value of the constants that their `ASSUME`s admit. Where an
invariant alone is not inductive, the strengthening was checked by TLC on the
instance of the run before it was proved.

**BulkStream.** Assumptions: `MaxRows` and `MaxRowLen` are naturals, the limit
is at least 1, an unset type reads as STATUS or RESULT. `RowsInOrder` is not
inductive: it says nothing of the rows under way. `IInv` adds that the packages
in the channel form a chain from the rows the client has to those of the message
under construction (`RowsInFlight`, with the row numbers at which packages end
as witnesses), that the message under construction ends with the row taken last
(`RowsUnderConstruction`), what the server's place says of its flags
(`ServerControl`), and that a package without MSG_CONT is the last
(`FinalTakesAll`). One lemma for each action shows that it preserves `IInv`;
sending appends a link to the chain, receiving takes one off. Proved:
`TypeCorrect`, `Invariance`, `RowsStayInOrder`, `CompletenessOfFinal`,
`FinalityOfFinal`.

Two further invariants stand on `IInv`. `ShownInv` follows the grand total that
`consume` takes for the number of rows in a message (`SingleAnswerShown`).
`FullInv` relates `totalBulkSz` to the bytes of the rows in the message
(`FullnessOfBulks`); the bytes of a bulk are a difference of `BytesUpTo`, a
recursive function, and that it obeys its recursion is itself proved as a safety
property of the rows taken, one more with each step, so that `PTL` does the
induction.
`ReplySteps` is the part of `ReplyPromised` without fairness: what the client
sees starts as a `BulkReply` does and every step is a step of it or a stutter.

**SocketServer.** Assumptions: `N` is a natural, `MaxFds` a positive one. What
holds without a race needs an invariant that knows, for each thread, that the
slot still holds its connection until it has read it, that a header comes before
a payload, and that nobody but the thread itself has closed the connection
(`ListenerControl`, `ClientControl`, `Undisturbed`). `AnsweredOnce` is about
connections that several threads read, after the race. It holds because the
header of a request is read once: whoever has read it holds the request
(`HoldsRequest`), nobody else on that connection does (`ReplyControl`), and
replying gives it up; a thread that comes later finds nothing or a payload in what
is left. It needs that no thread has been moved to another connection by the reuse
of a deleted socket (`reused`), for such a thread brings a request of its own.
Proved:
`TypeCorrect`, `Invariance`, `OwnOrLater`, `MixupNeedsRace`, `OneAnswer`,
`NoQueryAbandoned`.

**FramedSocket.** Assumptions: `SizesAssumption`. While every `send` takes what
it is given, the reader's place followed by the bytes on the wire is one chain
of bytes, each the next byte of its package or the first of the next package,
and the chain ends at the writer (`InStep`; `AllRead` when both are done). A
write appends links, a read takes some off, and as the chain knows where a
header ends and where a payload does, `recv` is never given bytes of the next
part. With short writes nothing of this holds, and `DeliveredIntact` claims
nothing there; `CutQueryNotTaken` is about those runs and only model-checked. Proved: `Invariance`, `TypeCorrect`, `PartsKeptApart`,
`PackagesIntact`, and `PipeSteps`, the part of `ImplementsPipe` without
fairness.

**ProducerConsumer.** Assumptions: `BoundsAssumption`. `HandledInOrder` and
`AckedWasHandled` need to know what may be under way: one message or one
acknowledgement on a connection at a time (`OneMessageUnderWay`), one live
connection for a run of a producer (`OneConnectionEach`), the connection served
apart from those waiting (`ConsumerServesOne`), a message not yet read is the one
after those handled (`UnreadIsNext`), and an acknowledgement on its way is for a
message that was handled (`AnsweredWasHandled`). Proved: `Invariance`,
`TypeCorrect`, `AckOfThisMessage`, `OrderOfHandling`, `NoFalseAck`.

**ArrayLayout** (in `MemDb_proofs`). Assumptions: there is a slot, `MAX_BIT` is not below the number
of slots, rows have a column, 0 is a value. `SlotOrder` says that the stack
holds the slots below `capacity` in order, the bits are those of the slots
above, and one row was added for each; with it `RowsStayPut` is inductive. The
arithmetic is in one lemma, `RowsApart`: rows of different slots share no cell.
Proved: `Invariance`, `SlotAccounting`, `RowPermanence`.

What `findEntry` and `updateEntry` compute is a recursive function over the bit
numbers and over the writes. That the function exists and obeys its recursion,
and what it returns, is induction over data. The library's theorems on induction
cannot be used, as they are about an operator, but the one on minimal elements
is about sets: `SetInduction` follows from it, a set of naturals that has 0 and
with each number the next has them all. With it `ScanExists` gives the scan step
by step, and its values follow: a row that matches is found whatever matched in
part before it, and what is found has its bit on and one of the values asked
for, whatever was carried to it. `SearchInv`
adds to `IInv` that only bits below `MAX_BIT` are on (`WordInBounds`), with the
two properties of the last search, which stay true until the next operation. The
writes of `updateEntry` are a function in the same way (`WritingExists`), each
turn of which only moves on (`StepForward`): one value of one row is written from
its column on, as many cells as it has, and no other cell changes (`WrittenOnce`). Proved: `TypeCorrect`, `NoRowMissed`,
`FoundMatching`, and the action property `OneValueUpdated`, for values of any
width.

**Acceptor.** Assumptions: the listening socket is not a connection, a batch has
room for an event, messages are what `MessagesAssumption` says. That an event of
a batch is still ready when its turn comes (`EventsReady`) holds because a
descriptor is in a batch once, a request takes only from its own connection,
and clients take nothing back; `StatusOfLast` relates `handleSts` to the last
request. Proved: `Invariance`, `EventsDoNotBlock`, `LastRequestIsDecisive`.

`LoggedIsSent` needs to know where in the stream of a connection the acceptor is
(`StreamInv`). What is written and not read, with what its client has yet to
write, is cut by numbers `b[j]`, where message `j` ends as seen from the next
number to be read: headers are where they should be, each message is as long as
it says. A number read brings all of them nearer by one (`StreamTail`), a
message begun adds one (`StreamAppends`). `Progress` says how far the message
under way is: before it, half its header, its header, its body, or the body of a
half header when the client left. A message can end early only when there is
nothing left to read and the client is gone, and then it is the last one
(`OnlyLastIsCut`). The invariant speaks of one connection, and any step that does
not touch it keeps it (`UntouchedKeeps`).

**MessageStore.** Assumptions: lines are sequences of strings, the sizes are
positive, `MaxSent` is a natural. That `sendToUser` always finds the box
(`BothUsersExist`) needs that boxes are never removed and that each name was
looked up when it was read; `KeptUntilShown` and `ShownToNamesakes` need it. A
text the input ended in is in a box at most, since the stream is bad from then
on: `SentAsTyped` says so while the stream is good. Proved: `Invariance`,
`TypeCorrect`, `SendFindsTheBox`, `MailKept`, `MailToNamesakes`, `MailAsTyped`,
and `Refinement`, that the program implements `MailStore`; that one is complete,
as `MailStore` has no fairness.

**MemDbServer.** Assumptions: `NoOne` is no server, other programs' keys are
between 2 and `Mega`. The invariant follows each server through its allocator's
constructor and says whose segment is at the key (`Segments`). Proved (in
`MemDb_proofs`): `ServersInvariance`, `ServersTypeCorrect`, `NeverATable`,
`Exclusive`, `Leftover`.

**InotifyLoop.** Assumption `WatchAssumption`: paths are sequences of names,
`NoName` is none of them, and the buffer takes any one event, for the code
makes it larger than an event with the longest name. For what is watched,
`WatchInv` adds to the property (`Cover`) the types and that nothing is watched
before the program has come to it: a directory in the watch point is watched, was
overlooked, or has an event that waits, in the queue or as the first of the read.
A directory moved in or renamed becomes overlooked with the move, as it has no
event, and so does one whose event finds the queue full. What a change
adds to the queue leaves there what is in it (`QueuedAdds`): an event the kernel
drops is equal to one that waits. What a read takes off the queue is looked at,
if it is first, or becomes overlooked (`ReadWatch`).

`PrintedOnce` is about positions. `Pre(i)` is where event *i* of the buffer
begins. The code takes each further event from where the bytes that are left
would end, so that an event printed begins behind that place from then on
(`PrintInv`): the place only moves to the front, and no later event can be one
printed before. That is so until bytes of a name are taken for a length, which may
move the place anywhere (`astray`). When all events have one size *c* the place is
`c * (Len(batch) - Len(shown))`, the start of an event each time, and the events
come in the order 1, *n*, *n* - 1, ..., 2. `SizeIs` says what one event more adds
to a size. Proved: `UnwatchedIsExplained`,
`NothingPrintedTwice`, `LoopTypeCorrect`.

**FileManipulator.** Assumption `FilesAssumption`: `None` stands for nothing
else, files hold texts, a directory's files are of the modules, and no compiled
code is of a source that does not compile. For `OutputWhole`, `OutInv` adds that
a file that is not spoilt has one writer at most and is empty while it has one:
so what is written over it is all it holds (`OverNothing`), also when the input
was the same file, as it was read before.

`FoundWhenAllGive` needs `FindInv`, which says how far a call has come that met no
half-written file: in the directory it searches first every source it listed is
still to be loaded or has its code compiled (`Listing`), so the module loaded last
gives the command if all do; otherwise the directory is `Hopeless`, some whole
source in it does not give it, and stays so. A half-written `.pyc` belongs to the
source its call is compiling, or to a call that was killed (`HalfOK`), so that
beginning and ending to compile leaves every source as it is (`LoadKept`,
`CompiledKept`). Proved: `OutputIsWhole`, `CommandIsFound`.

**Only model-checked.** Liveness (`ServerReleases`, `QueryEnds`, `EndsUnlessCut`,
`AnswerComes`, `InputIsRead`, `CreationConcludes`, `ReadsOn`, `CallEnds`) and the
fairness in `ReplyPromised` and `ImplementsPipe`: TLAPS does not reason about
ENABLED. `CutQueryNotTaken` is model-checked, too. Every other property of the
passing runs is a theorem, and so is the type invariant of `ProducerConsumer`,
which no run checks. The properties
of the two runs that find a violation are false, and there the run is all there
is to show.

## 6. Not modelled

- Row and message text, protobuf encoding, logging and `translateColumnType` (a
  table); UDP, multicast and name lookup in `PracticalSocket` (unused); columns
  of different width and the byte copies of `layouts.h`.
- What the handlers of the flow manager do with a table, and `allocChunk` and
  `disposeChunk`: no server gets there (`NeverATable`), and the handlers do not
  compile at this commit. They do have hazards that wait behind that: chunks of
  one size are placed on the same memory (`shm_handler.cpp:97`), disposing of
  one chunk removes the segment of all (`shm_handler.cpp:118`), each create
  makes the registries anew (`flow_manager.cpp:66`).
- More than one thread in a `MultiCoreTask` (`Task.cpp:14`): its only caller
  starts one.
- `phone-officer`'s preload library is one pass over an environment, pointer by
  pointer, and its hazards are of C memory. `loader_magic` is two value classes
  with a rule of ownership for each operator. Both are below the data these
  models keep, or within a unit test's reach.
- `scrap`, `pagaya`, `fukushima`, `app-srv`, `machine-saver`, `dev_env` and
  `ut-fw` have no state worth a model: experiments, one-pass scripts, stubs, an
  older copy of the acceptor, shell settings and test runners.

## 7. Plan

Done: the twelve runs above, with an abstract specification for the bulk stream,
the framing and the message store, and eight proof modules, in which every
safety property of the passing runs is a theorem. Next, in this order:

1. Simpler proofs where a lemma is stated twice in different modules: chains of
   packages (`BulkStream`) and of bytes (`FramedSocket`, `Acceptor`).
2. What a mixed-up thread cannot do in `SocketServer`, with the race: more than
   `OwnOrLater` and `OneAnswer` say, in particular of `reused`.
3. `SocketServer` composed with the state of `BulkStream` for each connection,
   to show that a reply stays a reply when threads are mixed up.
4. The three timed `popen` programs of `scrap`, if the rest leaves room.
