------------------------------ MODULE FramedSocket ------------------------------
(***************************************************************************)
(* A package of task1 on the wire: a header with the size of the payload,  *)
(* then the payload.  The writer passes the buffer to send in chunks; the  *)
(* reader calls recv until it has a header, then until it has the payload. *)
(* Both loops run over a bounded TCP stream that splits and joins what it  *)
(* carries.                                                                *)
(*                                                                         *)
(* One stream is the query, a single package that the client sends before  *)
(* it waits on the open connection for the answer of the server's thread   *)
(* (sendQuery to executeTask).  The other is the answer, package by        *)
(* package until the server deletes the socket (sendBulk to                *)
(* handleProtoBuffRecv).                                                   *)
(*                                                                         *)
(* A byte is the package it belongs to and its place in the package, so    *)
(* that bytes put together wrongly can be told from right ones.            *)
(***************************************************************************)
EXTENDS Naturals, Sequences

CONSTANTS
    Packages,                         \* how many packages are sent
    MaxPayload,                       \* the largest payload
    HeaderSize,                       \* sizeof(PackageHeader_St)
    MAXIMUM_PACKAGE_BUFFER_SIZE,      \* the most bytes in one send or recv
    SocketBuffer                      \* bytes the connection can hold

ASSUME SizesAssumption ==
    /\ Packages \in Nat \ {0} /\ MaxPayload \in Nat /\ HeaderSize \in Nat \ {0}
    /\ MAXIMUM_PACKAGE_BUFFER_SIZE \in Nat \ {0} /\ SocketBuffer \in Nat \ {0}

VARIABLES
    query,                \* the stream is a query and not an answer
    shortWrites,          \* send may take fewer bytes than it is given
    size,                 \* payload size of each package
    wpc,                  \* the writer: "send", "awaits" (the answer), "closed"
    package,              \* the package being sent
    totalSent,            \* bytes of it handed to send
    cut,                  \* history: a send took less than it was given
    wire,                 \* bytes sent and not received
    rpc,                  \* the reader: "header", "payload", "stopped" with
                          \* its socket closed, or "left" with it open
    leftToRecv,           \* bytes still wanted
    recvBuffer,           \* bytes received of the present part
    header,               \* the package whose header was read last; 0 for
                          \* none yet or nonsense
    delivered             \* packages read whole; 0 for one put together wrongly

writerVars == <<wpc, package, totalSent, cut>>
readerVars == <<rpc, leftToRecv, recvBuffer, header, delivered>>
setting == <<query, shortWrites, size>>
vars == <<setting, writerVars, wire, readerVars>>

------------------------------------------------------------------------------
Smaller(a, b) == IF a < b THEN a ELSE b

Byte(p, i) == [pkg |-> p, at |-> i]

(* Bytes first to last of package p, header included. *)
Bytes(p, first, last) == [i \in 1 .. last + 1 - first |-> Byte(p, first + i - 1)]

PackageSize(p) == HeaderSize + size[p]

(* The package without MSG_CONT; a query is one package. *)
LastPackage == IF query THEN 1 ELSE Packages

Init ==
    /\ query \in BOOLEAN
    /\ shortWrites \in BOOLEAN
    /\ size \in [1..Packages -> 0..MaxPayload]
    /\ wpc = "send"
    /\ package = 1
    /\ totalSent = 0
    /\ cut = FALSE
    /\ wire = <<>>
    /\ rpc = "header"
    /\ leftToRecv = HeaderSize
    /\ recvBuffer = <<>>
    /\ header = 0
    /\ delivered = <<>>

------------------------------------------------------------------------------
(* The writer. *)

sizeToSend ==
    Smaller(PackageSize(package) - totalSent, MAXIMUM_PACKAGE_BUFFER_SIZE)

(* How many of the bytes given to it the kernel takes.  send blocks until  *)
(* there is room; its result is looked at for errors only.                 *)
Accepted == IF shortWrites THEN 1..sizeToSend ELSE {sizeToSend}

Given(n) ==
    /\ wire' = wire \o Bytes(package, totalSent + 1, totalSent + n)
    /\ cut' = (cut \/ n < sizeToSend)

Counted_RetriesChunk(n) == IF n < sizeToSend THEN 0 ELSE sizeToSend

(* By how much the count of sent bytes goes up where the kernel took n: by *)
(* what was given.                                                         *)
Counted(n) == sizeToSend

(* After the last package of an answer the thread deletes its socket; a    *)
(* client keeps the connection of its query open.                          *)
CountUp(n) ==
    IF totalSent + n < PackageSize(package)
      THEN /\ totalSent' = totalSent + n
           /\ UNCHANGED <<wpc, package>>
      ELSE IF package < LastPackage
      THEN /\ totalSent' = 0
           /\ package' = package + 1
           /\ UNCHANGED wpc
      ELSE /\ wpc' = IF query THEN "awaits" ELSE "closed"
           /\ totalSent' = PackageSize(package)
           /\ UNCHANGED package

(* One turn of the send loop. *)
SendChunk ==
    /\ wpc = "send"
    /\ Len(wire) + sizeToSend <= SocketBuffer
    /\ \E n \in Accepted : Given(n) /\ CountUp(Counted(n))
    /\ UNCHANGED <<setting, readerVars>>

(* send failed, or the writer gave up: the connection is closed. *)
SendThrows ==
    /\ wpc = "send"
    /\ wpc' = "closed"
    /\ UNCHANGED <<setting, package, totalSent, cut, wire, readerVars>>

(* The thread answered the query and deleted its socket: the client has    *)
(* the answer, or the end of the connection, and is done with its own.     *)
AnswerEnds ==
    /\ wpc = "awaits"
    /\ rpc = "stopped"
    /\ wpc' = "closed"
    /\ UNCHANGED <<setting, package, totalSent, cut, wire, readerVars>>

------------------------------------------------------------------------------
(* The reader. *)

Reading == rpc \in {"header", "payload"}

(* An early return of executeTask leaves the socket open; the client's     *)
(* socket is closed however handleProtoBuffRecv returns.                   *)
Returned == IF query THEN "left" ELSE "stopped"

RecvSize_Unbounded == 1..Len(wire)

(* What one call of recv may return: some of the bytes there are, no more *)
(* than were asked for.                                                   *)
RecvSize ==
    LET asked == IF rpc = "header" THEN leftToRecv
                 ELSE Smaller(leftToRecv, MAXIMUM_PACKAGE_BUFFER_SIZE)
    IN 1 .. Smaller(asked, Len(wire))

IsHeaderOf(bytes, p) == bytes = Bytes(p, 1, HeaderSize)
IsPayloadOf(bytes, p) == bytes = Bytes(p, HeaderSize + 1, PackageSize(p))

StartPayload_KeepsBuffer(bytes) ==
    /\ rpc' = "payload"
    /\ recvBuffer' = bytes
    /\ \E p \in 1..Packages :
         IsHeaderOf(bytes, p) /\ header' = p /\ leftToRecv' = size[p]
    /\ UNCHANGED delivered

(* A complete header sets the size to wait for; bytes that are no header *)
(* are taken for one, with whatever size they spell.                     *)
StartPayload(bytes) ==
    /\ rpc' = "payload"
    /\ recvBuffer' = <<>>
    /\ \/ \E p \in 1..Packages : /\ IsHeaderOf(bytes, p)
                                 /\ header' = p /\ leftToRecv' = size[p]
       \/ /\ \A p \in 1..Packages : ~IsHeaderOf(bytes, p)
          /\ header' = 0 /\ leftToRecv' \in 0..MaxPayload
    /\ UNCHANGED delivered

(* Where the reader goes with package p: the client reads on while the     *)
(* header had MSG_CONT, the thread has its query and answers it.           *)
ReadOn(p) == IF p < LastPackage THEN "header" ELSE "stopped"

(* A complete payload is parsed and consumed. *)
Deliver(bytes) ==
    /\ \/ /\ header # 0 /\ IsPayloadOf(bytes, header)
          /\ delivered' = Append(delivered, header)
          /\ rpc' = ReadOn(header)
       \/ /\ ~(header # 0 /\ IsPayloadOf(bytes, header))
          /\ \/ /\ delivered' = Append(delivered, 0)
                /\ rpc' \in IF query THEN {"stopped"} ELSE {"header", "stopped"}
             \/ /\ rpc' = Returned       \* the bytes do not parse
                /\ UNCHANGED delivered
    /\ leftToRecv' = HeaderSize
    /\ recvBuffer' = <<>>
    /\ UNCHANGED header

Recv ==
    /\ Reading
    /\ leftToRecv > 0
    /\ wire # <<>>
    /\ \E n \in RecvSize :
         LET bytes == recvBuffer \o SubSeq(wire, 1, n) IN
         /\ wire' = SubSeq(wire, n + 1, Len(wire))
         /\ IF n < leftToRecv
              THEN /\ recvBuffer' = bytes
                   /\ leftToRecv' = leftToRecv - n
                   /\ UNCHANGED <<rpc, header, delivered>>
              ELSE IF rpc = "header" THEN StartPayload(bytes)
              ELSE Deliver(bytes)
    /\ UNCHANGED <<setting, writerVars>>

(* A payload of no bytes needs no recv. *)
EmptyPayload ==
    /\ rpc = "payload"
    /\ leftToRecv = 0
    /\ Deliver(<<>>)
    /\ UNCHANGED <<setting, writerVars, wire>>

RecvEof_HeaderOnly ==
    /\ rpc = "header"
    /\ wire = <<>>
    /\ wpc = "closed"
    /\ rpc' = Returned
    /\ UNCHANGED <<setting, writerVars, wire, leftToRecv, recvBuffer, header,
                   delivered>>

RecvEof_Delivers ==
    /\ Reading
    /\ leftToRecv > 0
    /\ wire = <<>>
    /\ wpc = "closed"
    /\ rpc' = Returned
    /\ delivered' = IF recvBuffer # <<>> THEN Append(delivered, header)
                    ELSE delivered
    /\ UNCHANGED <<setting, writerVars, wire, leftToRecv, recvBuffer, header>>

(* recv returned 0. *)
RecvEof ==
    /\ Reading
    /\ leftToRecv > 0
    /\ wire = <<>>
    /\ wpc = "closed"
    /\ rpc' = Returned
    /\ UNCHANGED <<setting, writerVars, wire, leftToRecv, recvBuffer, header,
                   delivered>>

(* recv failed or the buffer could not be had: the exception closes the    *)
(* socket on either side.                                                  *)
RecvThrows ==
    /\ Reading
    /\ rpc' = "stopped"
    /\ UNCHANGED <<setting, writerVars, wire, leftToRecv, recvBuffer, header,
                   delivered>>

------------------------------------------------------------------------------
Ended == wpc = "closed" /\ ~Reading

(* A client waits for ever for a thread that returned without an answer or *)
(* waits itself for bytes that were never sent.                            *)
Hung ==
    /\ wpc = "awaits"
    /\ rpc = "left" \/ (Reading /\ leftToRecv > 0 /\ wire = <<>>)

(* A writer whose bytes nobody reads, on a connection nobody closes. *)
Stuck == wpc = "send" /\ rpc = "left" /\ Len(wire) + sizeToSend > SocketBuffer

Finished == (Ended \/ Hung \/ Stuck) /\ UNCHANGED vars

Reads == Recv \/ EmptyPayload \/ RecvEof

Next ==
    \/ SendChunk \/ SendThrows \/ AnswerEnds
    \/ Reads \/ RecvThrows
    \/ Finished

(* Each side is a loop that keeps running.  No failure need ever happen,   *)
(* except that a writer whose reader is gone has its send fail at last.    *)
Spec ==
    /\ Init /\ [][Next]_vars
    /\ WF_vars(SendChunk)
    /\ WF_vars(AnswerEnds)
    /\ WF_vars(Reads)
    /\ WF_vars(rpc = "stopped" /\ SendThrows)

------------------------------------------------------------------------------
(* Properties. *)

TypeOK ==
    /\ query \in BOOLEAN
    /\ shortWrites \in BOOLEAN
    /\ cut \in BOOLEAN
    /\ size \in [1..Packages -> 0..MaxPayload]
    /\ wpc \in {"send", "awaits", "closed"}
    /\ package \in 1 .. Packages
    /\ totalSent \in 0 .. HeaderSize + MaxPayload
    /\ Len(wire) <= SocketBuffer
    /\ rpc \in {"header", "payload", "stopped", "left"}
    /\ leftToRecv \in Nat
    /\ header \in 0..Packages
    /\ rpc = "header" => Len(recvBuffer) + leftToRecv = HeaderSize
    /\ rpc = "payload" => Len(recvBuffer) + leftToRecv <= MaxPayload
    /\ ~shortWrites => Len(delivered) <= LastPackage /\ ~cut

(* However the stream splits and joins the bytes, the reader puts together *)
(* the packages that were sent, in order, none twice and none skipped.     *)
DeliveredIntact ==
    ~shortWrites => \A i \in DOMAIN delivered : delivered[i] = i

(* The bytes the reader holds are the beginning of one header or of one    *)
(* payload, that of the package whose turn it is: recv never takes bytes   *)
(* of the next part, so nothing is left over when a part is complete.      *)
PartsNotMixed ==
    LET turn == Len(delivered) + 1
        n == Len(recvBuffer)
    IN ~shortWrites =>
         /\ rpc = "header" => recvBuffer = Bytes(turn, 1, n)
         /\ rpc = "payload" =>
              /\ header = turn
              /\ recvBuffer = Bytes(turn, HeaderSize + 1, HeaderSize + n)

(* Packages whose last byte has been sent. *)
SentWhole ==
    IF totalSent = PackageSize(package) THEN package ELSE package - 1

(* Whole packages in order: the framing implements the pipe, if every send *)
(* takes what it is given.  Nothing is promised, and the pipe stays as it  *)
(* is, where one may take less.                                            *)
Pipe == INSTANCE PackagePipe WITH
    put <- IF shortWrites THEN 0 ELSE SentWhole,
    taken <- IF shortWrites THEN <<>> ELSE delivered,
    closed <- ~shortWrites /\ wpc = "closed",
    reading <- shortWrites \/ Reading

ImplementsPipe == Pipe!Spec

(* A query or an answer of which every byte was handed over comes to its   *)
(* end on both sides: neither waits for the other for ever, wherever a     *)
(* failure of one of them falls.  Where a send took less than it was given *)
(* the client hangs with an open connection, as the TODOs beside the       *)
(* loops say (SocketServer.cpp:87, :116), and this says nothing.           *)
EndsUnlessCut == <>(Ended \/ cut)

(* A query that lost bytes to a short send is waited for and never put     *)
(* together from other bytes, as long as its header came through.          *)
CutQueryNotTaken ==
    query /\ header # 0 => \A i \in DOMAIN delivered : delivered[i] = header

(* PracticalSocket.h:154, :158: send is to "Write the given buffer to this *)
(* socket", an exception "thrown if unable to send data": no byte given to *)
(* a send that returned is missing from the connection.                    *)
GivenIsWritten ==
    \A i \in 1 .. Len(wire) - 1 :
      LET byte == wire[i] IN
      wire[i + 1] = IF byte.at < PackageSize(byte.pkg)
                    THEN Byte(byte.pkg, byte.at + 1) ELSE Byte(byte.pkg + 1, 1)

==============================================================================
