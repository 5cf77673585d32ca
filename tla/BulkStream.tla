------------------------------ MODULE BulkStream ------------------------------
(***************************************************************************)
(* One query of task1: the server's BulkDataOutStreamMngr cuts the result  *)
(* set into packages, the client's BulkDataInStreanMngr reads them back    *)
(* and hands each one to SocketClient::consume.                            *)
(*                                                                         *)
(* Two processes: the server thread inside handleProtoBuffSend (spc) and   *)
(* the client inside handleProtoBuffRecv (cpc).  Between them is a TCP     *)
(* connection, here a FIFO of whole packages: module FramedSocket shows    *)
(* that the header/payload framing provides it, and that a package cut off *)
(* in the middle is, for the reader, the end of the connection.            *)
(*                                                                         *)
(* A row of the result set is its index; its text is only its length.      *)
(***************************************************************************)
EXTENDS Naturals, Sequences

CONSTANTS
    MaxRows,              \* the longest result set considered
    MaxRowLen,            \* the longest CSV text of a row
    MAX_TRX_BUFFER_SZ,    \* size at which a bulk is sent
    DefaultType           \* what Respond::type() returns when it is not set

ASSUME MaxRowsAssumption == MaxRows \in Nat
ASSUME MaxRowLenAssumption == MaxRowLen \in Nat
ASSUME LimitAssumption == MAX_TRX_BUFFER_SZ \in Nat \ {0}
ASSUME DefaultTypeAssumption == DefaultType \in {"STATUS", "RESULT"}

VARIABLES
    total,                \* rows of the result set of this query
    rowLen,               \* length of the CSV text of each of them
    spc,                  \* where the server thread is
    resultSet,            \* the JethroResultSet: "none", "held" or "freed"
    count,                \* rows taken out of the result set
    totalBulkSz,          \* text size of the bulk under construction
    protobufRespond,      \* the message under construction
    cont,                 \* flags has MSG_CONT
    channel,              \* packages sent and not read yet
    cpc,                  \* where the client is
    received,             \* rows of the messages consumed so far
    bulks,                \* number of messages consumed
    shown,                \* rows printed by the client
    overrun               \* the client read past the rows of a message

serverVars == <<spc, resultSet, count, totalBulkSz, protobufRespond, cont>>
clientVars == <<cpc, received, bulks, shown, overrun>>
query == <<total, rowLen>>
vars == <<query, serverVars, channel, clientVars>>

------------------------------------------------------------------------------
Rows == 1..MaxRows

Respond == [type : {"unset", "STATUS", "RESULT"}, failure : BOOLEAN,
            rows : Seq(Rows), size : Nat, rowscount : Nat]

(* protobufRespond.clear(): every field goes back to its default. *)
Cleared == [type |-> "unset", failure |-> FALSE,
            rows |-> <<>>, size |-> 0, rowscount |-> 0]

Package == [msg : Respond, cont : BOOLEAN]

isEndOfSet == count = total

BulkFull_PastLimit(sz) == sz > MAX_TRX_BUFFER_SZ

BulkFull(sz) == sz >= MAX_TRX_BUFFER_SZ

Init ==
    /\ total \in 0..MaxRows
    /\ rowLen \in [1..total -> 0..MaxRowLen]
    /\ spc = "execute"
    /\ resultSet = "none"
    /\ count = 0
    /\ totalBulkSz = 0
    /\ protobufRespond = Cleared
    /\ cont = FALSE
    /\ channel = <<>>
    /\ cpc = "recv"
    /\ received = <<>>
    /\ bulks = 0
    /\ shown = <<>>
    /\ overrun = FALSE

------------------------------------------------------------------------------
(* The server: handleProtoBuffSend. *)

(* Both catch blocks: a FAILURE message is built, and left unsent. *)
CatchException ==
    /\ protobufRespond' = [protobufRespond EXCEPT !.type = "STATUS",
                                                  !.failure = TRUE]
    /\ spc' = "cleanup"
    /\ UNCHANGED <<resultSet, count, totalBulkSz, cont, channel>>

(* executeQuery returned NULL: a STATUS message is all the reply. *)
ExecuteToNull ==
    /\ spc = "execute"
    /\ protobufRespond' = [Cleared EXCEPT !.type = "STATUS"]
    /\ cont' = FALSE
    /\ spc' = "send"
    /\ UNCHANGED <<query, resultSet, count, totalBulkSz, channel, clientVars>>

(* executeQuery returned a result set: the bulk loop is entered unless it *)
(* is already at its end, and then nothing at all is sent.                *)
ExecuteToSet ==
    /\ spc = "execute"
    /\ resultSet' = "held"
    /\ protobufRespond' = [Cleared EXCEPT !.type = "RESULT", !.rowscount = total]
    /\ cont' = TRUE
    /\ spc' = IF isEndOfSet THEN "cleanup" ELSE "fill"
    /\ UNCHANGED <<query, count, totalBulkSz, channel, clientVars>>

(* executeQuery threw. *)
ExecuteThrows ==
    /\ spc = "execute"
    /\ CatchException
    /\ UNCHANGED <<query, clientVars>>

(* One turn of the inner loop. *)
AddRow ==
    /\ spc = "fill"
    /\ ~BulkFull(totalBulkSz)
    /\ ~isEndOfSet
    /\ count' = count + 1
    /\ protobufRespond' =
         [protobufRespond EXCEPT !.rows = Append(@, count + 1)]
    /\ totalBulkSz' = totalBulkSz + rowLen[count + 1]
    /\ UNCHANGED <<query, spc, resultSet, cont, channel, clientVars>>

(* getNextCSVRow threw. *)
RowThrows ==
    /\ spc = "fill"
    /\ ~BulkFull(totalBulkSz)
    /\ ~isEndOfSet
    /\ CatchException
    /\ UNCHANGED <<query, clientVars>>

(* finalizeStream: the grand total goes into the last message. *)
finalizeStream_NoSize(msg, sz) == msg

finalizeStream(msg, sz) == [msg EXCEPT !.size = sz]

EndBulk_EachFinal ==
    /\ spc = "fill"
    /\ BulkFull(totalBulkSz) \/ isEndOfSet
    /\ protobufRespond' = finalizeStream(protobufRespond, count)
    /\ cont' = FALSE
    /\ spc' = "send"
    /\ UNCHANGED <<query, resultSet, count, totalBulkSz, channel, clientVars>>

(* The inner loop is over: the last bulk is finalized and loses MSG_CONT. *)
EndBulk ==
    /\ spc = "fill"
    /\ BulkFull(totalBulkSz) \/ isEndOfSet
    /\ IF isEndOfSet
         THEN /\ protobufRespond' = finalizeStream(protobufRespond, count)
              /\ cont' = FALSE
         ELSE UNCHANGED <<protobufRespond, cont>>
    /\ spc' = "send"
    /\ UNCHANGED <<query, resultSet, count, totalBulkSz, channel, clientVars>>

sendBulk_NoClear ==
    /\ spc = "send"
    /\ channel' = Append(channel, [msg |-> protobufRespond, cont |-> cont])
    /\ totalBulkSz' = 0
    /\ spc' = IF resultSet = "held" /\ ~isEndOfSet THEN "fill" ELSE "cleanup"
    /\ UNCHANGED <<query, resultSet, count, protobufRespond, cont, clientVars>>

(* sendBulk; inside the bulk loop the message and its size start afresh. *)
sendBulk ==
    /\ spc = "send"
    /\ channel' = Append(channel, [msg |-> protobufRespond, cont |-> cont])
    /\ IF resultSet = "held"
         THEN /\ protobufRespond' = Cleared
              /\ totalBulkSz' = 0
              /\ spc' = IF isEndOfSet THEN "cleanup" ELSE "fill"
         ELSE /\ spc' = "cleanup"
              /\ UNCHANGED <<protobufRespond, totalBulkSz>>
    /\ UNCHANGED <<query, resultSet, count, cont, clientVars>>

(* The package buffer cannot be allocated, or send fails. *)
SendThrows ==
    /\ spc = "send"
    /\ CatchException
    /\ UNCHANGED <<query, clientVars>>

(* A send on a connection the client has left raises SIGPIPE, which the *)
(* server does not handle: the process ends and its sockets are closed. *)
SendKilled ==
    /\ spc = "send"
    /\ cpc # "recv"
    /\ spc' = "closed"
    /\ resultSet' = IF resultSet = "held" THEN "freed" ELSE resultSet
    /\ UNCHANGED <<query, count, totalBulkSz, protobufRespond, cont, channel,
                   clientVars>>

Cleanup_NoDelete ==
    /\ spc = "cleanup"
    /\ spc' = "closed"
    /\ UNCHANGED <<query, resultSet, count, totalBulkSz, protobufRespond, cont,
                   channel, clientVars>>

(* The result set is deleted, then executeTask deletes the socket. *)
Cleanup ==
    /\ spc = "cleanup"
    /\ resultSet' = IF resultSet = "held" THEN "freed" ELSE resultSet
    /\ spc' = "closed"
    /\ UNCHANGED <<query, count, totalBulkSz, protobufRespond, cont, channel,
                   clientVars>>

------------------------------------------------------------------------------
(* The client: handleProtoBuffRecv and consume. *)

TypeOf(msg) == IF msg.type = "unset" THEN DefaultType ELSE msg.type

(* SocketClient::consume prints rows().size() rows of a RESULT message.   *)
(* size counts the rows of the whole answer, csvrow those of the message: *)
(* an index past the end is undefined, and may take the client down.      *)
RowsPrinted(msg) ==
    IF TypeOf(msg) # "RESULT" THEN <<>>
    ELSE SubSeq(msg.rows, 1,
                IF msg.size < Len(msg.rows) THEN msg.size ELSE Len(msg.rows))

ReadsPastRows(msg) == TypeOf(msg) = "RESULT" /\ msg.size > Len(msg.rows)

consume(msg) ==
    /\ received' = received \o msg.rows
    /\ bulks' = bulks + 1
    /\ shown' = shown \o RowsPrinted(msg)
    /\ overrun' = (overrun \/ ReadsPastRows(msg))

(* One turn of the do loop: it goes on as long as MSG_CONT is set. *)
RecvBulk ==
    /\ cpc = "recv"
    /\ channel # <<>>
    /\ channel' = Tail(channel)
    /\ consume(Head(channel).msg)
    /\ \/ cpc' = IF Head(channel).cont THEN "recv" ELSE "complete"
       \/ ReadsPastRows(Head(channel).msg) /\ cpc' = "failed"
    /\ UNCHANGED <<query, serverVars>>

RecvEof_AsEnd ==
    /\ cpc = "recv"
    /\ channel = <<>>
    /\ spc = "closed"
    /\ cpc' = "complete"
    /\ UNCHANGED <<query, serverVars, channel, received, bulks, shown, overrun>>

(* recv returned 0: the server closed the connection. *)
RecvEof ==
    /\ cpc = "recv"
    /\ channel = <<>>
    /\ spc = "closed"
    /\ cpc' = "eof"
    /\ UNCHANGED <<query, serverVars, channel, received, bulks, shown, overrun>>

(* recv failed or the buffer cannot be allocated: sendQuery's handlers print *)
(* a line and the connection is closed.                                      *)
RecvThrows ==
    /\ cpc = "recv"
    /\ cpc' = "failed"
    /\ UNCHANGED <<query, serverVars, channel, received, bulks, shown, overrun>>

------------------------------------------------------------------------------
(* The query is over on both sides. *)
Finished ==
    /\ spc = "closed"
    /\ cpc # "recv"
    /\ UNCHANGED vars

Execute == ExecuteToNull \/ ExecuteToSet \/ ExecuteThrows
Fill == AddRow \/ RowThrows \/ EndBulk
Send == sendBulk \/ SendThrows \/ SendKilled
Server == Execute \/ Fill \/ Send \/ Cleanup
Client == RecvBulk \/ RecvEof

Next == Server \/ Client \/ RecvThrows \/ Finished

(* Each side is a thread that keeps running; no failure need ever happen. *)
(* (Server has no state in which a failure is all it can do, but for the  *)
(* send to a client that left, which need not be killed either.)          *)
Spec == Init /\ [][Next]_vars /\ WF_vars(Server) /\ WF_vars(Client)

------------------------------------------------------------------------------
(* Properties. *)

TypeOK ==
    /\ total \in 0..MaxRows
    /\ rowLen \in [1..total -> 0..MaxRowLen]
    /\ spc \in {"execute", "fill", "send", "cleanup", "closed"}
    /\ resultSet \in {"none", "held", "freed"}
    /\ count \in 0..total
    /\ totalBulkSz \in 0 .. MAX_TRX_BUFFER_SZ - 1 + MaxRowLen
    /\ protobufRespond \in Respond
    /\ cont \in BOOLEAN
    /\ channel \in Seq(Package)
    /\ cpc \in {"recv", "complete", "eof", "failed"}
    /\ received \in Seq(Rows)
    /\ bulks \in Nat
    /\ shown \in Seq(Rows)
    /\ overrun \in BOOLEAN

(* The rows that follow row number from, in the order of the result set. *)
Stretch(rows, from) == \A i \in 1..Len(rows) : rows[i] = from + i

(* At any moment, what the client has consumed is the beginning of the     *)
(* result set: no bulk loses, repeats or reorders a row, however the rows  *)
(* fall into bulks and wherever either side fails.                         *)
RowsInOrder ==
    /\ Len(received) <= count
    /\ Stretch(received, 0)

(* A client that stopped because a message had no MSG_CONT holds every row *)
(* of the result set, or was answered by the STATUS of a NULL result; a    *)
(* reply that broke off is never taken for a complete one.                 *)
CompleteMeansAll ==
    cpc = "complete" => \/ resultSet = "none" /\ received = <<>>
                        \/ Len(received) = total

(* A message without MSG_CONT is the last one the server ever sends: the  *)
(* client, which stops there, leaves nothing unread behind it.            *)
FinalIsLast ==
    /\ \A k \in DOMAIN channel :
         ~channel[k].cont => /\ k = Len(channel)
                             /\ spc \in {"cleanup", "closed"}
    /\ cpc = "complete" => channel = <<>> /\ spc \in {"cleanup", "closed"}

(* Text size of the first n rows. *)
BytesUpTo(n) ==
    LET bytes[k \in 0..n] == IF k = 0 THEN 0 ELSE bytes[k - 1] + rowLen[k]
    IN bytes[n]

BulkBytes(rows) == BytesUpTo(rows[Len(rows)]) - BytesUpTo(rows[1] - 1)

(* Every bulk but the last one reaches MAX_TRX_BUFFER_SZ, and no bulk goes *)
(* on after reaching it: it is over the limit by less than its last row.   *)
BulksAreFull ==
    \A k \in DOMAIN channel :
      LET rows == channel[k].msg.rows IN
      rows # <<>> =>
        /\ channel[k].cont => BulkBytes(rows) >= MAX_TRX_BUFFER_SZ
        /\ BulkBytes(rows) - rowLen[rows[Len(rows)]] < MAX_TRX_BUFFER_SZ

(* An answer that fits one bulk is printed row for row by the client. *)
SingleBulkIsShown ==
    cpc = "complete" /\ bulks = 1 => shown = received /\ ~overrun

(* The result set does not outlive the request, whatever fails on the way, *)
(* and the connection is closed.                                           *)
ServerReleases == <>(spc = "closed" /\ resultSet # "held")

(* The stream implements the reply its client may rely on. *)
Reply == INSTANCE BulkReply WITH
    answer <- total,
    delivered <- received,
    outcome <- CASE cpc = "recv" -> "open"
                 [] cpc = "complete" /\ resultSet = "none" -> "acknowledged"
                 [] cpc = "complete" /\ resultSet # "none" -> "complete"
                 [] cpc \in {"eof", "failed"} -> "broken"

ReplyPromised == Reply!Spec

------------------------------------------------------------------------------
(* The inductive invariant behind the safety properties. *)

(* Packages ch hold, in order, rows from + 1 to last: cut[k] is the row that *)
(* package k ends with.                                                     *)
Chain(ch, from, last) ==
    \E cut \in [0..Len(ch) -> 0..last] :
      /\ cut[0] = from
      /\ cut[Len(ch)] = last
      /\ \A k \in 1..Len(ch) : /\ Len(ch[k].msg.rows) = cut[k] - cut[k - 1]
                               /\ Stretch(ch[k].msg.rows, cut[k - 1])

(* The row the server took last is the last one of the message under *)
(* construction, whose rows follow each other.                       *)
RowsUnderConstruction ==
    /\ Len(protobufRespond.rows) <= count
    /\ Stretch(protobufRespond.rows, count - Len(protobufRespond.rows))

(* The packages under way hold the rows between those that the client has *)
(* consumed and those of the message under construction.                  *)
RowsInFlight ==
    Chain(channel, Len(received), count - Len(protobufRespond.rows))

(* What the server's place in the code says of its variables. *)
ServerControl ==
    /\ spc = "execute" =>
         /\ resultSet = "none"
         /\ channel = <<>>
         /\ cpc # "complete"
    /\ resultSet = "none" => count = 0
    /\ spc = "fill" => resultSet = "held" /\ cont
    /\ spc = "send" => /\ resultSet \in {"none", "held"}
                       /\ resultSet = "none" => ~cont
                       /\ resultSet = "held" => cont = ~isEndOfSet

(* A final package under way leaves no row behind on the server. *)
FinalTakesAll ==
    \A k \in 1..Len(channel) :
      ~channel[k].cont =>
        \/ resultSet = "none"
        \/ count = total /\ protobufRespond.rows = <<>>

(* The invariant that every step preserves, and that implies the safety    *)
(* properties above: the rows of the answer are, at any moment, split in   *)
(* order between the client, the packages under way and the message under  *)
(* construction (sendBulk and clear() move them from one to the other).    *)
IInv ==
    /\ TypeOK
    /\ RowsInOrder
    /\ CompleteMeansAll
    /\ FinalIsLast
    /\ RowsInFlight
    /\ RowsUnderConstruction
    /\ ServerControl
    /\ FinalTakesAll

------------------------------------------------------------------------------
(* What comments of the repository claim, and the code does not do. *)

(* SocketClient.cpp:125: "we are sending an intermediate sum on every bulk *)
(* AS WELL as the grand total".                                            *)
IntermediateSumOnEveryBulk ==
    \A k \in DOMAIN channel :
      LET msg == channel[k].msg IN
      msg.rows # <<>> => msg.size = Len(msg.rows) /\ msg.rowscount = total

(* DataStreamManager.cpp:221: "extra careful not to cross the limit". *)
LimitNotCrossed == totalBulkSz <= MAX_TRX_BUFFER_SZ

==============================================================================
