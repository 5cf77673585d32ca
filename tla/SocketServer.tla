----------------------------- MODULE SocketServer -----------------------------
(***************************************************************************)
(* The server of task1: SocketServer::Listen accepts connections for ever  *)
(* and starts a thread for each; the thread picks its connection up from   *)
(* the listener's threadParams, reads one request, replies and deletes the *)
(* socket.  Connections and threads are numbered in the order of accept:   *)
(* thread t is started for connection t.                                   *)
(*                                                                         *)
(* threadParams is a local of the accept loop, and every turn of the loop  *)
(* has it at the same place: slot is that place.  A request is a header    *)
(* and a payload; what is sent as a reply is the subject of BulkStream.    *)
(***************************************************************************)
EXTENDS Naturals, Sequences, FiniteSets

CONSTANTS
    N,                    \* connections that clients open in a behaviour
    MaxFds                \* descriptors the server process may hold

ASSUME NAssumption == N \in Nat
ASSUME MaxFdsAssumption == MaxFds \in Nat \ {0}

VARIABLES
    alive,                \* the server process runs
    lpc,                  \* where main and the listener it becomes are
    accepted,             \* connections accepted so far
    slot,                 \* threadParams.sock; 0 before the first accept
    tpc,                  \* where each thread is
    tsock,                \* the connection each thread has taken; 0 for none
    garbled,              \* the thread took payload bytes for a header
    conn,                 \* each TCPSocket of the server
    deletes,              \* how often each TCPSocket was deleted
    input,                \* parts of the request not yet read by the server
    request,              \* what the client's request is
    client,               \* each client
    replies,              \* replies sent on each connection
    raced,                \* history: slot was rewritten under a thread
    reused                \* history: a thread's deleted TCPSocket became another's

Conns == 1..N

listenerVars == <<lpc, accepted, slot, raced, reused>>
threadVars == <<tpc, tsock, garbled>>
clientVars == <<request, client>>
vars == <<alive, listenerVars, threadVars, conn, deletes, input, clientVars,
          replies>>

------------------------------------------------------------------------------
Init ==
    /\ alive = TRUE
    /\ lpc = "main"
    /\ accepted = 0
    /\ slot = 0
    /\ tpc = [t \in Conns |-> "none"]
    /\ tsock = [t \in Conns |-> 0]
    /\ garbled = [t \in Conns |-> FALSE]
    /\ conn = [c \in Conns |-> "none"]
    /\ deletes = [c \in Conns |-> 0]
    /\ input = [c \in Conns |-> <<>>]
    /\ request = [c \in Conns |-> "none"]
    /\ client = [c \in Conns |-> "idle"]
    /\ replies = [c \in Conns |-> 0]
    /\ raced = FALSE /\ reused = FALSE

OpenConns == {c \in Conns : conn[c] = "open"}

(* The process ends: the kernel closes what it had open. *)
ProcessEnds ==
    /\ alive' = FALSE
    /\ conn' = [c \in Conns |-> IF conn[c] = "open" THEN "closed" ELSE conn[c]]

------------------------------------------------------------------------------
(* The listener: main reads its arguments and has the engine loaded, then  *)
(* Listen makes the server socket, binds it to its port and listens on it. *)

Starting == {"main", "bind", "listen"}

Reaches(from, to) ==
    /\ alive
    /\ lpc = from
    /\ lpc' = to
    /\ UNCHANGED <<alive, accepted, slot, raced, reused, threadVars, conn,
                   deletes, input, clientVars, replies>>

Main == Reaches("main", "bind")
SetLocalPort == Reaches("bind", "listen")
SetListen == Reaches("listen", "accept")

(* Arguments are missing, the engine does not load, or there is no socket, *)
(* no such port to be had or no listening on it: main exits.               *)
StartFails ==
    /\ alive
    /\ lpc \in Starting
    /\ ProcessEnds
    /\ UNCHANGED <<listenerVars, threadVars, deletes, input, clientVars,
                   replies>>

(* The threads that still work with a TCPSocket. *)
Working(t) == tpc[t] \in {"header", "payload", "reply", "delete"}

(* accept makes a new TCPSocket, of a queued connection.  It may get the   *)
(* memory of one that was deleted, or its descriptor: then whoever still   *)
(* points to the deleted d means the new one.  A thread that has the       *)
(* header of a request takes what it reads there for the rest of it.       *)
Accept ==
    /\ alive
    /\ lpc = "accept"
    /\ accepted < N
    /\ client[accepted + 1] # "idle"
    /\ Cardinality(OpenConns) < MaxFds
    /\ accepted' = accepted + 1
    /\ conn' = [conn EXCEPT ![accepted + 1] = "open"]
    /\ lpc' = "fill"
    /\ \E d \in {0} \cup {c \in Conns : deletes[c] > 0} :
         LET keepers == {t \in Conns : tsock[t] = d /\ Working(t)}
         IN /\ slot' = IF slot = d /\ d # 0 THEN accepted + 1 ELSE slot
            /\ tsock' = [t \in Conns |-> IF t \in keepers THEN accepted + 1 ELSE tsock[t]]
            /\ garbled' = [t \in Conns |-> garbled[t] \/ (t \in keepers /\ tpc[t] = "payload")]
            /\ reused' = (reused \/ keepers # {})
    /\ UNCHANGED <<alive, raced, tpc, deletes, input, clientVars, replies>>

(* accept fails, for want of descriptors or for what has become of the     *)
(* connection: Listen rethrows, main exits.                                *)
AcceptThrows ==
    /\ alive
    /\ lpc = "accept"
    /\ accepted < N
    /\ client[accepted + 1] # "idle" \/ Cardinality(OpenConns) >= MaxFds
    /\ ProcessEnds
    /\ UNCHANGED <<listenerVars, threadVars, deletes, input, clientVars,
                   replies>>

(* threadParams.sock = clntSock: a thread still to read it reads this one. *)
FillParams ==
    /\ alive
    /\ lpc = "fill"
    /\ slot' = accepted
    /\ raced' = (raced \/ \E t \in Conns : tpc[t] = "born")
    /\ lpc' = "begin"
    /\ UNCHANGED <<alive, accepted, reused, threadVars, conn, deletes, input,
                   clientVars, replies>>

Begin ==
    /\ alive
    /\ lpc = "begin"
    /\ tpc' = [tpc EXCEPT ![accepted] = "born"]
    /\ lpc' = "accept"
    /\ UNCHANGED <<alive, accepted, slot, raced, reused, tsock, garbled, conn,
                   deletes, input, clientVars, replies>>

------------------------------------------------------------------------------
(* A connection thread: executeThread, then executeTask. *)

Goto(t, place) == tpc' = [tpc EXCEPT ![t] = place]

(* The socket is still there: no other thread deleted it. *)
Usable(t) == conn[tsock[t]] = "open"

PeerLeft(c) == client[c] \in {"gone", "answered"}

ReadParams(t) ==
    /\ tpc[t] = "born"
    /\ tsock' = [tsock EXCEPT ![t] = slot]
    /\ Goto(t, "header")
    /\ UNCHANGED <<alive, listenerVars, garbled, conn, deletes, input,
                   clientVars, replies>>

(* The header loop.  When another thread has taken the header of this      *)
(* connection, payload bytes are read as one, and either no buffer of that *)
(* size can be had, which throws, or the thread waits for as many bytes.   *)
RecvHeader(t) ==
    /\ tpc[t] = "header"
    /\ Usable(t)
    /\ input[tsock[t]] # <<>>
    /\ input' = [input EXCEPT ![tsock[t]] = Tail(@)]
    /\ IF Head(input[tsock[t]]) = "header"
         THEN Goto(t, "payload") /\ UNCHANGED garbled
         ELSE /\ garbled' = [garbled EXCEPT ![t] = TRUE]
              /\ Goto(t, "payload") \/ Goto(t, "delete")
    /\ UNCHANGED <<alive, listenerVars, tsock, conn, deletes, clientVars,
                   replies>>

(* The payload loop, then the checks of the request: one that does not     *)
(* parse, is no query or is not SQL makes executeTask return at once.  So  *)
(* does what a thread without the right header takes for a payload, if it  *)
(* does not wait for more of it or happens to get all of a query.          *)
RecvPayload(t) ==
    /\ tpc[t] = "payload"
    /\ Usable(t)
    /\ input[tsock[t]] # <<>>
    /\ input' = [input EXCEPT ![tsock[t]] = Tail(@)]
    /\ \/ /\ request[tsock[t]] = "query" /\ Head(input[tsock[t]]) = "payload"
          /\ Goto(t, "reply")
       \/ (garbled[t] \/ request[tsock[t]] # "query") /\ Goto(t, "done")
       \/ garbled[t] /\ UNCHANGED tpc
    /\ UNCHANGED <<alive, listenerVars, tsock, garbled, conn, deletes,
                   clientVars, replies>>

(* recv returned 0: executeTask returns at once. *)
RecvEof(t) ==
    /\ tpc[t] \in {"header", "payload"}
    /\ Usable(t)
    /\ input[tsock[t]] = <<>>
    /\ PeerLeft(tsock[t])
    /\ Goto(t, "done")
    /\ UNCHANGED <<alive, listenerVars, tsock, garbled, conn, deletes, input,
                   clientVars, replies>>

(* recv failed, the peer having reset the connection: caught at the end of *)
(* executeTask, before the socket is deleted.                              *)
RecvThrows(t) ==
    /\ tpc[t] \in {"header", "payload"}
    /\ Usable(t)
    /\ PeerLeft(tsock[t])
    /\ Goto(t, "delete")
    /\ UNCHANGED <<alive, listenerVars, tsock, garbled, conn, deletes, input,
                   clientVars, replies>>

(* handleProtoBuffSend puts its answer on the connection of the socket,    *)
(* whoever waits there.                                                    *)
Answers(c) ==
    /\ replies' = [replies EXCEPT ![c] = @ + 1]
    /\ client' = [client EXCEPT ![c] = IF @ = "waiting" THEN "answered" ELSE @]

Reply_Returns(t) ==
    /\ tpc[t] = "reply"
    /\ Usable(t)
    /\ \/ Answers(tsock[t]) /\ Goto(t, "delete")
       \/ UNCHANGED <<replies, client>> /\ Goto(t, "done")
    /\ UNCHANGED <<alive, listenerVars, tsock, garbled, conn, deletes, input,
                   request>>

Reply_Deletes(t) ==
    /\ tpc[t] = "reply"
    /\ Usable(t)
    /\ deletes' = [deletes EXCEPT ![tsock[t]] = @ + 1]
    /\ Goto(t, "delete")
    /\ UNCHANGED <<alive, listenerVars, tsock, garbled, conn, input,
                   clientVars, replies>>

Reply_Retries(t) ==
    /\ tpc[t] = "reply"
    /\ Usable(t)
    /\ Answers(tsock[t]) \/ UNCHANGED <<replies, client>>
    /\ Goto(t, "delete") \/ UNCHANGED tpc
    /\ UNCHANGED <<alive, listenerVars, tsock, garbled, conn, deletes, input,
                   request>>

(* The answer is sent in full, or broken off by an exception caught here. *)
Reply(t) ==
    /\ tpc[t] = "reply"
    /\ Usable(t)
    /\ Answers(tsock[t]) \/ UNCHANGED <<replies, client>>
    /\ Goto(t, "delete")
    /\ UNCHANGED <<alive, listenerVars, tsock, garbled, conn, deletes, input,
                   request>>

(* Sending to a client that left raises SIGPIPE: the process is killed. *)
ReplyKilled(t) ==
    /\ tpc[t] = "reply"
    /\ Usable(t)
    /\ PeerLeft(tsock[t])
    /\ ProcessEnds
    /\ UNCHANGED <<listenerVars, threadVars, deletes, input, clientVars,
                   replies>>

(* Another thread deleted the socket: its descriptor is what the freed     *)
(* memory holds, no socket's, so a call on it fails or reads nothing, until *)
(* the memory is a later connection's (Accept).                            *)
UseDeleted(t) ==
    /\ tpc[t] \in {"header", "payload", "reply"}
    /\ ~Usable(t)
    /\ Goto(t, "delete") \/ (tpc[t] # "reply" /\ Goto(t, "done"))
    /\ UNCHANGED <<alive, listenerVars, tsock, garbled, conn, deletes, input,
                   clientVars, replies>>

(* delete xi_socket; a second time, that may abort the process. *)
Delete(t) ==
    /\ tpc[t] = "delete"
    /\ deletes' = [deletes EXCEPT ![tsock[t]] = @ + 1]
    /\ Goto(t, "done")
    /\ \/ /\ conn' = [conn EXCEPT ![tsock[t]] = "closed"]
          /\ UNCHANGED alive
       \/ deletes[tsock[t]] > 0 /\ ProcessEnds
    /\ UNCHANGED <<listenerVars, tsock, garbled, input, clientVars, replies>>

Thread(t) ==
    /\ alive
    /\ \/ ReadParams(t) \/ RecvHeader(t) \/ RecvPayload(t) \/ RecvEof(t)
       \/ RecvThrows(t) \/ Reply(t) \/ ReplyKilled(t) \/ UseDeleted(t)
       \/ Delete(t)

------------------------------------------------------------------------------
(* Clients: SocketClient::sendQuery, or any other program on the port. *)

Requests == {"query", "bad", "partial"}

(* Connections are queued from listen on, in the order in which they are *)
(* accepted later; meanwhile the client may send its request, or leave.  *)
Connect(c) ==
    /\ client[c] = "idle"
    /\ alive /\ lpc \notin Starting
    /\ \A b \in 1..(c - 1) : client[b] # "idle"
    /\ client' = [client EXCEPT ![c] = "connected"]
    /\ UNCHANGED <<alive, listenerVars, threadVars, conn, deletes, input,
                   request, replies>>

(* The server has closed the connection, queued or accepted. *)
ClosedByServer(c) == conn[c] = "closed" \/ ~alive

SendRequest(c) ==
    /\ client[c] = "connected"
    /\ ~ClosedByServer(c)
    /\ \E r \in Requests :
         /\ request' = [request EXCEPT ![c] = r]
         /\ input' = [input EXCEPT ![c] =
                        IF r = "partial" THEN <<"header">>
                        ELSE <<"header", "payload">>]
    /\ client' = [client EXCEPT ![c] = IF replies[c] = 0 THEN "waiting" ELSE "answered"]
    /\ UNCHANGED <<alive, listenerVars, threadVars, conn, deletes, replies>>

HangUp(c) ==
    /\ client[c] \in {"connected", "waiting"}
    /\ client' = [client EXCEPT ![c] = "gone"]
    /\ UNCHANGED <<alive, listenerVars, threadVars, conn, deletes, input,
                   request, replies>>

SeeClose(c) ==
    /\ client[c] \in {"connected", "waiting"}
    /\ ClosedByServer(c)
    /\ client' = [client EXCEPT ![c] = "refused"]
    /\ UNCHANGED <<alive, listenerVars, threadVars, conn, deletes, input,
                   request, replies>>

StartUp == Main \/ SetLocalPort \/ SetListen \/ StartFails
Listener == StartUp \/ Accept \/ AcceptThrows \/ FillParams \/ Begin
Client(c) == Connect(c) \/ SendRequest(c) \/ HangUp(c) \/ SeeClose(c)

Next ==
    \/ Listener
    \/ \E t \in Conns : Thread(t)
    \/ \E c \in Conns : Client(c)

(* The listener and every thread keep running; of a client only that it *)
(* notices the end of its connection.                                   *)
Spec ==
    /\ Init /\ [][Next]_vars
    /\ WF_vars(Listener)
    /\ \A t \in Conns : WF_vars(Thread(t))
    /\ \A c \in Conns : WF_vars(SeeClose(c))

------------------------------------------------------------------------------
(* Properties. *)

TypeOK ==
    /\ alive \in BOOLEAN
    /\ lpc \in Starting \cup {"accept", "fill", "begin"}
    /\ accepted \in 0..N
    /\ slot \in 0..N
    /\ tpc \in [Conns -> {"none", "born", "header", "payload", "reply",
                          "delete", "done"}]
    /\ tsock \in [Conns -> 0..N]
    /\ garbled \in [Conns -> BOOLEAN]
    /\ conn \in [Conns -> {"none", "open", "closed"}]
    /\ deletes \in [Conns -> Nat]
    /\ input \in [Conns -> {<<>>, <<"header">>, <<"payload">>,
                            <<"header", "payload">>}]
    /\ request \in [Conns -> Requests \cup {"none"}]
    /\ client \in [Conns -> {"idle", "connected", "waiting", "answered",
                             "refused", "gone"}]
    /\ replies \in [Conns -> Nat]
    /\ raced \in BOOLEAN /\ reused \in BOOLEAN

Started(t) == tpc[t] \notin {"none", "born"}

(* threadParams only ever moves on to a later connection: a thread takes   *)
(* its own connection or one accepted after it, never one of an earlier    *)
(* thread, and never an unaccepted one.                                    *)
TakesOwnOrLater ==
    \A t \in Conns : Started(t) => tsock[t] \in t..accepted

(* As long as every thread has read threadParams before the listener fills *)
(* it in again, each thread has its own connection, which no other thread  *)
(* reads, answers or deletes.                                              *)
NoRaceNoMixup ==
    ~raced => /\ \A t \in Conns : Started(t) => tsock[t] = t /\ ~garbled[t]
              /\ \A c \in Conns : deletes[c] <= 1

(* Two threads on one connection do not both answer it: as long as no      *)
(* thread is left with a deleted socket that has become a later            *)
(* connection's, race or not, a request is answered at most once, and only *)
(* when it is a query.                                                     *)
AnsweredOnce ==
    ~reused => \A c \in Conns : /\ replies[c] <= 1
                                /\ replies[c] = 1 => request[c] = "query"

(* A connection the server has not closed is being served, or is one that  *)
(* executeTask returned from early: unless threadParams was rewritten, no  *)
(* query that reached the server is dropped with its connection left open. *)
QueryNotAbandoned ==
    \A c \in Conns :
      /\ alive /\ ~raced
      /\ Started(c) /\ tpc[c] = "done" /\ conn[c] = "open"
      => request[c] # "query" \/ PeerLeft(c)

(* The client of a query is answered or sees its connection closed, unless *)
(* threadParams was rewritten under some thread.                           *)
QueryEnds ==
    \A c \in Conns :
      client[c] = "waiting" /\ request[c] = "query" ~>
        client[c] # "waiting" \/ raced

------------------------------------------------------------------------------
(* The inductive invariant behind the safety properties. *)

(* The slot holds a connection at or after that of every thread which is  *)
(* still to read it, and the connection just accepted has no thread yet.  *)
ListenerControl ==
    /\ slot <= accepted
    /\ lpc \in {"fill", "begin"} => accepted >= 1 /\ tpc[accepted] = "none"
    /\ lpc = "begin" => slot = accepted
    /\ \A t \in Conns : /\ tpc[t] # "none" => t <= accepted
                        /\ tpc[t] = "born" => t <= slot

(* A client has nothing under way before it sends its request, and it does *)
(* not send a second one.                                                  *)
ClientControl ==
    \A c \in Conns :
      /\ c <= accepted => client[c] # "idle"
      /\ client[c] \in {"idle", "connected"} =>
           /\ input[c] = <<>>
           /\ request[c] = "none"

(* Why one thread at most answers a request, though several may read it:   *)
(* the header is read once, and whoever has not read it finds no request   *)
(* in what is left.                                                        *)
HoldsRequest(t) == tpc[t] = "reply" \/ (tpc[t] = "payload" /\ ~garbled[t])
Strays(t) == tpc[t] = "payload" /\ garbled[t]
HeaderTaken(c) ==
    client[c] \notin {"idle", "connected"} /\ input[c] \in {<<>>, <<"payload">>}
ReplyControl ==
    ~reused =>
      /\ \A t \in Conns :
           /\ tpc[t] \in {"none", "born", "header"} => ~garbled[t]
           /\ HoldsRequest(t) => HeaderTaken(tsock[t]) /\ replies[tsock[t]] = 0
           /\ tpc[t] = "reply" => request[tsock[t]] = "query"
           /\ Strays(t) =>
                client[tsock[t]] \notin {"idle", "connected"} /\ input[tsock[t]] = <<>>
      /\ \A t, u \in Conns :
           HoldsRequest(t) /\ HoldsRequest(u) /\ tsock[t] = tsock[u] => t = u
      /\ \A c \in Conns : replies[c] > 0 => HeaderTaken(c)

(* Where each connection is while no thread has lost the race: only its  *)
(* own thread has touched it, and that thread reads a header first.      *)
Undisturbed ==
    ~raced => \A c \in Conns :
      /\ tpc[c] = "born" => slot = c
      /\ ~garbled[c]
      /\ tpc[c] \in {"none", "born", "header"} => input[c] # <<"payload">>
      /\ client[c] \in {"idle", "connected"} =>
           tpc[c] \in {"none", "born", "header"}
      /\ deletes[c] > 0 => tpc[c] = "done"
      /\ alive /\ c <= accepted /\ tpc[c] # "done" => conn[c] = "open"

(* The invariant that every step preserves.  None of the safety properties *)
(* above is inductive: each needs to know what the slot holds for a thread *)
(* still to start, and what is left to read on its connection.             *)
IInv ==
    /\ TypeOK
    /\ TakesOwnOrLater
    /\ NoRaceNoMixup
    /\ AnsweredOnce
    /\ QueryNotAbandoned
    /\ ListenerControl
    /\ ClientControl
    /\ ReplyControl
    /\ Undisturbed

------------------------------------------------------------------------------
(* What comments of the repository claim, and the code does not do. *)

(* SocketServer.cpp:42: "Create separate memory for client argument". *)
SeparateParams ==
    \A t \in Conns : Started(t) => tsock[t] = t

(* SocketServer.cpp:184: "don't go before delete socket - we want to close *)
(* the connection".                                                        *)
ClosedAtTaskEnd ==
    \A t \in Conns : tpc[t] = "done" => conn[tsock[t]] = "closed"

==============================================================================
