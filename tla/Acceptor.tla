------------------------------- MODULE Acceptor -------------------------------
(***************************************************************************)
(* nw::Acceptor: one thread waits for events of a listening socket and of  *)
(* the connections it has accepted, and reads one message for each event   *)
(* of a connection, blocking until the message is complete.  It is built   *)
(* with __TESTING_MODE (nw/Makefile): a message handled is written to a    *)
(* log, and nothing is sent back.                                          *)
(*                                                                         *)
(* A header is two numbers, type and size, and a body is letters; what     *)
(* travels is numbers, and a letter read as a type is just another number. *)
(***************************************************************************)
EXTENDS Integers, Sequences, FiniteSets

CONSTANTS
    Conns,                \* connections that clients open in a behaviour
    m_listen_fd,          \* the listening socket
    MAX_EVENTS,           \* events that one epoll_wait returns
    MaxMsgs,              \* how many messages each client sends
    Messages              \* what they may be

ASSUME ListenAssumption == m_listen_fd \notin Conns
ASSUME EventsAssumption == MAX_EVENTS \in Nat \ {0}
ASSUME MsgsAssumption == MaxMsgs \in [Conns -> Nat]

(* tMsgTypes, and a letter of a body: all of them numbers. *)
REG == 0
TRM == 1
INV == 2
Letter == 65

(* A message as its client means it.  sz is what it puts in m_msg_sz: the *)
(* length of the body, or 0 as in the unit tests (nwUT.h:119).            *)
ASSUME MessagesAssumption ==
    \A m \in Messages : /\ m \in [type : {REG, TRM}, sz : Nat, body : Nat]
                        /\ m.sz \in {0, m.body}

VARIABLES
    client,               \* each client: "idle", "open" or "closed"
    sent,                 \* the messages each has begun to write
    left,                 \* what it has yet to write of the last one
    input,                \* what is written and not yet read
    apc,                  \* where the acceptor is
    registered,           \* connections in the epoll set
    events,               \* what the last epoll_wait returned
    place,                \* the event being handled
    handleSts,            \* what the last handle_request returned
    m_header,             \* type and size of the message being read
    got,                  \* numbers read of its header, or of its body
    logged,               \* the messages of each connection written to the log
    outcomes              \* history: what became of the events handled

clientVars == <<client, sent, left>>
requestVars == <<m_header, got>>
vars == <<clientVars, input, apc, registered, events, place, handleSts,
          requestVars, logged, outcomes>>

------------------------------------------------------------------------------
(* header(): an invalid message of no size. *)
EmptyHeader == [type |-> INV, sz |-> 0]

HeaderLen == 2

OnTheWire(m) == <<m.type, m.sz>> \o [i \in 1..m.body |-> Letter]

Init ==
    /\ client = [c \in Conns |-> "idle"]
    /\ sent = [c \in Conns |-> <<>>]
    /\ left = [c \in Conns |-> <<>>]
    /\ input = [c \in Conns |-> <<>>]
    /\ apc = "construct"
    /\ registered = {}
    /\ events = <<>>
    /\ place = 1
    /\ handleSts = 0
    /\ m_header = EmptyHeader
    /\ got = 0
    /\ logged = [c \in Conns |-> <<>>]
    /\ outcomes = <<>>

Ended == apc \in {"stopped", "failed", "exited"}

------------------------------------------------------------------------------
(* Clients. *)

acceptorVars == <<apc, registered, events, place, handleSts, requestVars,
                  logged, outcomes>>

(* Connections are queued from listen on, before any of them is watched. *)
Listening == ~Ended /\ apc # "construct"

Connect(c) ==
    /\ client[c] = "idle"
    /\ Listening
    /\ client' = [client EXCEPT ![c] = "open"]
    /\ UNCHANGED <<sent, left, input, acceptorVars>>

BeginMessage(c) ==
    /\ client[c] = "open"
    /\ left[c] = <<>>
    /\ Len(sent[c]) < MaxMsgs[c]
    /\ \E m \in Messages :
         /\ sent' = [sent EXCEPT ![c] = Append(@, m)]
         /\ left' = [left EXCEPT ![c] = OnTheWire(m)]
    /\ UNCHANGED <<client, input, acceptorVars>>

(* A message arrives in pieces, here number by number. *)
Arrive(c) ==
    /\ client[c] = "open"
    /\ left[c] # <<>>
    /\ input' = [input EXCEPT ![c] = Append(@, Head(left[c]))]
    /\ left' = [left EXCEPT ![c] = Tail(@)]
    /\ UNCHANGED <<client, sent, acceptorVars>>

(* A client may leave at any time, in the middle of a message too. *)
HangUp(c) ==
    /\ client[c] = "open"
    /\ client' = [client EXCEPT ![c] = "closed"]
    /\ UNCHANGED <<sent, left, input, acceptorVars>>

Client(c) == Connect(c) \/ BeginMessage(c) \/ Arrive(c) \/ HangUp(c)

------------------------------------------------------------------------------
(* Start-up: the constructor makes the socket listen, then makes the epoll *)
(* set and the log; listen_2_events puts the listening socket in the set.  *)

Starting(from, to) ==
    /\ apc = from
    /\ apc' = to
    /\ UNCHANGED <<clientVars, input, registered, events, place, handleSts,
                   requestVars, logged, outcomes>>

Construct == Starting("construct", "listening")

WatchListening == Starting("listening", "wait")

(* A call of the constructor that fails ends the process; when epoll_ctl *)
(* does, listen_2_events returns.                                        *)
StartFails ==
    \/ Starting("construct", "exited")
    \/ \E end \in {"exited", "failed"} : Starting("listening", end)

------------------------------------------------------------------------------
(* listen_2_events. *)

Waiting == {c \in Conns : client[c] # "idle"} \ registered

Readable(c) == input[c] # <<>> \/ client[c] = "closed"

IsReady(e) == \/ e = m_listen_fd /\ Waiting # {}
              \/ e \in registered /\ Readable(e)

Ready == {e \in registered \cup {m_listen_fd} : IsReady(e)}

(* What epoll_wait may return: ready descriptors, in any order, each once. *)
Batches ==
    LET n == IF Cardinality(Ready) < MAX_EVENTS THEN Cardinality(Ready)
             ELSE MAX_EVENTS
    IN {b \in [1..n -> Ready] : \A j, k \in 1..n : b[j] = b[k] => j = k}

epoll_wait ==
    /\ apc = "wait"
    /\ Ready # {}
    /\ events' \in Batches
    /\ place' = 1
    /\ apc' = "event"
    /\ outcomes' = <<>>
    /\ UNCHANGED <<clientVars, input, registered, handleSts, requestVars,
                   logged>>

(* On to the next event; after the last one the loop goes on if the last *)
(* handle_request returned 0.  nmsg, a local, is gone.                   *)
NextEvent(sts, outcome) ==
    /\ handleSts' = sts
    /\ outcomes' = Append(outcomes, outcome)
    /\ place' = place + 1
    /\ apc' = IF place < Len(events) THEN "event"
              ELSE IF sts = 0 THEN "wait" ELSE "stopped"
    /\ m_header' = EmptyHeader
    /\ got' = 0
    /\ UNCHANGED <<clientVars, events>>

NewConnection ==
    /\ apc = "event"
    /\ events[place] = m_listen_fd
    /\ \E c \in Waiting : registered' = registered \cup {c}
    /\ NextEvent(handleSts, "new")
    /\ UNCHANGED <<input, logged>>

(* accept or epoll_ctl fails: the loop is left with -1. *)
AcceptFails ==
    /\ apc = "event"
    /\ events[place] = m_listen_fd
    /\ apc' = "failed"
    /\ UNCHANGED <<clientVars, input, registered, events, place, handleSts,
                   requestVars, logged, outcomes>>

------------------------------------------------------------------------------
(* handle_request. *)

handle_request ==
    /\ apc = "event"
    /\ events[place] \in Conns
    /\ m_header' = EmptyHeader
    /\ got' = 0
    /\ apc' = "header"
    /\ UNCHANGED <<clientVars, input, registered, events, place, handleSts,
                   logged, outcomes>>

fd == events[place]

(* The end of __DRAIN_LOOP: read returned 0. *)
AtEof == input[fd] = <<>> /\ client[fd] = "closed"

Stay == UNCHANGED <<clientVars, registered, events, place, handleSts, logged,
                    outcomes>>

ReadHeader_Once ==
    /\ apc = "header"
    /\ input[fd] # <<>>
    /\ m_header' = IF Len(input[fd]) = 1 THEN [m_header EXCEPT !.type = input[fd][1]]
                   ELSE [type |-> input[fd][1], sz |-> input[fd][2]]
    /\ input' = [input EXCEPT ![fd] =
                   SubSeq(@, (IF Len(@) = 1 THEN 1 ELSE HeaderLen) + 1, Len(@))]
    /\ got' = 0
    /\ apc' = "switch"
    /\ Stay

(* __READ_FD_DRAIN of the header. *)
ReadHeader ==
    /\ apc = "header"
    /\ got < HeaderLen
    /\ input[fd] # <<>>
    /\ m_header' = IF got = 0 THEN [m_header EXCEPT !.type = Head(input[fd])]
                   ELSE [m_header EXCEPT !.sz = Head(input[fd])]
    /\ input' = [input EXCEPT ![fd] = Tail(@)]
    /\ got' = got + 1
    /\ apc' = IF got + 1 = HeaderLen THEN "switch" ELSE "header"
    /\ Stay

HeaderEof_Retries ==
    /\ apc = "header"
    /\ AtEof
    /\ UNCHANGED <<input, apc, requestVars>>
    /\ Stay

(* The client left: the header is what was read of it. *)
HeaderEof ==
    /\ apc = "header"
    /\ AtEof
    /\ apc' = "switch"
    /\ UNCHANGED <<input, requestVars>>
    /\ Stay

(* switch(msgType): a TRM is read to its end like a REG. *)
TakeBody ==
    /\ apc = "switch"
    /\ m_header.type \in {REG, TRM}
    /\ got' = 0
    /\ apc' = "body"
    /\ UNCHANGED <<input, m_header>>
    /\ Stay

InvalidType ==
    /\ apc = "switch"
    /\ m_header.type \notin {REG, TRM}
    /\ NextEvent(-1, "invalid")
    /\ UNCHANGED <<input, registered, logged>>

(* __READ_FD_DRAIN of the body. *)
ReadBody ==
    /\ apc = "body"
    /\ got < m_header.sz
    /\ input[fd] # <<>>
    /\ input' = [input EXCEPT ![fd] = Tail(@)]
    /\ got' = got + 1
    /\ UNCHANGED <<apc, m_header>>
    /\ Stay

EndRequest_DrainOn ==
    /\ apc = "body"
    /\ got = m_header.sz \/ AtEof
    /\ logged' = [logged EXCEPT ![fd] =
                    Append(@, [type |-> m_header.type, sz |-> m_header.sz,
                               body |-> got])]
    /\ m_header' = EmptyHeader
    /\ got' = 0
    /\ apc' = "header"
    /\ UNCHANGED <<clientVars, input, registered, events, place, handleSts,
                   outcomes>>

EndRequest_TermIsOk ==
    /\ apc = "body"
    /\ got = m_header.sz \/ AtEof
    /\ logged' = [logged EXCEPT ![fd] =
                    Append(@, [type |-> m_header.type, sz |-> m_header.sz,
                               body |-> got])]
    /\ NextEvent(0, IF m_header.type = TRM THEN "term" ELSE "regular")
    /\ UNCHANGED <<input, registered>>

(* The body is all there, or all there will be: it is written to the log. *)
EndRequest ==
    /\ apc = "body"
    /\ got = m_header.sz \/ AtEof
    /\ logged' = [logged EXCEPT ![fd] =
                    Append(@, [type |-> m_header.type, sz |-> m_header.sz,
                               body |-> got])]
    /\ IF m_header.type = TRM THEN NextEvent(-1, "term")
                              ELSE NextEvent(0, "regular")
    /\ UNCHANGED <<input, registered>>

(* read fails, the connection having broken: the process exits. *)
ReadFails ==
    /\ apc \in {"header", "body"}
    /\ apc' = "exited"
    /\ UNCHANGED <<input, requestVars>>
    /\ Stay

Loop == Construct \/ WatchListening \/ epoll_wait \/ NewConnection
Request == handle_request \/ ReadHeader \/ HeaderEof \/ TakeBody
           \/ InvalidType \/ ReadBody \/ EndRequest
Serve == Loop \/ Request
Failure == StartFails \/ AcceptFails \/ ReadFails

Next == Serve \/ Failure \/ \E c \in Conns : Client(c)

(* The acceptor keeps running, and a client that has begun to write a *)
(* message writes it to the end unless it leaves.                     *)
Spec ==
    /\ Init /\ [][Next]_vars
    /\ WF_vars(Serve)
    /\ \A c \in Conns : WF_vars(Arrive(c))

------------------------------------------------------------------------------
(* Properties. *)

Entries == [type : {REG, TRM}, sz : Nat, body : Nat]

TypeOK ==
    /\ client \in [Conns -> {"idle", "open", "closed"}]
    /\ sent \in [Conns -> Seq(Messages)]
    /\ left \in [Conns -> Seq(Nat)]
    /\ input \in [Conns -> Seq(Nat)]
    /\ apc \in {"construct", "listening", "wait", "event", "header", "switch",
                "body", "stopped", "failed", "exited"}
    /\ registered \subseteq Conns
    /\ IsFiniteSet(registered)
    /\ events \in Seq(Conns \cup {m_listen_fd})
    /\ place \in 1..Len(events) + 1
    /\ apc \in {"event", "header", "switch", "body"} => place \in DOMAIN events
    /\ apc \in {"header", "switch", "body"} => fd \in Conns
    /\ handleSts \in {0, -1}
    /\ m_header \in [type : Nat, sz : Nat]
    /\ apc = "body" => m_header.type \in {REG, TRM}
    /\ got \in Nat
    /\ logged \in [Conns -> Seq(Entries)]
    /\ outcomes \in Seq({"new", "term", "regular", "invalid"})

(* The acceptor blocks only in epoll_wait and in the middle of a message:  *)
(* when it comes to an event, however many it has handled since epoll_wait *)
(* returned it, there is still a connection to accept or something to read.*)
NoEventBlocks ==
    /\ apc = "event" => IsReady(events[place])
    /\ apc = "header" /\ got = 0 => Readable(fd)

Honest(c) == \A k \in DOMAIN sent[c] : sent[c][k].sz = sent[c][k].body

CutShort(c) == client[c] = "closed" /\ left[c] # <<>>

(* What is logged of a connection whose client fills in the size of its    *)
(* messages is the messages it sent, whole and in order, in whatever       *)
(* pieces they arrive and whoever else is served in between; but for the   *)
(* message its client was writing when it left.                            *)
LoggedAsSent ==
    \A c \in Conns : Honest(c) =>
      /\ Len(logged[c]) <= Len(sent[c])
      /\ \A k \in DOMAIN logged[c] :
           \/ logged[c][k] = sent[c][k]
           \/ CutShort(c) /\ k = Len(sent[c])

IsLastRequest(k) ==
    /\ outcomes[k] # "new"
    /\ \A j \in DOMAIN outcomes : j > k => outcomes[j] = "new"

(* The last request of a batch decides alone whether the loop goes on: a   *)
(* TRM or an invalid message stops it unless a REG was read after it for   *)
(* the same epoll_wait.                                                    *)
LastRequestDecides ==
    /\ apc = "wait" =>
         \A k \in DOMAIN outcomes : IsLastRequest(k) => outcomes[k] = "regular"
    /\ apc = "stopped" =>
         \E k \in DOMAIN outcomes : /\ IsLastRequest(k)
                                    /\ outcomes[k] \in {"term", "invalid"}

(* What arrives from one client is read at last, whatever the others do,   *)
(* unless the acceptor ends: a client in the middle of a message holds the *)
(* others up only until it has written it.  A client that gives no or a    *)
(* wrong size is not held to that: its letters are read as a size.         *)
InputIsRead ==
    \A c \in Conns :
      input[c] # <<>> ~>
        input[c] = <<>> \/ Ended \/ \E b \in Conns : ~Honest(b)

------------------------------------------------------------------------------
(* The inductive invariant behind the safety properties. *)

(* The events still to be handled are ready, and stay so until they are: *)
(* each descriptor is in a batch once, and only its own event takes from *)
(* it.  The request being read is of a connection in the epoll set.      *)
EventsReady ==
    /\ \A j, k \in DOMAIN events : events[j] = events[k] => j = k
    /\ apc = "event" =>
         \A k \in DOMAIN events : k >= place => IsReady(events[k])
    /\ apc \in {"header", "switch", "body"} =>
         /\ fd \in registered
         /\ \A k \in DOMAIN events : k > place => IsReady(events[k])
    /\ apc = "header" /\ got = 0 => Readable(fd)

(* handleSts is what the last request of the batch returned. *)
StatusOfLast ==
    /\ handleSts = 0 =>
         \A k \in DOMAIN outcomes : IsLastRequest(k) => outcomes[k] = "regular"
    /\ handleSts = -1 =>
         \E k \in DOMAIN outcomes : /\ IsLastRequest(k)
                                    /\ outcomes[k] \in {"term", "invalid"}
    /\ apc \in {"construct", "listening", "wait"} => handleSts = 0
    /\ apc = "stopped" => handleSts = -1

IInv == TypeOK /\ EventsReady /\ StatusOfLast

------------------------------------------------------------------------------
(* What comments of the repository claim, and the code does not do. *)

(* Acceptor.cpp:142: "stopped by user", that is, by a TRM that some client *)
(* sent.                                                                   *)
StoppedByUser ==
    apc = "stopped" =>
      \E c \in Conns : \E k \in DOMAIN sent[c] : sent[c][k].type = TRM

==============================================================================
