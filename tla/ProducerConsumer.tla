--------------------------- MODULE ProducerConsumer ---------------------------
(***************************************************************************)
(* producer-consumer: producers send numbered messages to one consumer     *)
(* over a named AF_UNIX stream socket and wait for the acknowledgement of  *)
(* each.  The consumer serves one connection at a time.  Either process    *)
(* may crash at any point and be started again.                            *)
(*                                                                         *)
(* A message of 1032 bytes and an acknowledgement of four are written and  *)
(* read in one piece.  Neither process handles SIGPIPE: writing to a       *)
(* connection whose other end is closed kills the writer.                  *)
(***************************************************************************)
EXTENDS Naturals, Sequences

CONSTANTS
    Producers,            \* producer processes
    MaxMsgs,              \* bound: messages one run of a producer sends
    MaxCrashes,           \* bound: crashes of all processes together
    MaxRuns               \* bound: runs of one producer

ASSUME BoundsAssumption ==
    MaxMsgs \in Nat /\ MaxCrashes \in Nat /\ MaxRuns \in Nat \ {0}

NoConn == 0

VARIABLES
    ppc,                  \* each producer: "connect", "write", "read", "dead"
    m_listfd,             \* its socket: a connection, or NoConn if unconnected
    msgIndex,             \* the number of its next message
    run,                  \* how often it was started
    conns,                \* every connection made, in the order of connect
    cpc,                  \* the consumer: "accept", "read", "ack", "down"
    backlog,              \* connections waiting to be accepted
    connfd,               \* the connection being served
    msg,                  \* the message being acknowledged
    handled,              \* history: messages the consumer has read
    acked,                \* history: messages whose ack the producer has read
    crashes               \* crashes so far

producerVars == <<ppc, m_listfd, msgIndex, run, acked>>
consumerVars == <<cpc, backlog, connfd, msg, handled>>
vars == <<producerVars, conns, consumerVars, crashes>>

------------------------------------------------------------------------------
Init ==
    /\ ppc = [p \in Producers |-> "connect"]
    /\ m_listfd = [p \in Producers |-> NoConn]
    /\ msgIndex = [p \in Producers |-> 1]
    /\ run = [p \in Producers |-> 1]
    /\ conns = <<>>
    /\ cpc = "down"
    /\ backlog = <<>>
    /\ connfd = NoConn
    /\ msg = 0
    /\ handled = <<>>
    /\ acked = {}
    /\ crashes = 0

ProducerConns(p) == {k \in DOMAIN conns : conns[k].producer = p}

(* The sockets of a process that ends are closed. *)
CloseProducerEnd(p) ==
    conns' = [k \in DOMAIN conns |->
                IF k = m_listfd[p] THEN [conns[k] EXCEPT !.producerOpen = FALSE]
                ELSE conns[k]]

CloseConsumerEnds ==
    conns' = [k \in DOMAIN conns |-> [conns[k] EXCEPT !.consumerOpen = FALSE]]

Listening == cpc # "down"

(* A read waits for something to read or for the other end to be closed; *)
(* then it leaves the message it was to fill at its zeroes.               *)
Answers(queue, otherEndOpen) == queue # <<>> \/ ~otherEndOpen

readFromSocket(queue) == IF queue = <<>> THEN 0 ELSE Head(queue)

------------------------------------------------------------------------------
(* The producer: startProducing. *)

(* connect finds the listener: a new connection, or EISCONN on a socket *)
(* that has been connected before, whatever became of that connection.  *)
Connect(p) ==
    /\ ppc[p] = "connect"
    /\ msgIndex[p] <= MaxMsgs
    /\ Listening
    /\ IF m_listfd[p] = NoConn
         THEN /\ conns' = Append(conns,
                           [producer |-> p, run |-> run[p],
                            up |-> <<>>, down |-> <<>>,
                            producerOpen |-> TRUE, consumerOpen |-> TRUE])
              /\ m_listfd' = [m_listfd EXCEPT ![p] = Len(conns) + 1]
              /\ backlog' = Append(backlog, Len(conns) + 1)
         ELSE UNCHANGED <<conns, m_listfd, backlog>>
    /\ ppc' = [ppc EXCEPT ![p] = "write"]
    /\ UNCHANGED <<msgIndex, run, acked, cpc, connfd, msg, handled, crashes>>

(* connect finds no listener: the socket is replaced and connect repeated. *)
Reconnect(p) ==
    /\ ppc[p] = "connect"
    /\ ~Listening
    /\ m_listfd[p] # NoConn
    /\ CloseProducerEnd(p)
    /\ m_listfd' = [m_listfd EXCEPT ![p] = NoConn]
    /\ UNCHANGED <<ppc, msgIndex, run, acked, consumerVars, crashes>>

sendMsgToConsumer(p) ==
    /\ ppc[p] = "write"
    /\ conns[m_listfd[p]].consumerOpen
    /\ conns' = [conns EXCEPT ![m_listfd[p]].up = Append(@, msgIndex[p])]
    /\ ppc' = [ppc EXCEPT ![p] = "read"]
    /\ UNCHANGED <<m_listfd, msgIndex, run, acked, consumerVars, crashes>>

(* The consumer's end is closed: SIGPIPE. *)
SendKilled(p) ==
    /\ ppc[p] = "write"
    /\ ~conns[m_listfd[p]].consumerOpen
    /\ CloseProducerEnd(p)
    /\ ppc' = [ppc EXCEPT ![p] = "dead"]
    /\ UNCHANGED <<m_listfd, msgIndex, run, acked, consumerVars, crashes>>

(* The producer does not wait for its acknowledgement. *)
getConsumerAck_NoWait(p) ==
    /\ ppc[p] = "read"
    /\ LET k == m_listfd[p] IN
       IF conns[k].down # <<>>
         THEN /\ acked' = acked \cup {<<p, run[p], Head(conns[k].down)>>}
              /\ conns' = [conns EXCEPT ![k].down = Tail(@)]
         ELSE UNCHANGED <<acked, conns>>
    /\ msgIndex' = [msgIndex EXCEPT ![p] = @ + 1]
    /\ ppc' = [ppc EXCEPT ![p] = "connect"]
    /\ UNCHANGED <<m_listfd, run, consumerVars, crashes>>

(* The message is sent again when the connection ended before its ack. *)
getConsumerAck_Retry(p) ==
    /\ ppc[p] = "read"
    /\ LET k == m_listfd[p] IN
       IF conns[k].down # <<>>
         THEN /\ acked' = acked \cup {<<p, run[p], Head(conns[k].down)>>}
              /\ conns' = [conns EXCEPT ![k].down = Tail(@)]
              /\ msgIndex' = [msgIndex EXCEPT ![p] = @ + 1]
         ELSE /\ ~conns[k].consumerOpen
              /\ UNCHANGED <<acked, conns, msgIndex>>
    /\ ppc' = [ppc EXCEPT ![p] = "connect"]
    /\ UNCHANGED <<m_listfd, run, consumerVars, crashes>>

(* getConsumerAck: an acknowledgement, or none because the connection     *)
(* ended; the next message is taken in either case.                       *)
getConsumerAck(p) ==
    /\ ppc[p] = "read"
    /\ LET k == m_listfd[p]
           ack == readFromSocket(conns[k].down) IN
       /\ Answers(conns[k].down, conns[k].consumerOpen)
       /\ IF ack # 0
            THEN /\ acked' = acked \cup {<<p, run[p], ack>>}
                 /\ conns' = [conns EXCEPT ![k].down = Tail(@)]
            ELSE UNCHANGED <<acked, conns>>
    /\ msgIndex' = [msgIndex EXCEPT ![p] = @ + 1]
    /\ ppc' = [ppc EXCEPT ![p] = "connect"]
    /\ UNCHANGED <<m_listfd, run, consumerVars, crashes>>

ProducerCrash(p) ==
    /\ crashes < MaxCrashes
    /\ ppc[p] # "dead"
    /\ CloseProducerEnd(p)
    /\ ppc' = [ppc EXCEPT ![p] = "dead"]
    /\ crashes' = crashes + 1
    /\ UNCHANGED <<m_listfd, msgIndex, run, acked, consumerVars>>

(* A producer is started again: it counts from 1. *)
ProducerRestart(p) ==
    /\ ppc[p] = "dead"
    /\ run[p] < MaxRuns
    /\ ppc' = [ppc EXCEPT ![p] = "connect"]
    /\ m_listfd' = [m_listfd EXCEPT ![p] = NoConn]
    /\ msgIndex' = [msgIndex EXCEPT ![p] = 1]
    /\ run' = [run EXCEPT ![p] = @ + 1]
    /\ UNCHANGED <<acked, conns, consumerVars, crashes>>

------------------------------------------------------------------------------
(* The consumer: handleEvents and handleNewConnection. *)

(* The constructor: the socket's name is taken over and listened on. *)
ConsumerStart ==
    /\ cpc = "down"
    /\ cpc' = "accept"
    /\ UNCHANGED <<producerVars, conns, backlog, connfd, msg, handled, crashes>>

Accept ==
    /\ cpc = "accept"
    /\ backlog # <<>>
    /\ connfd' = Head(backlog)
    /\ backlog' = Tail(backlog)
    /\ cpc' = "read"
    /\ UNCHANGED <<producerVars, conns, msg, handled, crashes>>

readConsumerMsg ==
    /\ cpc = "read"
    /\ Answers(conns[connfd].up, conns[connfd].producerOpen)
    /\ readFromSocket(conns[connfd].up) # 0
    /\ msg' = readFromSocket(conns[connfd].up)
    /\ conns' = [conns EXCEPT ![connfd].up = Tail(@)]
    /\ handled' = Append(handled, <<conns[connfd].producer, conns[connfd].run,
                                    readFromSocket(conns[connfd].up)>>)
    /\ cpc' = "ack"
    /\ UNCHANGED <<producerVars, backlog, connfd, crashes>>

(* A read of 0 bytes is taken for no message yet: the consumer reads on. *)
ProducerWentDown_Ignored ==
    /\ cpc = "read"
    /\ conns[connfd].up = <<>>
    /\ ~conns[connfd].producerOpen
    /\ UNCHANGED vars

(* The id is 0: "producer went down". *)
ProducerWentDown ==
    /\ cpc = "read"
    /\ Answers(conns[connfd].up, conns[connfd].producerOpen)
    /\ readFromSocket(conns[connfd].up) = 0
    /\ conns' = [conns EXCEPT ![connfd].consumerOpen = FALSE]
    /\ connfd' = NoConn
    /\ cpc' = "accept"
    /\ UNCHANGED <<producerVars, backlog, msg, handled, crashes>>

(* The number of the following message is acknowledged. *)
sendAck_Next ==
    /\ cpc = "ack"
    /\ conns[connfd].producerOpen
    /\ conns' = [conns EXCEPT ![connfd].down = Append(@, msg + 1)]
    /\ cpc' = "read"
    /\ UNCHANGED <<producerVars, backlog, connfd, msg, handled, crashes>>

sendAck ==
    /\ cpc = "ack"
    /\ conns[connfd].producerOpen
    /\ conns' = [conns EXCEPT ![connfd].down = Append(@, msg)]
    /\ cpc' = "read"
    /\ UNCHANGED <<producerVars, backlog, connfd, msg, handled, crashes>>

(* The consumer process ends, by a crash or by a signal. *)
ConsumerEnds ==
    /\ CloseConsumerEnds
    /\ cpc' = "down"
    /\ backlog' = <<>>
    /\ connfd' = NoConn
    /\ msg' = 0
    /\ UNCHANGED <<producerVars, handled>>

(* The producer's end is closed: SIGPIPE. *)
AckKilled ==
    /\ cpc = "ack"
    /\ ~conns[connfd].producerOpen
    /\ ConsumerEnds
    /\ UNCHANGED crashes

ConsumerCrash ==
    /\ Listening
    /\ crashes < MaxCrashes
    /\ ConsumerEnds
    /\ crashes' = crashes + 1

------------------------------------------------------------------------------
Producer(p) ==
    \/ Connect(p) \/ Reconnect(p) \/ sendMsgToConsumer(p) \/ SendKilled(p)
    \/ getConsumerAck(p)

Consumer ==
    \/ Accept \/ readConsumerMsg \/ ProducerWentDown \/ sendAck \/ AckKilled

Next ==
    \/ \E p \in Producers :
         Producer(p) \/ ProducerCrash(p) \/ ProducerRestart(p)
    \/ Consumer \/ ConsumerStart \/ ConsumerCrash

(* Both programs keep running while they live; whether and when they are *)
(* started again is up to whoever runs them.                             *)
Spec ==
    /\ Init /\ [][Next]_vars
    /\ \A p \in Producers : WF_vars(Producer(p))
    /\ WF_vars(Consumer)

------------------------------------------------------------------------------
(* Properties. *)

Conn == [producer : Producers, run : 1 .. MaxRuns,
         up : Seq(1..MaxMsgs), down : Seq(1..MaxMsgs),
         producerOpen : BOOLEAN, consumerOpen : BOOLEAN]

(* A message, for the histories: its producer, the run of it, its number. *)
Message == Producers \X (1 .. MaxRuns) \X (1 .. MaxMsgs)

TypeOK ==
    /\ ppc \in [Producers -> {"connect", "write", "read", "dead"}]
    /\ m_listfd \in [Producers -> 0..Len(conns)]
    /\ msgIndex \in [Producers -> 1 .. MaxMsgs + 1]
    /\ run \in [Producers -> 1 .. MaxRuns]
    /\ conns \in Seq(Conn)
    /\ cpc \in {"accept", "read", "ack", "down"}
    /\ backlog \in Seq(DOMAIN conns)
    /\ connfd \in 0..Len(conns)
    /\ msg \in 0..MaxMsgs
    /\ handled \in Seq(Message)
    /\ acked \in SUBSET Message
    /\ crashes \in 0..MaxCrashes

(* The acknowledgement a producer reads is that of the message it has just *)
(* sent: none is left over from an earlier message, nor, after a crash and *)
(* a new connection, from an earlier connection.                           *)
AckIsForThisMessage ==
    \A p \in Producers :
      ppc[p] = "read" /\ conns[m_listfd[p]].down # <<>> =>
        conns[m_listfd[p]].down = <<msgIndex[p]>>

(* The consumer handles no message of a producer's run twice, and the      *)
(* messages of a run in the order of their numbers, across crashes,        *)
(* restarts and reconnections of either side.                              *)
HandledInOrder ==
    \A i, j \in DOMAIN handled :
      i < j /\ handled[i][1] = handled[j][1] /\ handled[i][2] = handled[j][2]
        => handled[i][3] < handled[j][3]

(* What a producer saw acknowledged, the consumer has read. *)
AckedWasHandled == \A m \in acked : \E i \in DOMAIN handled : handled[i] = m

(* No message waits for ever for its answer, whatever crashed before: it   *)
(* is acknowledged, or the connection ends, or the producer does, or the   *)
(* consumer serves another producer, and nobody else until that is done.   *)
AnswerComes ==
    \A p \in Producers :
      ppc[p] = "read" ~>
        \/ ppc[p] # "read"
        \/ connfd # NoConn /\ conns[connfd].producer # p

(* producer_task.cpp:58: "consumer down. reconnecting ... ": a producer    *)
(* whose consumer went down reconnects.  What handleConnect hands to the   *)
(* next write is then a connection with somebody at its other end.         *)
ReconnectsWhenDown ==
    [][\A p \in Producers :
         ppc[p] = "connect" /\ ppc'[p] = "write" =>
           conns'[m_listfd'[p]].consumerOpen]_vars

(* consumer_task.cpp:69: "producer went down. waiting for new connections":*)
(* a consumer whose producer went down goes on; it is not brought down.    *)
ProducerDownNotFatal ==
    [][Listening /\ cpc' = "down" => crashes' = crashes + 1]_vars

==============================================================================
