------------------------ MODULE ProducerConsumer_proofs ------------------------
(***************************************************************************)
(* Proofs about producers and consumer for any number of producers, of     *)
(* messages, of crashes and of runs: which message each connection may     *)
(* hold, and hence that an acknowledgement is read for the message it was  *)
(* sent for and that the consumer handles the messages of a run in order,  *)
(* none of them twice.                                                     *)
(***************************************************************************)
EXTENDS ProducerConsumer, TLAPS

USE BoundsAssumption

(* A producer that writes or reads has a connection, its own and of its    *)
(* present run, and its end is open until the producer ends.               *)
ProducersOwnTheirs ==
    \A p \in Producers :
      /\ ppc[p] \in {"write", "read"} =>
           m_listfd[p] # NoConn /\ msgIndex[p] <= MaxMsgs
      /\ m_listfd[p] # NoConn =>
           /\ conns[m_listfd[p]].producer = p
           /\ conns[m_listfd[p]].run = run[p]
           /\ ppc[p] # "dead" => conns[m_listfd[p]].producerOpen

(* The connection served and those that wait are distinct and open; a      *)
(* consumer that is down has none.                                         *)
ConsumerServesOne ==
    /\ cpc \in {"read", "ack"} <=> connfd # NoConn
    /\ connfd # NoConn => conns[connfd].consumerOpen
    /\ \A i \in DOMAIN backlog :
         conns[backlog[i]].consumerOpen /\ backlog[i] # connfd
    /\ \A i, j \in DOMAIN backlog : i # j => backlog[i] # backlog[j]
    /\ cpc = "down" =>
         backlog = <<>> /\ \A k \in DOMAIN conns : ~conns[k].consumerOpen

(* No run has two connections the consumer may still read from: a producer *)
(* gives one up only when the consumer is down.                            *)
OneConnectionEach ==
    /\ \A k \in DOMAIN conns :
         /\ conns[k].run <= run[conns[k].producer]
         /\ conns[k].producerOpen =>
              m_listfd[conns[k].producer] = k /\ ppc[conns[k].producer] # "dead"
         /\ conns[k].consumerOpen /\ conns[k].run = run[conns[k].producer] =>
              m_listfd[conns[k].producer] = k
    /\ \A j, k \in DOMAIN conns :
         /\ conns[j].consumerOpen /\ conns[k].consumerOpen
         /\ conns[j].producer = conns[k].producer /\ conns[j].run = conns[k].run
         => j = k

Acknowledging(k) == cpc = "ack" /\ connfd = k

(* A producer that waits for an answer has one message under way: to the   *)
(* consumer, at the consumer, or acknowledged; any other has none.         *)
OneMessageUnderWay ==
    \A k \in DOMAIN conns :
      LET c == conns[k]
          n == msgIndex[c.producer] IN
      c.producerOpen =>
        IF ppc[c.producer] = "read"
          THEN /\ c.down = <<>> \/ c.down = <<n>>
               /\ c.consumerOpen =>
                    \/ c.up = <<n>> /\ ~Acknowledging(k) /\ c.down = <<>>
                    \/ c.up = <<>> /\ Acknowledging(k) /\ msg = n /\ c.down = <<>>
                    \/ c.up = <<>> /\ ~Acknowledging(k) /\ c.down = <<n>>
          ELSE /\ c.down = <<>>
               /\ c.consumerOpen => c.up = <<>> /\ ~Acknowledging(k)

(* What the consumer has handled of the present run of a producer is not   *)
(* ahead of the producer, and behind it once the producer went on.         *)
HandledWasSent ==
    \A i \in DOMAIN handled :
      LET p == handled[i][1] IN
      /\ handled[i][2] <= run[p]
      /\ handled[i][2] = run[p] =>
           /\ handled[i][3] <= msgIndex[p]
           /\ ppc[p] \in {"connect", "write"} => handled[i][3] < msgIndex[p]

(* A message still to be read is the only one on its connection, comes     *)
(* after all that was handled of its run, and was sent.                    *)
UnreadIsNext ==
    \A k \in DOMAIN conns :
      LET c == conns[k] IN
      c.consumerOpen /\ c.up # <<>> =>
        /\ Len(c.up) = 1
        /\ c.run = run[c.producer] => c.up[1] <= msgIndex[c.producer]
        /\ \A i \in DOMAIN handled :
             handled[i][1] = c.producer /\ handled[i][2] = c.run =>
               handled[i][3] < c.up[1]

WasHandled(m) == \E i \in DOMAIN handled : handled[i] = m

(* An acknowledgement, sent or about to be, is of a message handled. *)
AnsweredWasHandled ==
    /\ \A k \in DOMAIN conns :
         conns[k].producerOpen /\ conns[k].down # <<>> =>
           WasHandled(<<conns[k].producer, conns[k].run, msgIndex[conns[k].producer]>>)
    /\ cpc = "ack" =>
         WasHandled(<<conns[connfd].producer, conns[connfd].run, msg>>)

IInv ==
    /\ TypeOK
    /\ ProducersOwnTheirs
    /\ ConsumerServesOne
    /\ OneConnectionEach
    /\ OneMessageUnderWay
    /\ HandledWasSent
    /\ UnreadIsNext
    /\ AnsweredWasHandled
    /\ HandledInOrder
    /\ AckedWasHandled

------------------------------------------------------------------------------
(* One more element, for the connections, the backlog and the history. *)
LEMMA OneMore ==
    ASSUME NEW S, NEW s \in Seq(S), NEW e \in S
    PROVE  /\ Append(s, e) \in Seq(S) /\ Len(Append(s, e)) = Len(s) + 1
           /\ DOMAIN Append(s, e) = DOMAIN s \cup {Len(s) + 1}
           /\ Len(s) + 1 \notin DOMAIN s
           /\ Append(s, e)[Len(s) + 1] = e
           /\ \A i \in DOMAIN s : Append(s, e)[i] = s[i] /\ s[i] \in S
<1>1. /\ Append(s, e) \in Seq(S) /\ Len(Append(s, e)) = Len(s) + 1
      /\ DOMAIN s = 1 .. Len(s) /\ Len(s) \in Nat
  OBVIOUS
<1>2. DOMAIN Append(s, e) = 1 .. Len(s) + 1
  BY <1>1
<1>3. \A i \in 1 .. Len(s) : Append(s, e)[i] = s[i] /\ s[i] \in S
  OBVIOUS
<1>4. Append(s, e)[Len(s) + 1] = e
  OBVIOUS
<1> QED
  BY <1>1, <1>2, <1>3, <1>4

LEMMA SeqOfMore ==
    ASSUME NEW S, NEW T, S \subseteq T, NEW s \in Seq(S)
    PROVE  s \in Seq(T)
<1>1. s \in [1 .. Len(s) -> T] /\ Len(s) \in Nat
  OBVIOUS
<1> QED
  BY <1>1

(* What the updates of a connection leave of it and of the others. *)

LEMMA ConnsIsFunction ==
    ASSUME TypeOK
    PROVE  /\ DOMAIN conns = 1 .. Len(conns) /\ Len(conns) \in Nat
           /\ \A k \in DOMAIN conns :
                /\ conns[k] \in Conn
                /\ conns[k].producer \in Producers /\ conns[k].run \in 1 .. MaxRuns
                /\ conns[k].up \in Seq(1..MaxMsgs) /\ conns[k].down \in Seq(1..MaxMsgs)
<1>1. conns \in Seq(Conn)
  BY DEF TypeOK
<1>2. DOMAIN conns = 1 .. Len(conns) /\ Len(conns) \in Nat
  BY <1>1
<1>3. \A k \in DOMAIN conns : conns[k] \in Conn
  BY <1>1, <1>2
<1> QED
  BY <1>2, <1>3 DEF Conn

(* What is a connection among the numbers the processes keep. *)
LEMMA Numbers ==
    ASSUME TypeOK
    PROVE  /\ ppc \in [Producers -> {"connect", "write", "read", "dead"}]
           /\ m_listfd \in [Producers -> Nat] /\ msgIndex \in [Producers -> Nat]
           /\ run \in [Producers -> Nat]
           /\ NoConn \notin DOMAIN conns
           /\ \A p \in Producers : m_listfd[p] # NoConn => m_listfd[p] \in DOMAIN conns
           /\ connfd # NoConn => connfd \in DOMAIN conns
           /\ \A i \in DOMAIN backlog : backlog[i] \in DOMAIN conns
           /\ \A k \in DOMAIN conns :
                conns[k].producer \in Producers /\ conns[k].run \in Nat
           /\ \A i \in DOMAIN handled :
                /\ handled[i] \in Message
                /\ handled[i][1] \in Producers /\ handled[i][2] \in Nat
                /\ handled[i][3] \in Nat
<1>1. \A p \in Producers : m_listfd[p] # NoConn => m_listfd[p] \in DOMAIN conns
  BY ConnsIsFunction DEF TypeOK, NoConn
<1>2. NoConn \notin DOMAIN conns /\ (connfd # NoConn => connfd \in DOMAIN conns)
  BY ConnsIsFunction DEF TypeOK, NoConn
<1>3. \A i \in DOMAIN backlog : backlog[i] \in DOMAIN conns
  BY DEF TypeOK
<1>4. \A i \in DOMAIN handled : handled[i] \in Message
  BY DEF TypeOK
<1>5. \A m \in Message : m[1] \in Producers /\ m[2] \in Nat /\ m[3] \in Nat
  BY DEF Message
<1>6. /\ ppc \in [Producers -> {"connect", "write", "read", "dead"}]
      /\ m_listfd \in [Producers -> Nat] /\ msgIndex \in [Producers -> Nat]
      /\ run \in [Producers -> Nat]
  BY ConnsIsFunction DEF TypeOK
<1> QED
  BY <1>1, <1>2, <1>3, <1>4, <1>5, <1>6, ConnsIsFunction

(* A process that ends closes its ends and nothing else. *)
LEMMA ClosingProducerEnd ==
    ASSUME TypeOK, NEW p \in Producers, CloseProducerEnd(p)
    PROVE  /\ conns' \in Seq(Conn) /\ DOMAIN conns' = DOMAIN conns
           /\ Len(conns') = Len(conns)
           /\ \A k \in DOMAIN conns :
                /\ conns'[k].producer = conns[k].producer /\ conns'[k].run = conns[k].run
                /\ conns'[k].up = conns[k].up /\ conns'[k].down = conns[k].down
                /\ conns'[k].consumerOpen <=> conns[k].consumerOpen
                /\ conns'[k].producerOpen <=> conns[k].producerOpen /\ k # m_listfd[p]
<1>1. \A k \in DOMAIN conns :
        [conns[k] EXCEPT !.producerOpen = FALSE] \in Conn
  BY ConnsIsFunction DEF Conn
<1>2. conns' \in [1 .. Len(conns) -> Conn]
  BY <1>1, ConnsIsFunction DEF CloseProducerEnd
<1>3. conns' \in Seq(Conn) /\ Len(conns') = Len(conns)
  BY <1>2, ConnsIsFunction
<1>4. ASSUME NEW k \in DOMAIN conns
      PROVE  /\ conns'[k].producer = conns[k].producer /\ conns'[k].run = conns[k].run
             /\ conns'[k].up = conns[k].up /\ conns'[k].down = conns[k].down
             /\ conns'[k].consumerOpen <=> conns[k].consumerOpen
             /\ conns'[k].producerOpen <=> conns[k].producerOpen /\ k # m_listfd[p]
  BY <1>4, ConnsIsFunction DEF CloseProducerEnd, Conn
<1> QED
  BY <1>2, <1>3, <1>4, ConnsIsFunction

LEMMA ClosingConsumerEnds ==
    ASSUME TypeOK, CloseConsumerEnds
    PROVE  /\ conns' \in Seq(Conn) /\ DOMAIN conns' = DOMAIN conns
           /\ Len(conns') = Len(conns)
           /\ \A k \in DOMAIN conns :
                /\ conns'[k].producer = conns[k].producer /\ conns'[k].run = conns[k].run
                /\ conns'[k].up = conns[k].up /\ conns'[k].down = conns[k].down
                /\ conns'[k].producerOpen <=> conns[k].producerOpen
                /\ ~conns'[k].consumerOpen
<1>1. \A k \in DOMAIN conns :
        [conns[k] EXCEPT !.consumerOpen = FALSE] \in Conn
  BY ConnsIsFunction DEF Conn
<1>2. conns' \in [1 .. Len(conns) -> Conn]
  BY <1>1, ConnsIsFunction DEF CloseConsumerEnds
<1>3. conns' \in Seq(Conn) /\ Len(conns') = Len(conns)
  BY <1>2, ConnsIsFunction
<1>4. ASSUME NEW k \in DOMAIN conns
      PROVE  /\ conns'[k].producer = conns[k].producer /\ conns'[k].run = conns[k].run
             /\ conns'[k].up = conns[k].up /\ conns'[k].down = conns[k].down
             /\ conns'[k].producerOpen <=> conns[k].producerOpen
             /\ ~conns'[k].consumerOpen
  BY <1>4, ConnsIsFunction DEF CloseConsumerEnds, Conn
<1> QED
  BY <1>2, <1>3, <1>4, ConnsIsFunction

(* Writing to a connection, reading from it or closing it is an update of  *)
(* one record: it keeps the type and leaves the other connections alone.   *)
LEMMA UpdateOfOne ==
    ASSUME TypeOK, NEW k \in DOMAIN conns, NEW c \in Conn,
           conns' = [conns EXCEPT ![k] = c]
    PROVE  /\ conns' \in Seq(Conn) /\ DOMAIN conns' = DOMAIN conns
           /\ Len(conns') = Len(conns)
           /\ conns'[k] = c
           /\ \A j \in DOMAIN conns : j # k => conns'[j] = conns[j]
<1>1. conns' \in [1 .. Len(conns) -> Conn]
  BY ConnsIsFunction
<1> QED
  BY <1>1, ConnsIsFunction

LEMMA UpOrDown ==
    ASSUME NEW c \in Conn, NEW q \in Seq(1..MaxMsgs)
    PROVE  /\ [c EXCEPT !.up = q] \in Conn /\ [c EXCEPT !.up = q].up = q
           /\ [c EXCEPT !.up = q].down = c.down
           /\ [c EXCEPT !.up = q].producer = c.producer
           /\ [c EXCEPT !.up = q].run = c.run
           /\ [c EXCEPT !.up = q].producerOpen <=> c.producerOpen
           /\ [c EXCEPT !.up = q].consumerOpen <=> c.consumerOpen
           /\ [c EXCEPT !.down = q] \in Conn /\ [c EXCEPT !.down = q].down = q
           /\ [c EXCEPT !.down = q].up = c.up
           /\ [c EXCEPT !.down = q].producer = c.producer
           /\ [c EXCEPT !.down = q].run = c.run
           /\ [c EXCEPT !.down = q].producerOpen <=> c.producerOpen
           /\ [c EXCEPT !.down = q].consumerOpen <=> c.consumerOpen
           /\ q = c.down => [c EXCEPT !.down = q] = c
BY DEF Conn

(* A connection holds at most one message in either direction. *)
LEMMA OneMessage ==
    ASSUME NEW n \in 1..MaxMsgs
    PROVE  /\ <<n>> \in Seq(1..MaxMsgs) /\ <<>> \in Seq(1..MaxMsgs)
           /\ <<n>> # <<>> /\ Len(<<n>>) = 1 /\ Append(<<>>, n) = <<n>>
           /\ Head(<<n>>) = n /\ Tail(<<n>>) = <<>>
OBVIOUS

LEMMA OnlyOne ==
    ASSUME NEW S, NEW s \in Seq(S), Len(s) = 1
    PROVE  s[1] \in S /\ s = <<s[1]>>
<1>1. s \in [1 .. Len(s) -> S] /\ s[1] \in S
  OBVIOUS
<1>2. <<s[1]>> \in [1..1 -> S] /\ \A i \in 1..1 : s[i] = <<s[1]>>[i]
  BY <1>1
<1> QED
  BY <1>1, <1>2

------------------------------------------------------------------------------
(* The invariant holds at first. *)

LEMMA InitIInv == Init => IInv
<1> SUFFICES ASSUME Init PROVE IInv
  OBVIOUS
<1>1. TypeOK
  BY DEF Init, TypeOK, NoConn
<1>2. ProducersOwnTheirs
  BY DEF Init, ProducersOwnTheirs
<1> QED
  BY <1>1, <1>2 DEF Init, IInv, ConsumerServesOne, OneConnectionEach, OneMessageUnderWay,
     HandledWasSent, UnreadIsNext, AnsweredWasHandled, HandledInOrder, AckedWasHandled, NoConn

(* connect: a new connection, to a consumer that listens, for a producer *)
(* that has none; the others are what they were.                         *)
LEMMA ConnectIInv ==
    ASSUME IInv, NEW p \in Producers, Connect(p)
    PROVE  IInv'
<1> USE DEF IInv
<1>1. CASE m_listfd[p] = NoConn
  <2> DEFINE new == Len(conns) + 1
             c == [producer |-> p, run |-> run[p], up |-> <<>>, down |-> <<>>,
                   producerOpen |-> TRUE, consumerOpen |-> TRUE]
  <2>1. /\ conns' = Append(conns, c) /\ backlog' = Append(backlog, new)
        /\ m_listfd' = [m_listfd EXCEPT ![p] = new]
        /\ ppc' = [ppc EXCEPT ![p] = "write"] /\ ppc[p] = "connect"
        /\ msgIndex[p] <= MaxMsgs /\ cpc # "down"
        /\ UNCHANGED <<msgIndex, run, acked, cpc, connfd, msg, handled, crashes>>
    BY <1>1 DEF Connect, Listening
  <2>2. c \in Conn
    BY DEF Conn, TypeOK
  <2>3. /\ conns' \in Seq(Conn) /\ Len(conns') = new
        /\ DOMAIN conns' = DOMAIN conns \cup {new} /\ new \notin DOMAIN conns
        /\ conns'[new] = c
        /\ \A k \in DOMAIN conns : conns'[k] = conns[k]
    BY <2>1, <2>2, OneMore DEF TypeOK
  <2> /\ c.producer = p /\ c.run = run[p] /\ c.up = <<>> /\ c.down = <<>>
      /\ c.producerOpen /\ c.consumerOpen
    OBVIOUS
  <2> HIDE DEF c
  <2>4. /\ backlog' \in Seq(DOMAIN conns')
        /\ DOMAIN backlog' = DOMAIN backlog \cup {Len(backlog) + 1}
        /\ backlog'[Len(backlog) + 1] = new
        /\ \A i \in DOMAIN backlog :
             backlog'[i] = backlog[i] /\ backlog[i] \in DOMAIN conns
    <3>1. backlog \in Seq(DOMAIN conns')
      BY <2>3, SeqOfMore DEF TypeOK
    <3>2. new \in DOMAIN conns'
      BY <2>3
    <3>3. \A i \in DOMAIN backlog : backlog[i] \in DOMAIN conns
      BY DEF TypeOK
    <3> QED
      BY <2>1, <3>1, <3>2, <3>3, OneMore
  <2>5. TypeOK'
    <3>1. m_listfd' \in [Producers -> 0..Len(conns')] /\ connfd' \in 0..Len(conns')
      BY <2>1, <2>3, ConnsIsFunction DEF TypeOK
    <3> QED
      BY <2>1, <2>3, <2>4, <3>1 DEF TypeOK
  <2>6. ProducersOwnTheirs'
    BY <2>1, <2>3, <1>1, ConnsIsFunction, SMTT(30) DEF TypeOK, ProducersOwnTheirs, NoConn
  <2>7. ConsumerServesOne'
    <3>1. connfd # new
      BY <2>3, Numbers, ConnsIsFunction DEF NoConn
    <3>2. ASSUME NEW i \in DOMAIN backlog'
          PROVE  conns'[backlog'[i]].consumerOpen /\ backlog'[i] # connfd'
      BY <2>1, <2>3, <2>4, <3>1, Numbers DEF ConsumerServesOne
    <3>3. ASSUME NEW i \in DOMAIN backlog', NEW j \in DOMAIN backlog', i # j
          PROVE  backlog'[i] # backlog'[j]
      BY <2>3, <2>4, <3>3 DEF ConsumerServesOne
    <3> QED
      BY <2>1, <2>3, <3>1, <3>2, <3>3, Numbers DEF ConsumerServesOne
  <2>8. OneConnectionEach'
    BY <2>1, <2>3, <1>1, Numbers, SMTT(30) DEF OneConnectionEach
  <2>9. OneMessageUnderWay'
    <3>1. connfd # new
      BY <2>3, Numbers, ConnsIsFunction DEF NoConn
    <3>2. \A k \in DOMAIN conns : conns[k].producerOpen => conns[k].producer # p
      BY <1>1, Numbers DEF OneConnectionEach
    <3> QED
      BY <2>1, <2>3, <3>1, <3>2, Numbers, SMTT(30) DEF OneMessageUnderWay, Acknowledging
  <2>10. HandledWasSent'
    BY <2>1, SMTT(30) DEF HandledWasSent, TypeOK
  <2>11. UnreadIsNext'
    BY <2>1, <2>3, Numbers DEF UnreadIsNext
  <2>12. AnsweredWasHandled'
    BY <2>1, <2>3, Numbers, SMTT(30) DEF AnsweredWasHandled, WasHandled, ConsumerServesOne
  <2>13. HandledInOrder' /\ AckedWasHandled'
    BY <2>1 DEF HandledInOrder, AckedWasHandled
  <2> QED
    BY <2>5, <2>6, <2>7, <2>8, <2>9, <2>10, <2>11, <2>12, <2>13
<1>2. CASE m_listfd[p] # NoConn
  <2>1. /\ ppc' = [ppc EXCEPT ![p] = "write"] /\ ppc[p] = "connect"
        /\ msgIndex[p] <= MaxMsgs
        /\ UNCHANGED <<conns, backlog, m_listfd, msgIndex, run, acked, cpc,
                       connfd, msg, handled, crashes>>
    BY <1>2 DEF Connect
  <2>2. TypeOK' /\ ProducersOwnTheirs'
    BY <1>2, <2>1 DEF TypeOK, ProducersOwnTheirs
  <2>3. OneConnectionEach' /\ ConsumerServesOne'
    BY <2>1, ConnsIsFunction, SMTT(30) DEF OneConnectionEach, ConsumerServesOne, TypeOK
  <2>4. OneMessageUnderWay'
    BY <2>1, ConnsIsFunction DEF OneMessageUnderWay, Acknowledging, TypeOK
  <2>5. HandledWasSent'
    BY <2>1, SMTT(30) DEF HandledWasSent, TypeOK
  <2> QED
    BY <2>1, <2>2, <2>3, <2>4, <2>5 DEF UnreadIsNext, AnsweredWasHandled, WasHandled,
       HandledInOrder, AckedWasHandled
<1> QED
  BY <1>1, <1>2

(* connect finds no listener: the consumer is down, no connection is open at *)
(* its end, so the run may have another one.                                 *)
LEMMA ReconnectIInv ==
    ASSUME IInv, NEW p \in Producers, Reconnect(p)
    PROVE  IInv'
<1> USE DEF IInv
<1>1. /\ CloseProducerEnd(p) /\ m_listfd' = [m_listfd EXCEPT ![p] = NoConn]
      /\ ppc[p] = "connect" /\ cpc = "down" /\ m_listfd[p] # NoConn
      /\ UNCHANGED <<ppc, msgIndex, run, acked, cpc, backlog, connfd, msg, handled, crashes>>
  BY DEF Reconnect, Listening, consumerVars
<1>2. /\ conns' \in Seq(Conn) /\ DOMAIN conns' = DOMAIN conns
      /\ Len(conns') = Len(conns)
      /\ \A k \in DOMAIN conns :
           /\ conns'[k].producer = conns[k].producer /\ conns'[k].run = conns[k].run
           /\ conns'[k].up = conns[k].up /\ conns'[k].down = conns[k].down
           /\ ~conns[k].consumerOpen /\ ~conns'[k].consumerOpen
           /\ conns'[k].producerOpen <=> conns[k].producerOpen /\ k # m_listfd[p]
  BY <1>1, ClosingProducerEnd DEF ConsumerServesOne
<1>3. TypeOK'
  BY <1>1, <1>2, ConnsIsFunction, SMTT(30) DEF TypeOK, NoConn
<1>4. ProducersOwnTheirs'
  <2>1. \A q \in Producers : q # p /\ m_listfd[q] # NoConn => m_listfd[q] # m_listfd[p]
    BY DEF ProducersOwnTheirs
  <2>2. \A q \in Producers : m_listfd'[q] = IF q = p THEN NoConn ELSE m_listfd[q]
    BY <1>1, Numbers
  <2>3. \A q \in Producers : m_listfd[q] # NoConn => m_listfd[q] \in DOMAIN conns
    BY Numbers
  <2> QED
    BY <1>1, <1>2, <2>1, <2>2, <2>3 DEF ProducersOwnTheirs
<1>5. ConsumerServesOne'
  BY <1>1, <1>2, Numbers DEF ConsumerServesOne
<1>6. OneConnectionEach'
  <2>1. \A q \in Producers : m_listfd'[q] = IF q = p THEN NoConn ELSE m_listfd[q]
    BY <1>1, Numbers
  <2>2. \A k \in DOMAIN conns : conns[k].producer \in Producers
    BY Numbers
  <2> QED
    BY <1>1, <1>2, <2>1, <2>2 DEF OneConnectionEach
<1>7. OneMessageUnderWay'
  BY <1>1, <1>2, Numbers, SMTT(30) DEF OneMessageUnderWay, Acknowledging
<1>8. HandledWasSent' /\ UnreadIsNext' /\ HandledInOrder' /\ AckedWasHandled'
  BY <1>1, <1>2, Numbers DEF HandledWasSent, UnreadIsNext, HandledInOrder, AckedWasHandled
<1>9. AnsweredWasHandled'
  BY <1>1, <1>2 DEF AnsweredWasHandled, WasHandled
<1> QED
  BY <1>3, <1>4, <1>5, <1>6, <1>7, <1>8, <1>9

(* A producer ends, by a crash or by a signal: its message may still be read, *)
(* and is of the run's last number or an earlier one.                         *)
LEMMA ProducerEndIInv ==
    ASSUME IInv, NEW p \in Producers, ppc[p] # "dead",
           CloseProducerEnd(p), ppc' = [ppc EXCEPT ![p] = "dead"],
           UNCHANGED <<m_listfd, msgIndex, run, acked, consumerVars>>,
           crashes' \in 0..MaxCrashes
    PROVE  IInv'
<1> USE DEF IInv
<1>1. UNCHANGED <<m_listfd, msgIndex, run, acked, cpc, backlog, connfd, msg, handled>>
  BY DEF consumerVars
<1>2. /\ conns' \in Seq(Conn) /\ DOMAIN conns' = DOMAIN conns
      /\ Len(conns') = Len(conns)
      /\ \A k \in DOMAIN conns :
           /\ conns'[k].producer = conns[k].producer /\ conns'[k].run = conns[k].run
           /\ conns'[k].up = conns[k].up /\ conns'[k].down = conns[k].down
           /\ conns'[k].consumerOpen <=> conns[k].consumerOpen
           /\ conns'[k].producerOpen <=> conns[k].producerOpen /\ k # m_listfd[p]
  BY ClosingProducerEnd
<1>3. \A q \in Producers : ppc'[q] = IF q = p THEN "dead" ELSE ppc[q]
  BY Numbers
<1>4. /\ \A q \in Producers : m_listfd[q] # NoConn => m_listfd[q] \in DOMAIN conns
      /\ \A k \in DOMAIN conns : conns[k].producer \in Producers
  BY Numbers
<1>5. TypeOK'
  BY <1>1, <1>2 DEF TypeOK
<1>6. ProducersOwnTheirs'
  <2>1. \A q \in Producers : q # p /\ m_listfd[q] # NoConn => m_listfd[q] # m_listfd[p]
    BY Numbers DEF ProducersOwnTheirs
  <2> QED
    BY <1>1, <1>2, <1>3, <1>4, <2>1 DEF ProducersOwnTheirs
<1>7. ConsumerServesOne'
  BY <1>1, <1>2, Numbers DEF ConsumerServesOne
<1>8. OneConnectionEach'
  BY <1>1, <1>2, <1>3, <1>4 DEF OneConnectionEach
<1>9. OneMessageUnderWay'
  <2>1. \A k \in DOMAIN conns :
          conns[k].producerOpen /\ k # m_listfd[p] => conns[k].producer # p
    BY DEF OneConnectionEach
  <2> QED
    BY <1>1, <1>2, <1>3, <1>4, <2>1 DEF OneMessageUnderWay, Acknowledging
<1>10. HandledWasSent'
  BY <1>1, <1>3, <1>4, Numbers DEF HandledWasSent
<1>11. UnreadIsNext' /\ HandledInOrder' /\ AckedWasHandled'
  BY <1>1, <1>2 DEF UnreadIsNext, HandledInOrder, AckedWasHandled
<1>12. AnsweredWasHandled'
  <2>1. cpc = "ack" => connfd \in DOMAIN conns
    BY Numbers DEF ConsumerServesOne
  <2> QED
    BY <1>1, <1>2, <2>1, SMTT(30) DEF AnsweredWasHandled, WasHandled
<1> QED
  BY <1>5, <1>6, <1>7, <1>8, <1>9, <1>10, <1>11, <1>12

LEMMA SendKilledIInv ==
    ASSUME IInv, NEW p \in Producers, SendKilled(p)
    PROVE  IInv'
<1>1. crashes' \in 0..MaxCrashes
  BY DEF SendKilled, IInv, TypeOK
<1>2. /\ ppc[p] # "dead" /\ CloseProducerEnd(p) /\ ppc' = [ppc EXCEPT ![p] = "dead"]
      /\ UNCHANGED <<m_listfd, msgIndex, run, acked, consumerVars>>
  BY DEF SendKilled
<1> QED
  BY <1>1, <1>2, ProducerEndIInv

LEMMA ProducerCrashIInv ==
    ASSUME IInv, NEW p \in Producers, ProducerCrash(p)
    PROVE  IInv'
<1>1. crashes' \in 0..MaxCrashes
  BY DEF ProducerCrash, IInv, TypeOK
<1>2. /\ ppc[p] # "dead" /\ CloseProducerEnd(p) /\ ppc' = [ppc EXCEPT ![p] = "dead"]
      /\ UNCHANGED <<m_listfd, msgIndex, run, acked, consumerVars>>
  BY DEF ProducerCrash
<1> QED
  BY <1>1, <1>2, ProducerEndIInv

(* A producer is started again: what was handled or is still to be read of it *)
(* is of an earlier run.                                                      *)
LEMMA ProducerRestartIInv ==
    ASSUME IInv, NEW p \in Producers, ProducerRestart(p)
    PROVE  IInv'
<1> USE DEF IInv
<1>1. /\ ppc[p] = "dead" /\ run[p] < MaxRuns
      /\ ppc' = [ppc EXCEPT ![p] = "connect"]
      /\ m_listfd' = [m_listfd EXCEPT ![p] = NoConn]
      /\ msgIndex' = [msgIndex EXCEPT ![p] = 1]
      /\ run' = [run EXCEPT ![p] = @ + 1]
      /\ UNCHANGED <<acked, conns, cpc, backlog, connfd, msg, handled, crashes>>
  BY DEF ProducerRestart, consumerVars
<1>2. \A k \in DOMAIN conns : conns[k].producerOpen => conns[k].producer # p
  BY <1>1 DEF OneConnectionEach
<1>3. /\ \A k \in DOMAIN conns : conns[k].producer = p => conns[k].run < run'[p]
      /\ \A i \in DOMAIN handled : handled[i][1] = p => handled[i][2] < run'[p]
  BY <1>1, Numbers DEF OneConnectionEach, HandledWasSent
<1>4. TypeOK'
  BY <1>1 DEF TypeOK, NoConn
<1>5. ProducersOwnTheirs'
  BY <1>1, Numbers DEF ProducersOwnTheirs
<1>6. ConsumerServesOne'
  BY <1>1 DEF ConsumerServesOne
<1>7. OneConnectionEach'
  BY <1>1, <1>2, <1>3, Numbers DEF OneConnectionEach
<1>8. OneMessageUnderWay'
  BY <1>1, <1>2, Numbers DEF OneMessageUnderWay, Acknowledging
<1>9. HandledWasSent'
  BY <1>1, <1>3, Numbers DEF HandledWasSent
<1>10. UnreadIsNext'
  <2>1. \A q \in Producers : q # p => msgIndex'[q] = msgIndex[q] /\ run'[q] = run[q]
    BY <1>1
  <2>2. \A k \in DOMAIN conns : conns[k].producer \in Producers /\ conns[k].run \in Nat
    BY Numbers
  <2>3. run'[p] \in Nat
    BY <1>1, Numbers
  <2> QED
    BY <1>1, <1>3, <2>1, <2>2, <2>3 DEF UnreadIsNext
<1>11. AnsweredWasHandled'
  BY <1>1, <1>2, Numbers DEF AnsweredWasHandled, WasHandled
<1>12. HandledInOrder' /\ AckedWasHandled'
  BY <1>1 DEF HandledInOrder, AckedWasHandled
<1> QED
  BY <1>4, <1>5, <1>6, <1>7, <1>8, <1>9, <1>10, <1>11, <1>12

(* The message is written to a connection that holds none. *)
LEMMA SendIInv ==
    ASSUME IInv, NEW p \in Producers, sendMsgToConsumer(p)
    PROVE  IInv'
<1> USE DEF IInv
<1> DEFINE k == m_listfd[p]
           c == [conns[k] EXCEPT !.up = <<msgIndex[p]>>]
<1>1. /\ ppc[p] = "write" /\ conns[k].consumerOpen
      /\ conns' = [conns EXCEPT ![k].up = Append(@, msgIndex[p])]
      /\ ppc' = [ppc EXCEPT ![p] = "read"]
      /\ UNCHANGED <<m_listfd, msgIndex, run, acked, cpc, backlog, connfd, msg, handled,
                     crashes>>
  BY DEF sendMsgToConsumer, consumerVars
<1>2. /\ k \in DOMAIN conns /\ conns[k].producer = p /\ conns[k].run = run[p]
      /\ conns[k].producerOpen /\ msgIndex[p] \in 1..MaxMsgs
  BY <1>1, Numbers, SMTT(30) DEF ProducersOwnTheirs, TypeOK
<1>3. conns[k].up = <<>> /\ conns[k].down = <<>> /\ ~Acknowledging(k)
  BY <1>1, <1>2 DEF OneMessageUnderWay
<1>4. /\ c \in Conn /\ c.up = <<msgIndex[p]>> /\ c.producer = p /\ c.run = run[p]
      /\ c.down = <<>> /\ c.producerOpen /\ c.consumerOpen
  <2>1. conns[k] \in Conn /\ <<msgIndex[p]>> \in Seq(1..MaxMsgs)
    BY <1>2, OneMessage, ConnsIsFunction
  <2>2. /\ c \in Conn /\ c.up = <<msgIndex[p]>> /\ c.down = conns[k].down
        /\ c.producer = conns[k].producer /\ c.run = conns[k].run
        /\ c.producerOpen <=> conns[k].producerOpen
        /\ c.consumerOpen <=> conns[k].consumerOpen
    BY <2>1, UpOrDown, ZenonT(30)
  <2> QED
    BY <2>2, <1>1, <1>2, <1>3
<1>5. conns' = [conns EXCEPT ![k] = c]
  <2>1. conns' = [conns EXCEPT ![k] = [conns[k] EXCEPT !.up = Append(conns[k].up, msgIndex[p])]]
    BY <1>1, <1>2
  <2> QED
    BY <2>1, <1>2, <1>3, OneMessage
<1> HIDE DEF c
<1>6. /\ conns' \in Seq(Conn) /\ DOMAIN conns' = DOMAIN conns
      /\ Len(conns') = Len(conns) /\ conns'[k] = c
      /\ \A j \in DOMAIN conns : j # k => conns'[j] = conns[j]
  BY <1>2, <1>4, <1>5, UpdateOfOne
<1>7. /\ \A q \in Producers : ppc'[q] = IF q = p THEN "read" ELSE ppc[q]
      /\ \A q \in Producers : m_listfd[q] # NoConn => m_listfd[q] \in DOMAIN conns
      /\ \A j \in DOMAIN conns : conns[j].producer \in Producers
  BY <1>1, Numbers
<1>8. TypeOK'
  BY <1>1, <1>6 DEF TypeOK
<1>9. ProducersOwnTheirs'
  BY <1>1, <1>2, <1>4, <1>6, <1>7 DEF ProducersOwnTheirs
<1>10. ConsumerServesOne'
  BY <1>1, <1>2, <1>4, <1>6, Numbers DEF ConsumerServesOne
<1>11. OneConnectionEach'
  BY <1>1, <1>2, <1>4, <1>6, <1>7 DEF OneConnectionEach
<1>12. OneMessageUnderWay'
  <2>1. \A j \in DOMAIN conns : conns[j].producerOpen /\ j # k => conns[j].producer # p
    BY DEF OneConnectionEach
  <2> QED
    BY <1>1, <1>2, <1>3, <1>4, <1>6, <1>7, <2>1 DEF OneMessageUnderWay, Acknowledging
<1>13. HandledWasSent'
  BY <1>1, <1>7, Numbers DEF HandledWasSent
<1>14. UnreadIsNext'
  <2>1. /\ Len(c.up) = 1 /\ c.up[1] = msgIndex[p]
        /\ \A i \in DOMAIN handled :
             handled[i][1] = p /\ handled[i][2] = run[p] => handled[i][3] < c.up[1]
    BY <1>1, <1>4 DEF HandledWasSent
  <2>2. /\ c.run = run'[c.producer] => c.up[1] <= msgIndex'[c.producer]
        /\ \A i \in DOMAIN handled :
             handled[i][1] = c.producer /\ handled[i][2] = c.run => handled[i][3] < c.up[1]
    BY <1>1, <1>2, <1>4, <2>1
  <2>3. ASSUME NEW j \in DOMAIN conns', conns'[j].consumerOpen, conns'[j].up # <<>>
        PROVE  /\ Len(conns'[j].up) = 1
               /\ conns'[j].run = run'[conns'[j].producer] =>
                    conns'[j].up[1] <= msgIndex'[conns'[j].producer]
               /\ \A i \in DOMAIN handled' :
                    handled'[i][1] = conns'[j].producer /\ handled'[i][2] = conns'[j].run =>
                      handled'[i][3] < conns'[j].up[1]
    <3>1. CASE j = k
      BY <3>1, <1>1, <1>6, <2>1, <2>2
    <3>2. CASE j # k
      BY <3>2, <2>3, <1>1, <1>6 DEF UnreadIsNext
    <3> QED
      BY <3>1, <3>2
  <2> QED
    BY <2>3 DEF UnreadIsNext
<1>15. AnsweredWasHandled'
  <2>1. cpc = "ack" => connfd \in DOMAIN conns
    BY Numbers DEF ConsumerServesOne
  <2> QED
    BY <1>1, <1>2, <1>4, <1>6, <2>1, SMTT(30) DEF AnsweredWasHandled, WasHandled
<1>16. HandledInOrder' /\ AckedWasHandled'
  BY <1>1 DEF HandledInOrder, AckedWasHandled
<1> QED
  BY <1>8, <1>9, <1>10, <1>11, <1>12, <1>13, <1>14, <1>15, <1>16

(* An answer is read, the acknowledgement of this message, or the connection *)
(* ended without one: either way the producer goes on to the next message.   *)
LEMMA GetAckIInv ==
    ASSUME IInv, NEW p \in Producers, getConsumerAck(p)
    PROVE  IInv'
<1> USE DEF IInv
<1> DEFINE k == m_listfd[p]
           n == msgIndex[p]
           c == [conns[k] EXCEPT !.down = <<>>]
<1>1. /\ ppc[p] = "read" /\ Answers(conns[k].down, conns[k].consumerOpen)
      /\ msgIndex' = [msgIndex EXCEPT ![p] = n + 1]
      /\ ppc' = [ppc EXCEPT ![p] = "connect"]
      /\ UNCHANGED <<m_listfd, run, cpc, backlog, connfd, msg, handled, crashes>>
  BY DEF getConsumerAck, consumerVars
<1>2. /\ k \in DOMAIN conns /\ conns[k].producer = p /\ conns[k].run = run[p]
      /\ conns[k].producerOpen /\ n \in 1..MaxMsgs
  BY <1>1, Numbers DEF ProducersOwnTheirs, TypeOK
<1>3. /\ conns[k].down = <<>> \/ conns[k].down = <<n>>
      /\ conns[k].down = <<>> => ~conns[k].consumerOpen
      /\ conns[k].consumerOpen => conns[k].up = <<>> /\ ~Acknowledging(k)
  BY <1>1, <1>2, OneMessage DEF OneMessageUnderWay, Answers
<1>4. /\ c \in Conn /\ c.up = conns[k].up /\ c.producer = p /\ c.run = run[p]
      /\ c.down = <<>> /\ c.producerOpen
      /\ c.consumerOpen <=> conns[k].consumerOpen
  <2>1. conns[k] \in Conn /\ <<>> \in Seq(1..MaxMsgs)
    BY <1>2, OneMessage, ConnsIsFunction
  <2>2. /\ c \in Conn /\ c.up = conns[k].up /\ c.down = <<>>
        /\ c.producer = conns[k].producer /\ c.run = conns[k].run
        /\ c.producerOpen <=> conns[k].producerOpen
        /\ c.consumerOpen <=> conns[k].consumerOpen
    BY <2>1, UpOrDown, ZenonT(30)
  <2> QED
    BY <2>2, <1>2
<1>5. /\ conns' = [conns EXCEPT ![k] = c]
      /\ \/ acked' = acked
         \/ conns[k].down = <<n>> /\ acked' = acked \cup {<<p, run[p], n>>}
  <2>1. CASE conns[k].down = <<>>
    <3>1. conns' = conns /\ acked' = acked
      BY <1>1, <2>1 DEF getConsumerAck, readFromSocket
    <3>2. c = conns[k]
      <4>1. conns[k] \in Conn /\ <<>> \in Seq(1..MaxMsgs)
        BY <1>2, OneMessage, ConnsIsFunction
      <4> QED
        BY <4>1, <2>1, UpOrDown, ZenonT(30)
    <3>3. conns \in [1 .. Len(conns) -> Conn]
      BY ConnsIsFunction DEF TypeOK
    <3> QED
      BY <3>1, <3>2, <3>3, <1>2
  <2>2. CASE conns[k].down = <<n>>
    <3>1. readFromSocket(conns[k].down) = n /\ n # 0 /\ Tail(conns[k].down) = <<>>
      BY <1>2, <2>2, OneMessage DEF readFromSocket
    <3>2. /\ conns' = [conns EXCEPT ![k].down = Tail(@)]
          /\ acked' = acked \cup {<<p, run[p], n>>}
      BY <3>1 DEF getConsumerAck
    <3> QED
      BY <3>1, <3>2, <2>2
  <2> QED
    BY <1>3, <2>1, <2>2
<1> HIDE DEF c
<1>6. /\ conns' \in Seq(Conn) /\ DOMAIN conns' = DOMAIN conns
      /\ Len(conns') = Len(conns) /\ conns'[k] = c
      /\ \A j \in DOMAIN conns : j # k => conns'[j] = conns[j]
  BY <1>2, <1>4, <1>5, UpdateOfOne
<1>7. /\ \A q \in Producers : ppc'[q] = IF q = p THEN "connect" ELSE ppc[q]
      /\ \A q \in Producers : msgIndex'[q] = IF q = p THEN n + 1 ELSE msgIndex[q]
      /\ \A q \in Producers : m_listfd[q] # NoConn => m_listfd[q] \in DOMAIN conns
      /\ \A j \in DOMAIN conns : conns[j].producer \in Producers
  BY <1>1, Numbers
<1>8. TypeOK'
  <2>1. <<p, run[p], n>> \in Message
    BY <1>2 DEF Message, TypeOK
  <2>2. acked' \in SUBSET Message
    BY <2>1, <1>5 DEF TypeOK
  <2>3. msgIndex' \in [Producers -> 1 .. MaxMsgs + 1]
    BY <1>1, <1>2, SMTT(30) DEF TypeOK
  <2> QED
    BY <1>1, <1>6, <2>2, <2>3 DEF TypeOK
<1>9. ProducersOwnTheirs'
  BY <1>1, <1>2, <1>4, <1>6, <1>7, SMTT(30) DEF ProducersOwnTheirs
<1>10. ConsumerServesOne'
  <2>1. \A j \in DOMAIN conns : conns'[j].consumerOpen <=> conns[j].consumerOpen
    BY <1>4, <1>6
  <2> QED
    BY <1>1, <1>6, <2>1, Numbers DEF ConsumerServesOne
<1>11. OneConnectionEach'
  <2>1. \A j \in DOMAIN conns :
          /\ conns'[j].producer = conns[j].producer /\ conns'[j].run = conns[j].run
          /\ conns'[j].consumerOpen <=> conns[j].consumerOpen
          /\ conns'[j].producerOpen <=> conns[j].producerOpen
    BY <1>2, <1>4, <1>6
  <2> QED
    BY <1>1, <1>6, <1>7, <2>1 DEF OneConnectionEach
<1>12. OneMessageUnderWay'
  <2>1. \A j \in DOMAIN conns : conns[j].producerOpen /\ j # k => conns[j].producer # p
    BY DEF OneConnectionEach
  <2> QED
    BY <1>1, <1>2, <1>3, <1>4, <1>6, <1>7, <2>1 DEF OneMessageUnderWay, Acknowledging
<1>13. HandledWasSent'
  BY <1>1, <1>2, <1>7, Numbers DEF HandledWasSent
<1>14. UnreadIsNext'
  <2>1. \A j \in DOMAIN conns :
          conns[j].consumerOpen /\ conns[j].producer = p /\ conns[j].run = run[p] => j = k
    BY <1>2 DEF OneConnectionEach
  <2>2. c.consumerOpen => c.up = <<>>
    BY <1>3, <1>4
  <2>3. \A j \in DOMAIN conns :
          conns[j].producer # p => msgIndex'[conns[j].producer] = msgIndex[conns[j].producer]
    BY <1>7
  <2> QED
    BY <1>1, <1>6, <2>1, <2>2, <2>3 DEF UnreadIsNext
<1>15. AnsweredWasHandled'
  <2>1. cpc = "ack" => connfd \in DOMAIN conns
    BY Numbers DEF ConsumerServesOne
  <2>2. \A j \in DOMAIN conns : conns[j].producerOpen /\ j # k => conns[j].producer # p
    BY DEF OneConnectionEach
  <2> QED
    BY <1>1, <1>2, <1>4, <1>6, <1>7, <2>1, <2>2, SMTT(30) DEF AnsweredWasHandled, WasHandled
<1>16. HandledInOrder'
  BY <1>1 DEF HandledInOrder
<1>17. AckedWasHandled'
  <2>1. conns[k].down = <<n>> => WasHandled(<<p, run[p], n>>)
    BY <1>2, OneMessage DEF AnsweredWasHandled
  <2> QED
    BY <1>1, <1>5, <2>1 DEF AckedWasHandled, WasHandled
<1> QED
  BY <1>8, <1>9, <1>10, <1>11, <1>12, <1>13, <1>14, <1>15, <1>16, <1>17

------------------------------------------------------------------------------
(* The consumer's steps. *)

LEMMA ConsumerStartIInv ==
    ASSUME IInv, ConsumerStart
    PROVE  IInv'
<1> USE DEF IInv
<1>1. /\ cpc = "down" /\ cpc' = "accept"
      /\ UNCHANGED <<ppc, m_listfd, msgIndex, run, acked, conns, backlog, connfd, msg,
                     handled, crashes>>
  BY DEF ConsumerStart, producerVars
<1>2. TypeOK' /\ ProducersOwnTheirs'
  BY <1>1 DEF TypeOK, ProducersOwnTheirs
<1>3. ConsumerServesOne' /\ OneConnectionEach'
  BY <1>1 DEF ConsumerServesOne, OneConnectionEach
<1>4. OneMessageUnderWay'
  BY <1>1 DEF OneMessageUnderWay, Acknowledging
<1> QED
  BY <1>1, <1>2, <1>3, <1>4 DEF HandledWasSent, UnreadIsNext, AnsweredWasHandled,
     WasHandled, HandledInOrder, AckedWasHandled

LEMMA AcceptIInv ==
    ASSUME IInv, Accept
    PROVE  IInv'
<1> USE DEF IInv
<1>1. /\ cpc = "accept" /\ cpc' = "read" /\ backlog # <<>>
      /\ connfd' = Head(backlog) /\ backlog' = Tail(backlog)
      /\ UNCHANGED <<ppc, m_listfd, msgIndex, run, acked, conns, msg, handled, crashes>>
  BY DEF Accept, producerVars
<1>2. /\ 1 \in DOMAIN backlog /\ connfd' = backlog[1]
      /\ backlog' \in Seq(DOMAIN conns)
      /\ \A i \in DOMAIN backlog' :
           i + 1 \in DOMAIN backlog /\ i + 1 # 1 /\ backlog'[i] = backlog[i + 1]
      /\ \A i, j \in DOMAIN backlog' : i # j => i + 1 # j + 1
  BY <1>1, SMTT(30) DEF TypeOK
<1>3. connfd' \in DOMAIN conns /\ connfd' # NoConn
  BY <1>2, Numbers
<1>4. TypeOK'
  <2>1. connfd' \in 0 .. Len(conns)
    BY <1>3, ConnsIsFunction
  <2> QED
    BY <1>1, <1>2, <2>1 DEF TypeOK
<1>5. ConsumerServesOne'
  <2>1. \A i \in DOMAIN backlog' : conns[backlog'[i]].consumerOpen /\ backlog'[i] # connfd'
    BY <1>2 DEF ConsumerServesOne
  <2>2. \A i, j \in DOMAIN backlog' : i # j => backlog'[i] # backlog'[j]
    BY <1>2 DEF ConsumerServesOne
  <2>3. conns[connfd'].consumerOpen
    BY <1>2 DEF ConsumerServesOne
  <2> QED
    BY <1>1, <1>3, <2>1, <2>2, <2>3 DEF ConsumerServesOne
<1>6. OneMessageUnderWay'
  BY <1>1 DEF OneMessageUnderWay, Acknowledging
<1>7. ProducersOwnTheirs' /\ OneConnectionEach'
  BY <1>1 DEF ProducersOwnTheirs, OneConnectionEach
<1> QED
  BY <1>1, <1>4, <1>5, <1>6, <1>7 DEF HandledWasSent, UnreadIsNext, AnsweredWasHandled,
     WasHandled, HandledInOrder, AckedWasHandled

(* The message read is the only one on its connection, the next of its run, *)
(* and of no other connection of that run anything can follow.              *)
LEMMA ReadIInv ==
    ASSUME IInv, readConsumerMsg
    PROVE  IInv'
<1> USE DEF IInv
<1> DEFINE k == connfd
           n == conns[k].up[1]
           p == conns[k].producer
           r == conns[k].run
           c == [conns[k] EXCEPT !.up = <<>>]
<1>1. /\ cpc = "read" /\ cpc' = "ack"
      /\ UNCHANGED <<ppc, m_listfd, msgIndex, run, acked, backlog, connfd, crashes>>
  BY DEF readConsumerMsg, producerVars
<1>2. /\ k # NoConn /\ k \in DOMAIN conns /\ conns[k].consumerOpen
      /\ conns[k] \in Conn /\ p \in Producers /\ r \in 1..MaxRuns
  BY <1>1, Numbers, ConnsIsFunction DEF ConsumerServesOne
<1>3. conns[k].up # <<>>
  BY DEF readConsumerMsg, readFromSocket
<1>4. /\ n \in 1..MaxMsgs /\ conns[k].up = <<n>>
      /\ Head(conns[k].up) = n /\ Tail(conns[k].up) = <<>>
  <2>1. conns[k].up \in Seq(1..MaxMsgs) /\ Len(conns[k].up) = 1
    BY <1>2, <1>3, ConnsIsFunction DEF UnreadIsNext
  <2>2. n \in 1..MaxMsgs /\ conns[k].up = <<n>>
    BY <2>1, OnlyOne, Zenon
  <2> QED
    BY <2>2, OneMessage
<1>5. /\ msg' = n /\ handled' = Append(handled, <<p, r, n>>)
      /\ conns' = [conns EXCEPT ![k] = c]
  BY <1>2, <1>3, <1>4 DEF readConsumerMsg, readFromSocket
<1>6. /\ c \in Conn /\ c.up = <<>> /\ c.down = conns[k].down
      /\ c.producer = p /\ c.run = r
      /\ c.producerOpen <=> conns[k].producerOpen
      /\ c.consumerOpen <=> conns[k].consumerOpen
  <2>1. conns[k] \in Conn /\ <<>> \in Seq(1..MaxMsgs)
    BY <1>2, <1>4, OneMessage
  <2> QED
    BY <2>1, UpOrDown, ZenonT(30)
<1> HIDE DEF c
<1>7. /\ conns' \in Seq(Conn) /\ DOMAIN conns' = DOMAIN conns
      /\ Len(conns') = Len(conns) /\ conns'[k] = c
      /\ \A j \in DOMAIN conns : j # k => conns'[j] = conns[j]
  BY <1>2, <1>5, <1>6, UpdateOfOne
<1>8. \A j \in DOMAIN conns :
        /\ conns'[j].producer = conns[j].producer /\ conns'[j].run = conns[j].run
        /\ conns'[j].down = conns[j].down
        /\ conns'[j].consumerOpen <=> conns[j].consumerOpen
        /\ conns'[j].producerOpen <=> conns[j].producerOpen
  BY <1>6, <1>7
<1>9. <<p, r, n>> \in Message
  BY <1>2, <1>4 DEF Message
<1>10. /\ handled' \in Seq(Message)
       /\ DOMAIN handled' = DOMAIN handled \cup {Len(handled) + 1}
       /\ Len(handled) + 1 \notin DOMAIN handled
       /\ \A i \in DOMAIN handled : i < Len(handled) + 1
       /\ handled'[Len(handled) + 1] = <<p, r, n>>
       /\ \A i \in DOMAIN handled : handled'[i] = handled[i]
  <2>1. handled \in Seq(Message) /\ \A i \in DOMAIN handled : i < Len(handled) + 1
    BY DEF TypeOK
  <2> QED
    BY <1>5, <1>9, <2>1, OneMore
<1>11. TypeOK'
  BY <1>1, <1>4, <1>5, <1>7, <1>10 DEF TypeOK
<1>12. ProducersOwnTheirs'
  BY <1>1, <1>7, <1>8, Numbers, ZenonT(30) DEF ProducersOwnTheirs
<1>13. ConsumerServesOne'
  BY <1>1, <1>2, <1>7, <1>8, Numbers DEF ConsumerServesOne
<1>14. OneConnectionEach'
  BY <1>1, <1>7, <1>8 DEF OneConnectionEach
<1>15. /\ r = run[p] => n <= msgIndex[p]
       /\ \A i \in DOMAIN handled :
            handled[i][1] = p /\ handled[i][2] = r => handled[i][3] < n
  BY <1>2, <1>3 DEF UnreadIsNext
<1>16. conns[k].producerOpen => ppc[p] = "read" /\ n = msgIndex[p]
  BY <1>2, <1>3, <1>4 DEF OneMessageUnderWay
<1>17. OneMessageUnderWay'
  <2>1. \A j \in DOMAIN conns : ~Acknowledging(j)
    BY <1>1 DEF Acknowledging
  <2>2. \A j \in DOMAIN conns : Acknowledging(j)' <=> j = k
    BY <1>1 DEF Acknowledging
  <2>3. conns[k].producerOpen => conns[k].down = <<>>
    BY <1>2, <1>3, <2>1 DEF OneMessageUnderWay
  <2> QED
    BY <1>1, <1>2, <1>5, <1>6, <1>7, <1>16, <2>1, <2>2, <2>3 DEF OneMessageUnderWay
<1>18. HandledWasSent'
  <2>1. r <= run[p]
    BY <1>2 DEF OneConnectionEach
  <2>2. r = run[p] /\ ppc[p] \in {"connect", "write"} => FALSE
    BY <1>2, <1>16 DEF OneConnectionEach, ProducersOwnTheirs
  <2> QED
    BY <1>1, <1>10, <1>15, <2>1, <2>2 DEF HandledWasSent
<1>19. UnreadIsNext'
  <2>1. \A j \in DOMAIN conns :
          conns[j].consumerOpen /\ conns[j].producer = p /\ conns[j].run = r => j = k
    BY <1>2 DEF OneConnectionEach
  <2> QED
    BY <1>1, <1>6, <1>7, <1>10, <2>1 DEF UnreadIsNext
<1>20. AnsweredWasHandled'
  <2>1. \A m : WasHandled(m) => WasHandled(m)'
    BY <1>10 DEF WasHandled
  <2>2. \A j \in DOMAIN conns :
          conns'[j].producerOpen /\ conns'[j].down # <<>> =>
            WasHandled(<<conns[j].producer, conns[j].run, msgIndex[conns[j].producer]>>)
    BY <1>8 DEF AnsweredWasHandled
  <2>3. \E i \in DOMAIN handled' :
          handled'[i] = <<conns'[connfd'].producer, conns'[connfd'].run, msg'>>
    BY <1>1, <1>2, <1>5, <1>8, <1>10
  <2> QED
    BY <1>1, <1>7, <1>8, <2>1, <2>2, <2>3, SMTT(30) DEF AnsweredWasHandled, WasHandled
<1>21. HandledInOrder'
  <2>1. ASSUME NEW i \in DOMAIN handled', NEW j \in DOMAIN handled', i < j,
               handled'[i][1] = handled'[j][1], handled'[i][2] = handled'[j][2]
        PROVE  handled'[i][3] < handled'[j][3]
    <3>1. i \in DOMAIN handled
      BY <2>1, <1>10 DEF TypeOK
    <3>2. CASE j \in DOMAIN handled
      BY <2>1, <3>1, <3>2, <1>10 DEF HandledInOrder
    <3>3. CASE j = Len(handled) + 1
      <4>1. handled'[j][1] = p /\ handled'[j][2] = r /\ handled'[j][3] = n
        BY <3>3, <1>10
      <4> QED
        BY <4>1, <2>1, <3>1, <1>10, <1>15
    <3> QED
      BY <3>2, <3>3, <1>10
  <2> QED
    BY <2>1 DEF HandledInOrder
<1>22. AckedWasHandled'
  BY <1>1, <1>10 DEF AckedWasHandled
<1> QED
  BY <1>11, <1>12, <1>13, <1>14, <1>17, <1>18, <1>19, <1>20, <1>21, <1>22

(* The connection served is closed once all of it is read. *)
LEMMA WentDownIInv ==
    ASSUME IInv, ProducerWentDown
    PROVE  IInv'
<1> USE DEF IInv
<1> DEFINE k == connfd
           c == [conns[k] EXCEPT !.consumerOpen = FALSE]
<1>1. /\ cpc = "read" /\ cpc' = "accept" /\ connfd' = NoConn
      /\ conns' = [conns EXCEPT ![k].consumerOpen = FALSE]
      /\ UNCHANGED <<ppc, m_listfd, msgIndex, run, acked, backlog, msg, handled, crashes>>
  BY DEF ProducerWentDown, producerVars
<1>2. k # NoConn /\ k \in DOMAIN conns /\ conns[k] \in Conn
  BY <1>1, Numbers, ConnsIsFunction DEF ConsumerServesOne
<1>3. /\ c \in Conn /\ c.up = conns[k].up /\ c.down = conns[k].down
      /\ c.producer = conns[k].producer /\ c.run = conns[k].run
      /\ c.producerOpen <=> conns[k].producerOpen
      /\ ~c.consumerOpen
  BY <1>2 DEF Conn
<1>4. conns' = [conns EXCEPT ![k] = c]
  BY <1>1, <1>2
<1> HIDE DEF c
<1>5. /\ conns' \in Seq(Conn) /\ DOMAIN conns' = DOMAIN conns
      /\ Len(conns') = Len(conns) /\ conns'[k] = c
      /\ \A j \in DOMAIN conns : j # k => conns'[j] = conns[j]
  BY <1>2, <1>3, <1>4, UpdateOfOne
<1>6. \A j \in DOMAIN conns :
        /\ conns'[j].producer = conns[j].producer /\ conns'[j].run = conns[j].run
        /\ conns'[j].up = conns[j].up /\ conns'[j].down = conns[j].down
        /\ conns'[j].consumerOpen <=> conns[j].consumerOpen /\ j # k
        /\ conns'[j].producerOpen <=> conns[j].producerOpen
  BY <1>3, <1>5
<1>7. TypeOK'
  BY <1>1, <1>5, ConnsIsFunction DEF TypeOK, NoConn
<1>8. ProducersOwnTheirs'
  BY <1>1, <1>5, <1>6, Numbers DEF ProducersOwnTheirs
<1>9. ConsumerServesOne'
  BY <1>1, <1>5, <1>6, Numbers DEF ConsumerServesOne
<1>10. OneConnectionEach'
  BY <1>1, <1>5, <1>6 DEF OneConnectionEach
<1>11. OneMessageUnderWay'
  BY <1>1, <1>5, <1>6 DEF OneMessageUnderWay, Acknowledging
<1>12. HandledWasSent' /\ HandledInOrder' /\ AckedWasHandled'
  BY <1>1 DEF HandledWasSent, HandledInOrder, AckedWasHandled
<1>13. UnreadIsNext'
  BY <1>1, <1>5, <1>6 DEF UnreadIsNext
<1>14. AnsweredWasHandled'
  BY <1>1, <1>5, <1>6 DEF AnsweredWasHandled, WasHandled
<1> QED
  BY <1>7, <1>8, <1>9, <1>10, <1>11, <1>12, <1>13, <1>14

(* The acknowledgement is written to a connection that holds nothing else. *)
LEMMA SendAckIInv ==
    ASSUME IInv, sendAck
    PROVE  IInv'
<1> USE DEF IInv
<1> DEFINE k == connfd
           p == conns[k].producer
           c == [conns[k] EXCEPT !.down = <<msg>>]
<1>1. /\ cpc = "ack" /\ cpc' = "read" /\ conns[k].producerOpen
      /\ conns' = [conns EXCEPT ![k].down = Append(@, msg)]
      /\ UNCHANGED <<ppc, m_listfd, msgIndex, run, acked, backlog, connfd, msg, handled,
                     crashes>>
  BY DEF sendAck, producerVars
<1>2. /\ k # NoConn /\ k \in DOMAIN conns /\ conns[k] \in Conn /\ conns[k].consumerOpen
      /\ p \in Producers
  BY <1>1, Numbers, ConnsIsFunction DEF ConsumerServesOne
<1>3. Acknowledging(k) /\ \A j \in DOMAIN conns : Acknowledging(j) => j = k
  BY <1>1 DEF Acknowledging
<1>4. /\ ppc[p] = "read" /\ msg = msgIndex[p]
      /\ conns[k].up = <<>> /\ conns[k].down = <<>>
  BY <1>1, <1>2, <1>3 DEF OneMessageUnderWay
<1>5. msg \in 1..MaxMsgs
  BY <1>1, <1>2, <1>4 DEF ProducersOwnTheirs, TypeOK
<1>6. /\ c \in Conn /\ c.up = conns[k].up /\ c.down = <<msg>>
      /\ c.producer = conns[k].producer /\ c.run = conns[k].run
      /\ c.producerOpen <=> conns[k].producerOpen
      /\ c.consumerOpen <=> conns[k].consumerOpen
  <2>1. conns[k] \in Conn /\ <<msg>> \in Seq(1..MaxMsgs)
    BY <1>2, <1>5, OneMessage
  <2> QED
    BY <2>1, UpOrDown, ZenonT(30)
<1>7. conns' = [conns EXCEPT ![k] = c]
  <2>1. conns' = [conns EXCEPT ![k] = [conns[k] EXCEPT !.down = Append(conns[k].down, msg)]]
    BY <1>1, <1>2
  <2> QED
    BY <2>1, <1>2, <1>4, <1>5, OneMessage
<1> HIDE DEF c
<1>8. /\ conns' \in Seq(Conn) /\ DOMAIN conns' = DOMAIN conns
      /\ Len(conns') = Len(conns) /\ conns'[k] = c
      /\ \A j \in DOMAIN conns : j # k => conns'[j] = conns[j]
  BY <1>2, <1>6, <1>7, UpdateOfOne
<1>9. \A j \in DOMAIN conns :
        /\ conns'[j].producer = conns[j].producer /\ conns'[j].run = conns[j].run
        /\ conns'[j].up = conns[j].up
        /\ conns'[j].consumerOpen <=> conns[j].consumerOpen
        /\ conns'[j].producerOpen <=> conns[j].producerOpen
  BY <1>6, <1>8
<1>10. TypeOK'
  BY <1>1, <1>8 DEF TypeOK
<1>11. ProducersOwnTheirs'
  BY <1>1, <1>8, <1>9, Numbers DEF ProducersOwnTheirs
<1>12. ConsumerServesOne'
  BY <1>1, <1>8, <1>9, Numbers DEF ConsumerServesOne
<1>13. OneConnectionEach'
  BY <1>1, <1>8, <1>9 DEF OneConnectionEach
<1>14. OneMessageUnderWay'
  <2>1. \A j \in DOMAIN conns : ~Acknowledging(j)'
    BY <1>1 DEF Acknowledging
  <2> QED
    BY <1>1, <1>2, <1>3, <1>4, <1>6, <1>8, <1>9, <2>1 DEF OneMessageUnderWay
<1>15. HandledWasSent' /\ HandledInOrder' /\ AckedWasHandled'
  BY <1>1 DEF HandledWasSent, HandledInOrder, AckedWasHandled
<1>16. UnreadIsNext'
  BY <1>1, <1>8, <1>9 DEF UnreadIsNext
<1>17. AnsweredWasHandled'
  <2>1. \A j \in DOMAIN conns : j # k => conns'[j].down = conns[j].down
    BY <1>8
  <2>2. WasHandled(<<p, conns[k].run, msgIndex[p]>>)
    BY <1>1, <1>4 DEF AnsweredWasHandled
  <2> QED
    BY <1>1, <1>8, <1>9, <2>1, <2>2 DEF AnsweredWasHandled, WasHandled
<1> QED
  BY <1>10, <1>11, <1>12, <1>13, <1>14, <1>15, <1>16, <1>17

(* The consumer ends, by a crash or by a signal: it reads nothing more of *)
(* any connection made so far.                                            *)
LEMMA ConsumerEndIInv ==
    ASSUME IInv, ConsumerEnds, crashes' \in 0..MaxCrashes
    PROVE  IInv'
<1> USE DEF IInv
<1>1. /\ CloseConsumerEnds /\ cpc' = "down" /\ backlog' = <<>> /\ connfd' = NoConn
      /\ msg' = 0 /\ UNCHANGED <<ppc, m_listfd, msgIndex, run, acked, handled>>
  BY DEF ConsumerEnds, producerVars
<1>2. /\ conns' \in Seq(Conn) /\ DOMAIN conns' = DOMAIN conns
      /\ Len(conns') = Len(conns)
      /\ \A k \in DOMAIN conns :
           /\ conns'[k].producer = conns[k].producer /\ conns'[k].run = conns[k].run
           /\ conns'[k].up = conns[k].up /\ conns'[k].down = conns[k].down
           /\ conns'[k].producerOpen <=> conns[k].producerOpen
           /\ ~conns'[k].consumerOpen
  BY <1>1, ClosingConsumerEnds
<1>3. TypeOK'
  BY <1>1, <1>2, ConnsIsFunction DEF TypeOK, NoConn
<1>4. ProducersOwnTheirs'
  BY <1>1, <1>2, Numbers DEF ProducersOwnTheirs
<1>5. ConsumerServesOne'
  BY <1>1, <1>2 DEF ConsumerServesOne
<1>6. OneConnectionEach' /\ UnreadIsNext'
  BY <1>1, <1>2 DEF OneConnectionEach, UnreadIsNext
<1>7. OneMessageUnderWay'
  BY <1>1, <1>2 DEF OneMessageUnderWay
<1>8. HandledWasSent' /\ HandledInOrder' /\ AckedWasHandled'
  BY <1>1 DEF HandledWasSent, HandledInOrder, AckedWasHandled
<1>9. AnsweredWasHandled'
  BY <1>1, <1>2 DEF AnsweredWasHandled, WasHandled
<1> QED
  BY <1>3, <1>4, <1>5, <1>6, <1>7, <1>8, <1>9

------------------------------------------------------------------------------
LEMMA NextIInv == IInv /\ [Next]_vars => IInv'
<1> SUFFICES ASSUME IInv, [Next]_vars PROVE IInv'
  OBVIOUS
<1>1. ASSUME NEW p \in Producers, Producer(p) \/ ProducerCrash(p) \/ ProducerRestart(p)
      PROVE  IInv'
  BY <1>1, ConnectIInv, ReconnectIInv, SendIInv, SendKilledIInv, GetAckIInv,
     ProducerCrashIInv, ProducerRestartIInv DEF Producer
<1>2. CASE Consumer
  <2>1. CASE AckKilled
    <3>1. crashes' \in 0..MaxCrashes
      BY <2>1 DEF AckKilled, IInv, TypeOK
    <3> QED
      BY <2>1, <3>1, ConsumerEndIInv DEF AckKilled
  <2> QED
    BY <1>2, <2>1, AcceptIInv, ReadIInv, WentDownIInv, SendAckIInv DEF Consumer
<1>3. CASE ConsumerCrash
  <2>1. crashes' \in 0..MaxCrashes
    BY <1>3 DEF ConsumerCrash, IInv, TypeOK
  <2> QED
    BY <1>3, <2>1, ConsumerEndIInv DEF ConsumerCrash
<1>4. CASE UNCHANGED vars
  BY <1>4 DEF vars, producerVars, consumerVars, IInv, TypeOK, ProducersOwnTheirs,
     ConsumerServesOne, OneConnectionEach, OneMessageUnderWay, Acknowledging, HandledWasSent,
     UnreadIsNext, AnsweredWasHandled, WasHandled, HandledInOrder, AckedWasHandled
<1> QED
  BY <1>1, <1>2, <1>3, <1>4, ConsumerStartIInv DEF Next

(* The inductive invariant holds, and with it the types of the variables. *)
THEOREM Invariance == Spec => []IInv
BY InitIInv, NextIInv, PTL DEF Spec

THEOREM TypeCorrect == Spec => []TypeOK
<1>1. IInv => TypeOK
  BY DEF IInv
<1> QED
  BY <1>1, Invariance, PTL

(* What a producer waiting for an answer finds on its connection is the      *)
(* acknowledgement of the message it has sent last: no crash and no          *)
(* reconnection leaves it an older one (getConsumerAck, producer_task.cpp).  *)
THEOREM AckOfThisMessage == Spec => []AckIsForThisMessage
<1>1. IInv => AckIsForThisMessage
  BY Numbers DEF IInv, AckIsForThisMessage, ProducersOwnTheirs, OneMessageUnderWay
<1> QED
  BY <1>1, Invariance, PTL

(* The consumer handles the messages of a run of a producer in the order of  *)
(* their numbers and none of them twice, whoever crashes, is started again   *)
(* or connects anew (readConsumerMsg, consumer_task.cpp).                    *)
THEOREM OrderOfHandling == Spec => []HandledInOrder
<1>1. IInv => HandledInOrder
  BY DEF IInv
<1> QED
  BY <1>1, Invariance, PTL

(* A message a producer took for acknowledged was read by the consumer. *)
THEOREM NoFalseAck == Spec => []AckedWasHandled
<1>1. IInv => AckedWasHandled
  BY DEF IInv
<1> QED
  BY <1>1, Invariance, PTL

==============================================================================
