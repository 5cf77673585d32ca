--------------------------- MODULE Acceptor_proofs ---------------------------
(***************************************************************************)
(* What holds of nw::Acceptor for any number of connections, any batch     *)
(* size and any messages: its types, that it never blocks on an event that *)
(* is no longer there, which request decides that it stops, and that what  *)
(* it logs of a connection is what the client sent.                        *)
(***************************************************************************)
EXTENDS Acceptor, SequenceTheorems, FiniteSetTheorems, TLAPS

(* What a message puts on the wire are numbers. *)
LEMMA WireType ==
    ASSUME NEW m \in Messages
    PROVE  OnTheWire(m) \in Seq(Nat)
<1>1. m \in [type : {REG, TRM}, sz : Nat, body : Nat]
  BY MessagesAssumption
<1>2. <<m.type, m.sz>> \in Seq(Nat)
  BY <1>1 DEF REG, TRM
<1>3. [i \in 1..m.body |-> Letter] \in Seq(Nat)
  BY <1>1 DEF Letter
<1> QED
  BY <1>2, <1>3, ConcatProperties DEF OnTheWire

(* What is at the head of a sequence of numbers, and what remains. *)
LEMMA Numbers ==
    ASSUME NEW s \in Seq(Nat), s # <<>>
    PROVE  Head(s) \in Nat /\ Tail(s) \in Seq(Nat)
BY HeadTailProperties

(* A batch is a sequence of ready descriptors, each once, and not empty. *)
LEMMA BatchType ==
    ASSUME registered \subseteq Conns, IsFiniteSet(registered), Ready # {},
           NEW b \in Batches
    PROVE  /\ b \in Seq(Conns \cup {m_listen_fd})
           /\ 1 \in DOMAIN b
           /\ \A k \in DOMAIN b : IsReady(b[k])
           /\ \A j, k \in DOMAIN b : b[j] = b[k] => j = k
<1>1. IsFiniteSet(Ready)
  <2>1. IsFiniteSet(registered \cup {m_listen_fd})
    BY FS_AddElement
  <2> QED
    BY <2>1, FS_Subset DEF Ready
<1>2. Cardinality(Ready) \in Nat \ {0}
  BY <1>1, FS_CardinalityType, FS_EmptySet
<1>3. PICK n \in Nat \ {0} : /\ b \in [1..n -> Ready]
                             /\ \A j, k \in 1..n : b[j] = b[k] => j = k
  BY <1>2, EventsAssumption DEF Batches
<1>4. \A e \in Ready : e \in Conns \cup {m_listen_fd} /\ IsReady(e)
  BY DEF Ready
<1>5. b \in Seq(Conns \cup {m_listen_fd})
  <2>1. b \in [1..n -> Conns \cup {m_listen_fd}]
    BY <1>3, <1>4
  <2> QED
    BY <1>3, <2>1
<1> QED
  BY <1>3, <1>4, <1>5

------------------------------------------------------------------------------
(* Type correctness is inductive by itself. *)

LEMMA InitType == Init => TypeOK
<1> SUFFICES ASSUME Init PROVE TypeOK
  OBVIOUS
<1>1. \A S : <<>> \in Seq(S) /\ Len(<<>>) = 0
  BY EmptySeq
<1>2. IsFiniteSet({})
  BY FS_EmptySet
<1> QED
  BY <1>1, <1>2 DEF Init, TypeOK, EmptyHeader, INV

(* What moving on to the next event does to the types. *)
LEMMA NextEventType ==
    ASSUME TypeOK, place \in DOMAIN events, NEW sts \in {0, -1},
           NEW outcome \in {"new", "term", "regular", "invalid"},
           NextEvent(sts, outcome)
    PROVE  /\ handleSts' \in {0, -1}
           /\ outcomes' \in Seq({"new", "term", "regular", "invalid"})
           /\ apc' \in {"event", "wait", "stopped"}
           /\ place' \in 1..Len(events') + 1
           /\ apc' = "event" => place' \in DOMAIN events'
           /\ m_header' \in [type : Nat, sz : Nat] /\ got' \in Nat
           /\ UNCHANGED <<client, sent, left, events>>
<1>1. place \in 1..Len(events) /\ DOMAIN events = 1..Len(events)
  BY DEF TypeOK
<1>2. Len(events) \in Nat
  BY DEF TypeOK
<1>3. outcomes' \in Seq({"new", "term", "regular", "invalid"})
  BY AppendProperties DEF NextEvent, TypeOK
<1>4. place' = place + 1 /\ events' = events
  BY DEF NextEvent
<1>5. apc' = "event" => place < Len(events)
  BY DEF NextEvent
<1>6. /\ place' \in 1..Len(events') + 1
      /\ apc' = "event" => place' \in DOMAIN events'
  BY <1>1, <1>2, <1>4, <1>5
<1> QED
  BY <1>3, <1>6 DEF NextEvent, clientVars, EmptyHeader, INV

(* A step of the start-up only moves on, towards epoll_wait or the end. *)
LEMMA StartChanges ==
    ASSUME Construct \/ WatchListening \/ StartFails
    PROVE  /\ apc \in {"construct", "listening"}
           /\ apc' \in {"listening", "wait", "failed", "exited"}
           /\ UNCHANGED <<client, sent, left, input, registered, events, place,
                          handleSts, m_header, got, logged, outcomes>>
BY DEF Construct, WatchListening, StartFails, Starting, clientVars, requestVars

LEMMA NextType == TypeOK /\ [Next]_vars => TypeOK'
<1> SUFFICES ASSUME TypeOK, [Next]_vars
             PROVE  TypeOK'
  OBVIOUS
<1> USE DEF TypeOK
<1>1. ASSUME NEW c \in Conns, Client(c)
      PROVE  TypeOK'
  <2> USE DEF acceptorVars, requestVars, fd
  <2>1. CASE Connect(c) \/ HangUp(c)
    BY <2>1 DEF Connect, HangUp
  <2>2. CASE BeginMessage(c)
    <3>1. PICK m \in Messages :
            /\ sent' = [sent EXCEPT ![c] = Append(@, m)]
            /\ left' = [left EXCEPT ![c] = OnTheWire(m)]
      BY <2>2 DEF BeginMessage
    <3>2. sent' \in [Conns -> Seq(Messages)]
      BY <3>1, AppendProperties
    <3>3. left' \in [Conns -> Seq(Nat)]
      BY <3>1, WireType
    <3> QED
      BY <2>2, <3>2, <3>3 DEF BeginMessage
  <2>3. CASE Arrive(c)
    <3>1. Head(left[c]) \in Nat /\ Tail(left[c]) \in Seq(Nat)
      BY <2>3, Numbers DEF Arrive
    <3>2. input' \in [Conns -> Seq(Nat)]
      BY <2>3, <3>1, AppendProperties DEF Arrive
    <3>3. left' \in [Conns -> Seq(Nat)]
      BY <2>3, <3>1 DEF Arrive
    <3> QED
      BY <2>3, <3>2, <3>3 DEF Arrive
  <2> QED
    BY <1>1, <2>1, <2>2, <2>3 DEF Client
<1>2. CASE epoll_wait
  <2>1. /\ events' \in Seq(Conns \cup {m_listen_fd})
        /\ 1 \in DOMAIN events'
    BY <1>2, BatchType DEF epoll_wait
  <2>2. outcomes' = <<>> /\ place' = 1 /\ apc' = "event"
    BY <1>2 DEF epoll_wait
  <2>3. outcomes' \in Seq({"new", "term", "regular", "invalid"})
    BY <2>2, EmptySeq
  <2>4. place' \in 1..Len(events') + 1
    BY <2>1, <2>2
  <2> QED
    BY <1>2, <2>1, <2>2, <2>3, <2>4 DEF epoll_wait, clientVars, requestVars
<1>3. CASE NewConnection
  <2>1. PICK c \in Conns : registered' = registered \cup {c}
    BY <1>3 DEF NewConnection, Waiting
  <2>2. registered' \subseteq Conns /\ IsFiniteSet(registered')
    BY <2>1, FS_AddElement
  <2>3. NextEvent(handleSts, "new") /\ UNCHANGED <<input, logged>>
    BY <1>3 DEF NewConnection
  <2>4. place \in DOMAIN events
    BY <1>3 DEF NewConnection
  <2> HIDE DEF TypeOK
  <2>5. handleSts \in {0, -1}
    BY DEF TypeOK
  <2> QED
    BY <2>2, <2>3, <2>4, <2>5, NextEventType DEF TypeOK
<1>4. CASE AcceptFails \/ ReadFails
  BY <1>4 DEF AcceptFails, ReadFails, Stay, clientVars, requestVars
<1>5. CASE handle_request
  BY <1>5 DEF handle_request, clientVars, EmptyHeader, INV, fd
<1>6. CASE ReadHeader
  <2>1. Head(input[fd]) \in Nat /\ Tail(input[fd]) \in Seq(Nat)
    BY <1>6, Numbers DEF ReadHeader
  <2>2. /\ input' \in [Conns -> Seq(Nat)]
        /\ m_header' \in [type : Nat, sz : Nat]
    <3>1. input' = [input EXCEPT ![fd] = Tail(@)]
      BY <1>6 DEF ReadHeader
    <3>2. \/ m_header' = [m_header EXCEPT !.type = Head(input[fd])]
          \/ m_header' = [m_header EXCEPT !.sz = Head(input[fd])]
      BY <1>6 DEF ReadHeader
    <3> QED
      BY <2>1, <3>1, <3>2
  <2>3. /\ got' \in Nat /\ apc' \in {"switch", "header"}
        /\ UNCHANGED <<client, sent, left, registered, events, place,
                       handleSts, logged, outcomes>>
    <3> HIDE DEF TypeOK
    <3>1. /\ got' = got + 1 /\ apc' \in {"switch", "header"}
          /\ Stay
      BY <1>6 DEF ReadHeader
    <3>2. got \in Nat
      BY DEF TypeOK
    <3> QED
      BY <3>1, <3>2 DEF Stay, clientVars
  <2>4. fd' \in Conns /\ place' \in DOMAIN events'
    BY <1>6, <2>3 DEF ReadHeader, fd
  <2>5. /\ client' \in [Conns -> {"idle", "open", "closed"}]
        /\ sent' \in [Conns -> Seq(Messages)] /\ left' \in [Conns -> Seq(Nat)]
        /\ registered' \subseteq Conns /\ IsFiniteSet(registered')
        /\ events' \in Seq(Conns \cup {m_listen_fd})
        /\ place' \in 1..Len(events') + 1 /\ handleSts' \in {0, -1}
        /\ logged' \in [Conns -> Seq(Entries)]
        /\ outcomes' \in Seq({"new", "term", "regular", "invalid"})
    BY <2>3
  <2> HIDE DEF TypeOK
  <2> QED
    BY <2>2, <2>3, <2>4, <2>5 DEF TypeOK
<1>7. CASE HeaderEof \/ TakeBody
  <2>1. /\ apc' \in {"switch", "body"} /\ got' \in Nat
        /\ apc' = "body" => m_header.type \in {REG, TRM}
        /\ UNCHANGED <<client, sent, left, input, registered, events, place,
                      handleSts, m_header, logged, outcomes>>
    BY <1>7 DEF HeaderEof, TakeBody, Stay, clientVars, requestVars
  <2>2. fd \in Conns /\ place \in DOMAIN events /\ fd' = fd
    BY <1>7, <2>1 DEF HeaderEof, TakeBody, fd
  <2> QED
    BY <2>1, <2>2
<1>8. CASE InvalidType
  <2>1. /\ NextEvent(-1, "invalid") /\ UNCHANGED <<input, registered, logged>>
        /\ place \in DOMAIN events
    BY <1>8 DEF InvalidType
  <2> HIDE DEF TypeOK
  <2> QED
    BY <2>1, NextEventType DEF TypeOK
<1>9. CASE ReadBody
  <2>1. Tail(input[fd]) \in Seq(Nat)
    BY <1>9, Numbers DEF ReadBody
  <2>2. input' \in [Conns -> Seq(Nat)] /\ got' \in Nat
    BY <1>9, <2>1 DEF ReadBody
  <2> QED
    BY <1>9, <2>2 DEF ReadBody, Stay, clientVars, fd
<1>10. CASE EndRequest
  <2>1. /\ place \in DOMAIN events /\ fd \in Conns
        /\ UNCHANGED <<input, registered>>
        /\ NextEvent(-1, "term") \/ NextEvent(0, "regular")
    BY <1>10 DEF EndRequest
  <2>2. logged' \in [Conns -> Seq(Entries)]
    <3>1. [type |-> m_header.type, sz |-> m_header.sz, body |-> got] \in Entries
      BY <1>10 DEF EndRequest, Entries
    <3> QED
      BY <1>10, <2>1, <3>1, AppendProperties DEF EndRequest
  <2> HIDE DEF TypeOK
  <2>3. CASE NextEvent(-1, "term")
    BY <2>1, <2>2, <2>3, NextEventType DEF TypeOK
  <2>4. CASE NextEvent(0, "regular")
    BY <2>1, <2>2, <2>4, NextEventType DEF TypeOK
  <2> QED
    BY <2>1, <2>3, <2>4
<1>11. CASE Construct \/ WatchListening \/ StartFails
  BY <1>11, StartChanges DEF fd
<1>12. CASE UNCHANGED vars
  BY <1>12 DEF vars, clientVars, requestVars, fd
<1> QED
  BY <1>1, <1>2, <1>3, <1>4, <1>5, <1>6, <1>7, <1>8, <1>9, <1>10, <1>11, <1>12
  DEF Next, Serve, Loop, Request, Failure

------------------------------------------------------------------------------
(* Events stay ready until they are handled. *)

(* No client takes back what it did: a descriptor that is ready stays so. *)
LEMMA ClientKeepsReady ==
    ASSUME TypeOK, NEW c \in Conns, Client(c), NEW e, IsReady(e)
    PROVE  IsReady(e)'
<1> USE DEF acceptorVars, requestVars
<1>1. \A b \in Conns : /\ client[b] # "idle" => client'[b] # "idle"
                       /\ client[b] = "closed" => client'[b] = "closed"
                       /\ input[b] # <<>> => input'[b] # <<>>
  <2>1. CASE Connect(c)
    BY <2>1 DEF Connect, TypeOK
  <2>2. CASE BeginMessage(c)
    BY <2>2 DEF BeginMessage
  <2>3. CASE Arrive(c)
    <3>1. Head(left[c]) \in Nat /\ input[c] \in Seq(Nat)
      BY <2>3, Numbers DEF Arrive, TypeOK
    <3>2. Append(input[c], Head(left[c])) # <<>>
      BY <3>1, AppendProperties
    <3> QED
      BY <2>3, <3>2 DEF Arrive, TypeOK
  <2>4. CASE HangUp(c)
    BY <2>4 DEF HangUp, TypeOK
  <2> QED
    BY <2>1, <2>2, <2>3, <2>4 DEF Client
<1>2. registered' = registered
  BY DEF Client, Connect, BeginMessage, Arrive, HangUp
<1>3. Waiting # {} => Waiting' # {}
  BY <1>1, <1>2 DEF Waiting
<1>4. e \in registered /\ Readable(e) => Readable(e)'
  BY <1>1 DEF Readable, TypeOK
<1> QED
  BY <1>2, <1>3, <1>4 DEF IsReady

LEMMA NextEventsReady ==
    ASSUME TypeOK, EventsReady, [Next]_vars
    PROVE  EventsReady'
<1> USE DEF EventsReady
<1>1. ASSUME NEW c \in Conns, Client(c)
      PROVE  EventsReady'
  <2>1. UNCHANGED <<apc, registered, events, place, got>>
    BY <1>1 DEF Client, Connect, BeginMessage, Arrive, HangUp, acceptorVars,
                requestVars
  <2>2. \A e : IsReady(e) => IsReady(e)'
    BY <1>1, ClientKeepsReady
  <2>3. apc = "header" /\ got = 0 => Readable(fd)'
    <3>1. SUFFICES ASSUME apc = "header", got = 0 PROVE Readable(fd)'
      OBVIOUS
    <3>2. fd \in registered /\ fd \in Conns /\ IsReady(fd)
      BY <3>1 DEF IsReady, TypeOK
    <3>3. IsReady(fd)'
      BY <1>1, <2>1, <3>2, ClientKeepsReady DEF fd
    <3> QED
      BY <2>1, <3>2, <3>3, ListenAssumption DEF IsReady, fd
  <2> QED
    BY <2>1, <2>2, <2>3 DEF fd
<1>2. CASE epoll_wait
  <2>1. /\ events' \in Batches /\ Ready # {} /\ apc' = "event"
        /\ UNCHANGED <<client, input, registered>>
    BY <1>2 DEF epoll_wait, clientVars
  <2>2. /\ \A k \in DOMAIN events' : IsReady(events'[k])
        /\ \A j, k \in DOMAIN events' : events'[j] = events'[k] => j = k
    BY <2>1, BatchType DEF TypeOK
  <2> QED
    BY <2>1, <2>2 DEF IsReady, Readable, Waiting
<1>3. CASE NewConnection
  <2>1. /\ apc = "event" /\ events[place] = m_listen_fd
        /\ apc' \in {"event", "wait", "stopped"}
        /\ place' = place + 1
        /\ registered \subseteq registered'
        /\ UNCHANGED <<client, input, events>>
    BY <1>3 DEF NewConnection, NextEvent, clientVars
  <2>2. ASSUME NEW k \in DOMAIN events, k >= place' PROVE IsReady(events[k])'
    <3>1. k >= place /\ k # place
      BY <2>1, <2>2 DEF TypeOK
    <3>2. events[k] # m_listen_fd
      BY <2>1, <3>1 DEF TypeOK
    <3>3. events[k] \in registered /\ Readable(events[k])
      BY <2>1, <3>1, <3>2 DEF IsReady
    <3> QED
      BY <2>1, <3>3 DEF IsReady, Readable
  <2> QED
    BY <2>1, <2>2
<1>4. CASE AcceptFails \/ ReadFails
  BY <1>4 DEF AcceptFails, ReadFails, Stay
<1>5. CASE handle_request
  <2>1. /\ apc = "event" /\ fd \in Conns /\ apc' = "header"
        /\ UNCHANGED <<client, input, registered, events, place>>
    BY <1>5 DEF handle_request, clientVars, fd
  <2>2. IsReady(fd)
    BY <2>1 DEF TypeOK, fd
  <2>3. fd \in registered /\ Readable(fd)
    BY <2>1, <2>2, ListenAssumption DEF IsReady
  <2>4. \A k \in DOMAIN events : k > place => IsReady(events[k])
    BY <2>1 DEF TypeOK
  <2> QED
    BY <2>1, <2>3, <2>4 DEF IsReady, Readable, Waiting, fd
<1>6. CASE ReadHeader \/ ReadBody
  <2>1. /\ apc \in {"header", "body"} /\ apc' \in {"header", "switch", "body"}
        /\ input' = [input EXCEPT ![fd] = Tail(@)] /\ got' = got + 1
        /\ UNCHANGED <<client, registered, events, place>>
    BY <1>6 DEF ReadHeader, ReadBody, Stay, clientVars
  <2>2. got' # 0
    BY <2>1 DEF TypeOK
  <2>3. ASSUME NEW k \in DOMAIN events, k > place PROVE IsReady(events[k])'
    <3>1. events[k] # fd /\ IsReady(events[k])
      BY <2>1, <2>3 DEF TypeOK, fd
    <3>2. input'[events[k]] = input[events[k]] \/ events[k] \notin Conns
      BY <2>1, <3>1 DEF TypeOK
    <3> QED
      BY <2>1, <3>1, <3>2 DEF IsReady, Readable, Waiting, TypeOK
  <2> QED
    BY <2>1, <2>2, <2>3 DEF fd
<1>7. CASE HeaderEof \/ TakeBody
  <2>1. /\ apc \in {"header", "switch"} /\ apc' \in {"switch", "body"}
        /\ UNCHANGED <<client, input, registered, events, place>>
    BY <1>7 DEF HeaderEof, TakeBody, Stay, clientVars
  <2> QED
    BY <2>1 DEF IsReady, Readable, Waiting, fd
<1>8. CASE InvalidType \/ EndRequest
  <2>1. /\ apc \in {"switch", "body"}
        /\ apc' \in {"event", "wait", "stopped"}
        /\ place' = place + 1
        /\ UNCHANGED <<client, input, registered, events>>
    BY <1>8 DEF InvalidType, EndRequest, NextEvent, clientVars
  <2>2. ASSUME NEW k \in DOMAIN events, k >= place' PROVE IsReady(events[k])'
    <3>1. k > place
      BY <2>1, <2>2 DEF TypeOK
    <3>2. IsReady(events[k])
      BY <2>1, <3>1
    <3> QED
      BY <2>1, <3>2 DEF IsReady, Readable, Waiting
  <2> QED
    BY <2>1, <2>2
<1>9. CASE Construct \/ WatchListening \/ StartFails
  BY <1>9, StartChanges
<1>10. CASE UNCHANGED vars
  BY <1>10 DEF vars, clientVars, requestVars, IsReady, Readable, Waiting, fd
<1> QED
  BY <1>1, <1>2, <1>3, <1>4, <1>5, <1>6, <1>7, <1>8, <1>9, <1>10
  DEF Next, Serve, Loop, Request, Failure

------------------------------------------------------------------------------
(* handleSts goes with the last request. *)

(* An event handled is the last one; when it was a request, it decides. *)
LEMMA NextEventStatus ==
    ASSUME TypeOK, StatusOfLast, NEW sts \in {0, -1}, NEW outcome,
           NextEvent(sts, outcome),
           \/ outcome = "new" /\ sts = handleSts
           \/ outcome = "regular" /\ sts = 0
           \/ outcome \in {"term", "invalid"} /\ sts = -1
    PROVE  StatusOfLast'
<1>1. PICK n \in Nat :
        /\ DOMAIN outcomes = 1..n /\ DOMAIN outcomes' = 1..n + 1
        /\ \A k \in 1..n : outcomes'[k] = outcomes[k]
        /\ outcomes'[n + 1] = outcome
  <2>1. /\ outcomes \in Seq({"new", "term", "regular", "invalid"})
        /\ outcome \in {"new", "term", "regular", "invalid"}
        /\ outcomes' = Append(outcomes, outcome)
    BY DEF NextEvent, TypeOK
  <2>2. Len(outcomes) \in Nat /\ DOMAIN outcomes = 1..Len(outcomes)
    BY <2>1
  <2>3. /\ Len(outcomes') = Len(outcomes) + 1
        /\ DOMAIN outcomes' = 1..Len(outcomes) + 1
        /\ \A k \in 1..Len(outcomes) : outcomes'[k] = outcomes[k]
        /\ outcomes'[Len(outcomes) + 1] = outcome
    BY <2>1, <2>2, AppendProperties
  <2> QED
    BY <2>2, <2>3
<1>2. /\ handleSts' = sts /\ (apc' = "wait" => sts = 0)
      /\ apc' = "stopped" => sts # 0
      /\ apc' \in {"event", "wait", "stopped"}
  BY DEF NextEvent
<1>3. CASE outcome = "new" /\ sts = handleSts
  <2>1. ASSUME NEW k \in 1..n PROVE IsLastRequest(k)' <=> IsLastRequest(k)
    BY <1>1, <1>3 DEF IsLastRequest
  <2>2. ~IsLastRequest(n + 1)'
    BY <1>1, <1>3 DEF IsLastRequest
  <2>3. sts = 0 => \A k \in 1..n + 1 : IsLastRequest(k)' => outcomes'[k] = "regular"
    BY <1>1, <1>3, <2>1, <2>2 DEF StatusOfLast
  <2>4. sts = -1 => \E k \in 1..n + 1 : /\ IsLastRequest(k)'
                                       /\ outcomes'[k] \in {"term", "invalid"}
    BY <1>1, <1>3, <2>1 DEF StatusOfLast
  <2> QED
    BY <1>1, <1>2, <2>3, <2>4 DEF StatusOfLast
<1>4. CASE outcome # "new"
  <2>1. IsLastRequest(n + 1)'
    BY <1>1, <1>4 DEF IsLastRequest
  <2>2. \A k \in 1..n : ~IsLastRequest(k)'
    BY <1>1, <1>4 DEF IsLastRequest
  <2> QED
    BY <1>1, <1>2, <1>4, <2>1, <2>2 DEF StatusOfLast
<1> QED
  BY <1>3, <1>4

LEMMA NextStatus ==
    ASSUME TypeOK, StatusOfLast, [Next]_vars
    PROVE  StatusOfLast'
<1>1. CASE epoll_wait
  <2>1. outcomes' = <<>> /\ apc' = "event" /\ handleSts' = 0
    BY <1>1 DEF epoll_wait, StatusOfLast
  <2> QED
    BY <2>1 DEF StatusOfLast, IsLastRequest
<1>2. CASE NewConnection
  BY <1>2, NextEventStatus DEF NewConnection, TypeOK
<1>3. CASE InvalidType
  BY <1>3, NextEventStatus DEF InvalidType
<1>4. CASE EndRequest
  BY <1>4, NextEventStatus DEF EndRequest
<1>5. CASE \/ AcceptFails \/ ReadFails \/ handle_request \/ ReadHeader
           \/ HeaderEof \/ TakeBody \/ ReadBody
  <2>1. /\ UNCHANGED <<handleSts, outcomes>>
        /\ apc' \notin {"construct", "listening", "wait", "stopped"}
    BY <1>5 DEF AcceptFails, ReadFails, handle_request, ReadHeader, HeaderEof,
                TakeBody, ReadBody, Stay
  <2> QED
    BY <2>1 DEF StatusOfLast, IsLastRequest
<1>6. CASE Construct \/ WatchListening \/ StartFails
  <2>1. /\ UNCHANGED <<handleSts, outcomes>> /\ handleSts = 0
        /\ apc' # "stopped"
    BY <1>6, StartChanges DEF StatusOfLast
  <2> QED
    BY <2>1 DEF StatusOfLast, IsLastRequest
<1>7. CASE UNCHANGED vars \/ \E c \in Conns : Client(c)
  <2>1. UNCHANGED <<handleSts, outcomes, apc>>
    BY <1>7 DEF vars, Client, Connect, BeginMessage, Arrive, HangUp, acceptorVars
  <2> QED
    BY <2>1 DEF StatusOfLast, IsLastRequest
<1> QED
  BY <1>1, <1>2, <1>3, <1>4, <1>5, <1>6, <1>7 DEF Next, Serve, Loop, Request, Failure

------------------------------------------------------------------------------
LEMMA InitInv == Init => IInv
<1> SUFFICES ASSUME Init PROVE IInv
  OBVIOUS
<1>1. TypeOK
  BY InitType
<1>2. EventsReady
  BY DEF Init, EventsReady
<1>3. StatusOfLast
  BY DEF Init, StatusOfLast
<1> QED
  BY <1>1, <1>2, <1>3 DEF IInv

(* The invariant holds in every state of the acceptor, for any number of *)
(* connections and whatever its clients send.                            *)
THEOREM Invariance == Spec => []IInv
<1>1. IInv /\ [Next]_vars => IInv'
  BY NextType, NextEventsReady, NextStatus DEF IInv
<1> QED
  BY InitInv, <1>1, PTL DEF Spec

(* listen_2_events blocks in epoll_wait and nowhere else, but for the rest *)
(* of a message whose beginning is there.                                  *)
THEOREM EventsDoNotBlock == Spec => []NoEventBlocks
<1>1. IInv => NoEventBlocks
  BY DEF IInv, EventsReady, NoEventBlocks, TypeOK
<1> QED
  BY <1>1, Invariance, PTL

(* The loop of listen_2_events (line 140) is left exactly as the last *)
(* request of the batch says.                                         *)
THEOREM LastRequestIsDecisive == Spec => []LastRequestDecides
<1>1. IInv => LastRequestDecides
  BY DEF IInv, StatusOfLast, LastRequestDecides
<1> QED
  BY <1>1, Invariance, PTL

------------------------------------------------------------------------------
(* What is written and not yet read of a connection, against the messages  *)
(* of its client: b[j] is where message j ends, seen from the next number  *)
(* to be read, and so b[j - 1] is where it begins.  l numbers are to be    *)
(* read, q[1] first, and n messages were begun.                            *)

Bounds(l, ms, n, b) ==
    /\ b \in [0..n -> Int]
    /\ b[n] = l
    /\ \A j \in 1..n : b[j] = b[j - 1] + 2 + ms[j].body
    /\ \A i, j \in 0..n : i < j => b[i] < b[j]

Headers(q, l, ms, n, b) ==
    \A j \in 1..n, p \in 1..l :
      /\ p = b[j - 1] + 1 => q[p] = ms[j].type
      /\ p = b[j - 1] + 2 => q[p] = ms[j].sz

Stream(q, ms, b) ==
    /\ Bounds(Len(q), ms, Len(ms), b)
    /\ Headers(q, Len(q), ms, Len(ms), b)

Bodies(ms, n) == \A j \in 1..n : ms[j].body \in Nat
Begins(ms, n, ns) == \A j \in 1..n : ns[j] = ms[j]
EndsAt(e, n, b) == [j \in 0..(n + 1) |-> IF j = n + 1 THEN e ELSE b[j]]

(* A message begun joins the stream at its end. *)
LEMMA BoundsAppend ==
    ASSUME NEW l \in Nat, NEW n \in Nat, NEW ms, NEW b, Bounds(l, ms, n, b),
           Bodies(ms, n), NEW k \in Nat,
           NEW ns, ns[n + 1].body = k, Begins(ms, n, ns)
    PROVE  Bounds(l + 2 + k, ns, n + 1, EndsAt(l + 2 + k, n, b))
<1> USE DEF Bodies, Begins, EndsAt
<1> DEFINE a == EndsAt(l + 2 + k, n, b)
<1>1. /\ a \in [0..(n + 1) -> Int] /\ \A j \in 0..n : a[j] = b[j]
      /\ a[n + 1] = l + 2 + k
  BY DEF Bounds
<1> HIDE DEF a
<1>2. \A j \in 1..(n + 1) : a[j] = a[j - 1] + 2 + ns[j].body
  <2>1. ASSUME NEW j \in 1..n PROVE a[j] = a[j - 1] + 2 + ns[j].body
    <3>1. b[j] = b[j - 1] + 2 + ms[j].body
      BY DEF Bounds
    <3> QED
      BY <1>1, <3>1, SMTT(30)
  <2>2. a[n + 1] = a[(n + 1) - 1] + 2 + ns[n + 1].body
    BY <1>1 DEF Bounds
  <2>3. \A j \in 1..(n + 1) : j \in 1..n \/ j = n + 1
    OBVIOUS
  <2> QED
    BY <2>1, <2>2, <2>3, Zenon
<1>3. ASSUME NEW i \in 0..(n + 1), NEW j \in 0..(n + 1), i < j
      PROVE  a[i] < a[j]
  <2>1. CASE j <= n
    <3>1. b[i] < b[j]
      BY <1>3, <2>1 DEF Bounds
    <3> QED
      BY <1>1, <1>3, <2>1, <3>1
  <2>2. CASE j = n + 1
    <3>1. i = n \/ b[i] < b[n]
      BY <1>3, <2>2 DEF Bounds
    <3>2. a[i] = b[i] /\ b[i] \in Int /\ b[i] <= l
      BY <1>1, <1>3, <2>2, <3>1 DEF Bounds
    <3> QED
      BY <1>1, <2>2, <3>2
  <2> QED
    BY <2>1, <2>2
<1>4. Bounds(l + 2 + k, ns, n + 1, a)
  BY <1>1, <1>2, <1>3 DEF Bounds
<1> QED
  BY <1>4 DEF a

LEMMA HeadersAppend ==
    ASSUME NEW l \in Nat, NEW n \in Nat, NEW ms, NEW b, Bounds(l, ms, n, b),
           Bodies(ms, n), NEW k \in Nat, NEW ns, Begins(ms, n, ns),
           NEW q, Headers(q, l, ms, n, b), NEW r, Begins(q, l, r),
           r[l + 1] = ns[n + 1].type, r[l + 2] = ns[n + 1].sz
    PROVE  Headers(r, l + 2 + k, ns, n + 1, EndsAt(l + 2 + k, n, b))
<1> USE DEF Bodies, Begins, EndsAt
<1> DEFINE a == EndsAt(l + 2 + k, n, b)
<1> SUFFICES ASSUME NEW j \in 1..(n + 1), NEW p \in 1..(l + 2 + k)
             PROVE  /\ p = a[j - 1] + 1 => r[p] = ns[j].type
                    /\ p = a[j - 1] + 2 => r[p] = ns[j].sz
  BY DEF Headers
<1>1. CASE j = n + 1
  <2>1. a[j - 1] = l
    BY <1>1 DEF Bounds
  <2> QED
    BY <1>1, <2>1
<1>2. CASE j <= n
  <2>1. j \in 1..n /\ j - 1 \in 0..n /\ a[j - 1] = b[j - 1] /\ ns[j] = ms[j]
    BY <1>2
  <2>2. b[j] = b[j - 1] + 2 + ms[j].body /\ ms[j].body \in Nat
        /\ b[j - 1] \in Int /\ b[j] \in Int
    BY <2>1 DEF Bounds
  <2>3. j = n \/ b[j] < b[n]
    BY <2>1 DEF Bounds
  <2>4. b[j - 1] + 2 <= l
    <3>1. PICK s \in Nat : b[j] = b[j - 1] + 2 + s
      BY <2>2
    <3>2. b[n] = l /\ b[j - 1] \in Int /\ b[j] \in Int
      BY <2>2 DEF Bounds
    <3> QED
      BY <2>3, <3>1, <3>2
  <2>5. p = a[j - 1] + 1 \/ p = a[j - 1] + 2 => p \in 1..l /\ r[p] = q[p]
    BY <2>1, <2>2, <2>4, SMTT(30)
  <2>6. \A o \in 1..l : /\ o = b[j - 1] + 1 => q[o] = ms[j].type
                        /\ o = b[j - 1] + 2 => q[o] = ms[j].sz
    BY <2>1 DEF Headers
  <2> QED
    BY <2>1, <2>5, <2>6
<1> QED
  BY <1>1, <1>2

(* A number read brings every message nearer by one. *)
LEMMA BoundsTail ==
    ASSUME NEW l \in Nat, NEW n \in Nat, NEW ms, NEW b, Bounds(l, ms, n, b),
           \A j \in 1..n : ms[j].body \in Nat,
           NEW a, a = [j \in 0..n |-> b[j] - 1]
    PROVE  Bounds(l - 1, ms, n, a)
<1>1. /\ a \in [0..n -> Int] /\ \A j \in 0..n : a[j] = b[j] - 1
      /\ a[n] = l - 1
  BY DEF Bounds
<1>2. ASSUME NEW j \in 1..n PROVE a[j] = a[j - 1] + 2 + ms[j].body
  <2>1. j \in 0..n /\ j - 1 \in 0..n
    OBVIOUS
  <2>2. /\ a[j] = b[j] - 1 /\ a[j - 1] = b[j - 1] - 1
        /\ b[j] \in Int /\ b[j - 1] \in Int
    BY <1>1, <2>1 DEF Bounds
  <2>3. PICK s \in Nat : s = ms[j].body
    OBVIOUS
  <2>4. b[j] = b[j - 1] + 2 + s
    BY <2>3 DEF Bounds
  <2>5. a[j] = a[j - 1] + 2 + s
    BY <2>2, <2>4
  <2> QED
    BY <2>3, <2>5
<1>3. ASSUME NEW i \in 0..n, NEW j \in 0..n, i < j PROVE a[i] < a[j]
  <2>1. b[i] < b[j] /\ b[i] \in Int /\ b[j] \in Int
    BY <1>3 DEF Bounds
  <2> QED
    BY <1>1, <2>1
<1> QED
  BY <1>1, <1>2, <1>3 DEF Bounds

LEMMA HeadersTail ==
    ASSUME NEW l \in Nat, NEW n \in Nat, NEW ms, NEW b, Bounds(l, ms, n, b),
           NEW q, Headers(q, l, ms, n, b),
           NEW r, \A p \in 1..(l - 1) : r[p] = q[p + 1],
           NEW a, a = [j \in 0..n |-> b[j] - 1]
    PROVE  Headers(r, l - 1, ms, n, a)
<1> SUFFICES ASSUME NEW j \in 1..n, NEW p \in 1..(l - 1)
             PROVE  /\ p = a[j - 1] + 1 => r[p] = ms[j].type
                    /\ p = a[j - 1] + 2 => r[p] = ms[j].sz
  BY DEF Headers
<1>1. /\ p + 1 \in 1..l /\ r[p] = q[p + 1]
      /\ a[j - 1] = b[j - 1] - 1 /\ b[j - 1] \in Int
  BY SMTT(30) DEF Bounds
<1>2. \A o \in 1..l : /\ o = b[j - 1] + 1 => q[o] = ms[j].type
                      /\ o = b[j - 1] + 2 => q[o] = ms[j].sz
  BY DEF Headers
<1>3. /\ p = a[j - 1] + 1 => p + 1 = b[j - 1] + 1
      /\ p = a[j - 1] + 2 => p + 1 = b[j - 1] + 2
  BY <1>1
<1> QED
  BY <1>1, <1>2, <1>3

LEMMA MessageType ==
    ASSUME NEW m \in Messages
    PROVE  /\ m \in [type : {REG, TRM}, sz : Nat, body : Nat]
           /\ m.type \in {REG, TRM} /\ m.type \in Nat
           /\ m.sz \in Nat /\ m.body \in Nat
BY MessagesAssumption DEF REG, TRM

(* What one sequence reads behind another one. *)
LEMMA ConcatReads ==
    ASSUME NEW q \in Seq(Nat), NEW w \in Seq(Nat), Len(w) >= 2
    PROVE  /\ q \o w \in Seq(Nat) /\ Len(q \o w) = Len(q) + Len(w)
           /\ \A p \in 1..Len(q) : (q \o w)[p] = q[p]
           /\ (q \o w)[Len(q) + 1] = w[1] /\ (q \o w)[Len(q) + 2] = w[2]
<1> DEFINE r == q \o w
<1>1. /\ r \in Seq(Nat) /\ Len(r) = Len(q) + Len(w)
      /\ \A p \in 1..Len(q) + Len(w) :
           r[p] = IF p <= Len(q) THEN q[p] ELSE w[p - Len(q)]
  BY ConcatProperties
<1> HIDE DEF r
<1>2. Len(q) \in Nat /\ Len(w) \in Nat
  OBVIOUS
<1>3. \A p \in 1..Len(q) : r[p] = q[p]
  BY <1>1, <1>2, SMTT(30)
<1>4. r[Len(q) + 1] = w[1]
  <2>1. /\ Len(q) + 1 \in 1..Len(q) + Len(w) /\ Len(q) + 1 - Len(q) = 1
        /\ ~(Len(q) + 1 <= Len(q))
    BY <1>2
  <2> QED
    BY <1>1, <2>1, SMTT(30)
<1>5. r[Len(q) + 2] = w[2]
  <2>1. /\ Len(q) + 2 \in 1..Len(q) + Len(w) /\ Len(q) + 2 - Len(q) = 2
        /\ ~(Len(q) + 2 <= Len(q))
    BY <1>2
  <2> QED
    BY <1>1, <2>1, SMTT(30)
<1> QED
  BY <1>1, <1>3, <1>4, <1>5, SMTT(30)

LEMMA WireReads ==
    ASSUME NEW m \in Messages
    PROVE  /\ Len(OnTheWire(m)) = 2 + m.body
           /\ OnTheWire(m)[1] = m.type /\ OnTheWire(m)[2] = m.sz
<1>1. m.type \in Nat /\ m.sz \in Nat /\ m.body \in Nat
  BY MessageType
<1> DEFINE h == <<m.type, m.sz>>
           t == [i \in 1..m.body |-> Letter]
<1>2. h \in Seq(Nat) /\ Len(h) = 2 /\ h[1] = m.type /\ h[2] = m.sz
  BY <1>1
<1>3. t \in Seq(Nat) /\ Len(t) = m.body
  BY <1>1 DEF Letter
<1> HIDE DEF h, t
<1>4. /\ Len(h \o t) = Len(h) + Len(t)
      /\ \A i \in 1..Len(h) + Len(t) :
           (h \o t)[i] = IF i <= Len(h) THEN h[i] ELSE t[i - Len(h)]
  BY <1>2, <1>3, ConcatProperties
<1>5. 1 \in 1..Len(h) + Len(t) /\ 2 \in 1..Len(h) + Len(t)
      /\ 1 <= Len(h) /\ 2 <= Len(h)
  BY <1>1, <1>2, <1>3
<1>6. Len(h \o t) = 2 + m.body
  BY <1>2, <1>3, <1>4, Zenon
<1>7. (h \o t)[1] = m.type /\ (h \o t)[2] = m.sz
  BY <1>2, <1>4, <1>5, Zenon
<1> QED
  BY <1>6, <1>7, Zenon DEF OnTheWire, h, t

LEMMA StreamAppends ==
    ASSUME NEW q \in Seq(Nat), NEW ms \in Seq(Messages), NEW b,
           Stream(q, ms, b), NEW m \in Messages
    PROVE  \E a : /\ Stream(q \o OnTheWire(m), Append(ms, m), a)
                  /\ \A j \in 0..Len(ms) : a[j] = b[j]
<1>1. PICK l \in Nat : l = Len(q)
  OBVIOUS
<1>2. PICK n \in Nat : n = Len(ms)
  OBVIOUS
<1>3. PICK k \in Nat : k = m.body
  BY MessageType
<1>4. PICK r : /\ r = q \o OnTheWire(m) /\ Len(r) = l + 2 + k
               /\ \A p \in 1..l : r[p] = q[p]
               /\ r[l + 1] = m.type /\ r[l + 2] = m.sz
  <2>1. /\ OnTheWire(m) \in Seq(Nat) /\ Len(OnTheWire(m)) = 2 + k
        /\ OnTheWire(m)[1] = m.type /\ OnTheWire(m)[2] = m.sz
    BY <1>3, WireType, WireReads
  <2>2. Len(OnTheWire(m)) >= 2
    BY <1>3, <2>1
  <2>3. /\ Len(q \o OnTheWire(m)) = l + Len(OnTheWire(m))
        /\ \A p \in 1..l : (q \o OnTheWire(m))[p] = q[p]
        /\ (q \o OnTheWire(m))[l + 1] = OnTheWire(m)[1]
        /\ (q \o OnTheWire(m))[l + 2] = OnTheWire(m)[2]
    BY <1>1, <2>1, <2>2, ConcatReads, Zenon
  <2>4. l + (2 + k) = l + 2 + k
    BY <1>1, <1>3, SMTT(30)
  <2> QED
    BY <2>1, <2>3, <2>4, Zenon
<1>5. PICK ns : /\ ns = Append(ms, m) /\ Len(ns) = n + 1 /\ ns[n + 1] = m
                /\ \A j \in 1..n : ns[j] = ms[j]
  <2>1. /\ Len(Append(ms, m)) = n + 1 /\ Append(ms, m)[n + 1] = m
        /\ \A j \in 1..n : Append(ms, m)[j] = ms[j]
    <3>1. /\ Len(Append(ms, m)) = Len(ms) + 1
          /\ Append(ms, m)[Len(ms) + 1] = m
          /\ \A j \in 1..Len(ms) : Append(ms, m)[j] = ms[j]
      BY AppendProperties
    <3> QED
      BY <1>2, <3>1, Zenon
  <2> QED
    BY <2>1, Zenon
<1>6. Bodies(ms, n)
  BY <1>2, MessageType, ElementOfSeq, Zenon DEF Bodies
<1>7. PICK a : a = EndsAt(l + 2 + k, n, b)
  BY Zenon
<1>8. Bounds(l, ms, n, b) /\ Headers(q, l, ms, n, b)
  BY <1>1, <1>2, Zenon DEF Stream
<1>9. Bounds(l + 2 + k, ns, n + 1, a)
  <2>1. ns[n + 1].body = k /\ Begins(ms, n, ns)
    BY <1>3, <1>5, Zenon DEF Begins
  <2> QED
    BY <1>6, <1>7, <1>8, <2>1, BoundsAppend, Zenon
<1>10. Headers(r, l + 2 + k, ns, n + 1, a)
  <2>1. /\ r[l + 1] = ns[n + 1].type /\ r[l + 2] = ns[n + 1].sz
        /\ Begins(ms, n, ns) /\ Begins(q, l, r)
    BY <1>4, <1>5, Zenon DEF Begins
  <2> QED
    BY <1>6, <1>7, <1>8, <2>1, HeadersAppend, Zenon
<1>11. Stream(r, ns, a)
  BY <1>4, <1>5, <1>9, <1>10, Zenon DEF Stream
<1>12. \A j \in 0..n : a[j] = b[j]
  <2> SUFFICES ASSUME NEW j \in 0..n PROVE a[j] = b[j]
    OBVIOUS
  <2>1. j \in 0..(n + 1) /\ j # n + 1
    BY <1>2
  <2> QED
    BY <1>7, <2>1, Zenon DEF EndsAt
<1> QED
  BY <1>2, <1>4, <1>5, <1>11, <1>12, Zenon

LEMMA StreamTail ==
    ASSUME NEW q \in Seq(Nat), q # <<>>, NEW ms \in Seq(Messages), NEW b,
           Stream(q, ms, b)
    PROVE  \E a : /\ Stream(Tail(q), ms, a)
                  /\ \A j \in 0..Len(ms) : a[j] = b[j] - 1
<1>1. PICK l \in Nat : l = Len(q)
  OBVIOUS
<1>2. PICK n \in Nat : n = Len(ms)
  OBVIOUS
<1>3. PICK r : /\ r = Tail(q) /\ Len(r) = l - 1
               /\ \A p \in 1..(l - 1) : r[p] = q[p + 1]
  <2>1. /\ Len(Tail(q)) = l - 1
        /\ \A p \in 1..Len(Tail(q)) : Tail(q)[p] = q[p + 1]
    BY <1>1, HeadTailProperties, Zenon
  <2> QED
    BY <2>1, Zenon
<1>4. \A j \in 1..n : ms[j].body \in Nat
  BY <1>2, MessageType, ElementOfSeq, Zenon
<1>5. PICK a : a = [j \in 0..n |-> b[j] - 1]
  BY Zenon
<1>6. Bounds(l, ms, n, b) /\ Headers(q, l, ms, n, b)
  BY <1>1, <1>2, Zenon DEF Stream
<1>7. Bounds(l - 1, ms, n, a)
  BY <1>4, <1>5, <1>6, BoundsTail, Zenon
<1>8. Headers(r, l - 1, ms, n, a)
  BY <1>3, <1>4, <1>5, <1>6, HeadersTail, Zenon
<1>9. Stream(r, ms, a)
  BY <1>2, <1>3, <1>7, <1>8, Zenon DEF Stream
<1>10. \A j \in 0..n : a[j] = b[j] - 1
  BY <1>5, Zenon
<1> QED
  BY <1>2, <1>3, <1>9, <1>10, Zenon

(* The next number to be read is the type of the message at whose begin    *)
(* the reader is, or the size of the one of which it has read the type.    *)
LEMMA NextHeader ==
    ASSUME NEW l \in Nat \ {0}, NEW n \in Nat, NEW ms, NEW b, NEW q,
           Bounds(l, ms, n, b), Headers(q, l, ms, n, b),
           NEW k \in 0..n
    PROVE  /\ b[k] = 0 => k < n /\ q[1] = ms[k + 1].type
           /\ b[k] = -1 /\ k < n => q[1] = ms[k + 1].sz
<1>1. b[n] = l
  BY DEF Bounds
<1>2. b[k] = 0 => k < n
  BY <1>1
<1>3. ASSUME k < n
      PROVE  /\ b[k] = 0 => q[1] = ms[k + 1].type
             /\ b[k] = -1 => q[1] = ms[k + 1].sz
  <2>1. k + 1 \in 1..n /\ (k + 1) - 1 = k /\ 1 \in 1..l
    BY <1>3
  <2>2. /\ 1 = b[k] + 1 => q[1] = ms[k + 1].type
        /\ 1 = b[k] + 2 => q[1] = ms[k + 1].sz
    BY <2>1 DEF Headers
  <2> QED
    BY <2>2
<1> QED
  BY <1>2, <1>3

LEMMA NextEnd ==
    ASSUME NEW l \in Nat, NEW n \in Nat, NEW ms, NEW b, Bounds(l, ms, n, b),
           NEW k \in 0..n, k < n
    PROVE  b[k + 1] = b[k] + 2 + ms[k + 1].body
<1>1. k + 1 \in 1..n /\ (k + 1) - 1 = k
  OBVIOUS
<1> QED
  BY <1>1 DEF Bounds

(* When all there is to be read is in the hands of a client that writes    *)
(* its last message, a message that ends beyond is this one.               *)
LEMMA OnlyLastIsCut ==
    ASSUME NEW l \in Nat, NEW n \in Nat, NEW ms, NEW b, Bounds(l, ms, n, b),
           Bodies(ms, n), l = 0 \/ l <= 2 + ms[n].body,
           NEW k \in 0..n, k < n, b[k + 1] > 0
    PROVE  k + 1 = n /\ l # 0
<1>1. b[n] = l /\ b \in [0..n -> Int]
  BY DEF Bounds
<1>2. k + 1 \in 0..n
  OBVIOUS
<1>3. k + 1 = n \/ b[k + 1] < b[n]
  BY <1>2 DEF Bounds
<1>4. l # 0
  BY <1>1, <1>2, <1>3
<1>5. k + 1 < n => FALSE
  <2> SUFFICES ASSUME k + 1 < n PROVE FALSE
    OBVIOUS
  <2>1. n \in 1..n /\ n - 1 \in 0..n /\ k + 1 <= n - 1
    OBVIOUS
  <2>2. PICK s \in Nat : s = ms[n].body
    BY <2>1 DEF Bodies
  <2>3. b[n] = b[n - 1] + 2 + s
    BY <2>1, <2>2 DEF Bounds
  <2>4. b[n - 1] >= b[k + 1]
    <3>1. k + 1 = n - 1 \/ b[k + 1] < b[n - 1]
      BY <1>2, <2>1 DEF Bounds
    <3> QED
      BY <1>1, <1>2, <2>1, <3>1
  <2>5. l <= 2 + s
    BY <1>4, <2>2
  <2>6. b[n - 1] \in Int /\ b[k + 1] \in Int
    BY <1>1, <1>2, <2>1
  <2> QED
    BY <1>1, <2>3, <2>4, <2>5, <2>6
<1> QED
  BY <1>4, <1>5

------------------------------------------------------------------------------
(* How far the acceptor is with the messages of a connection.              *)

Unread(c) == input[c] \o left[c]
Eof(c) == input[c] = <<>> /\ client[c] = "closed"
At(c) == apc \in {"header", "switch", "body"} /\ fd = c
More(c) == Len(logged[c]) < Len(sent[c])
NextMessage(c) == sent[c][Len(logged[c]) + 1]
PartHeader(c) == [type |-> NextMessage(c).type, sz |-> 0]
WholeHeader(c) == [type |-> NextMessage(c).type, sz |-> NextMessage(c).sz]

(* at: where its next message begins, as seen from the next number. *)
BeforeMessage(c, at) ==
    /\ apc \in {"header", "switch"} /\ got = 0 /\ at = 0
    /\ m_header = EmptyHeader
HalfHeader(c, at) ==
    /\ \/ apc = "header"
       \/ apc = "switch" /\ Eof(c)
    /\ got = 1 /\ at = -1 /\ More(c) /\ m_header = PartHeader(c)
HeaderRead(c, at) ==
    /\ apc = "switch" /\ got = 2 /\ at = -2
    /\ More(c) /\ m_header = WholeHeader(c)
InBody(c, at) ==
    /\ apc = "body" /\ got <= m_header.sz /\ at = -2 - got
    /\ More(c) /\ m_header = WholeHeader(c)
BodyOfHalf(c, at) ==
    /\ apc = "body" /\ got = 0 /\ at = -1
    /\ Eof(c) /\ More(c) /\ m_header = PartHeader(c)

Progress(c, at) ==
    IF At(c)
      THEN \/ BeforeMessage(c, at) \/ HalfHeader(c, at) \/ HeaderRead(c, at)
           \/ InBody(c, at) \/ BodyOfHalf(c, at)
      ELSE at = 0

InStream(c) ==
    \E b : Stream(Unread(c), sent[c], b) /\ Progress(c, b[Len(logged[c])])

(* The message cut short is logged, and nothing follows. *)
Done(c) ==
    /\ CutShort(c) /\ input[c] = <<>> /\ ~More(c)
    /\ At(c) => BeforeMessage(c, 0)

LeftOfLast(c) ==
    \/ left[c] = <<>>
    \/ /\ sent[c] # <<>>
       /\ Len(left[c]) <= 2 + sent[c][Len(sent[c])].body

LoggedSoFar(c) ==
    /\ Len(logged[c]) <= Len(sent[c])
    /\ \A k \in DOMAIN logged[c] :
         \/ logged[c][k] = sent[c][k]
         \/ CutShort(c) /\ k = Len(sent[c])

StreamInv(c) ==
    /\ LeftOfLast(c)
    /\ Honest(c) => /\ LoggedSoFar(c)
                    /\ Ended \/ InStream(c) \/ Done(c)

(* What neither touches the connection nor a request for it. *)
Untouched(c) ==
    /\ UNCHANGED <<sent[c], left[c], input[c], logged[c]>>
    /\ client[c] = "closed" => client'[c] = "closed"
    /\ \/ Ended'
       \/ ~Ended /\ ~At(c) /\ ~At(c)'
       \/ ~Ended /\ UNCHANGED <<apc, events, place, got, m_header>>

LEMMA UntouchedKeeps ==
    ASSUME NEW c \in Conns, StreamInv(c), Untouched(c)
    PROVE  StreamInv(c)'
<1> USE DEF Untouched
<1>1. /\ LeftOfLast(c)' = LeftOfLast(c) /\ Honest(c)' = Honest(c)
      /\ Unread(c)' = Unread(c) /\ More(c)' = More(c)
      /\ PartHeader(c)' = PartHeader(c) /\ WholeHeader(c)' = WholeHeader(c)
  BY DEF LeftOfLast, Honest, Unread, More, PartHeader, WholeHeader, NextMessage
<1>2. (Eof(c) => Eof(c)') /\ (CutShort(c) => CutShort(c)')
  BY DEF Eof, CutShort
<1>3. LoggedSoFar(c) => LoggedSoFar(c)'
  BY <1>2 DEF LoggedSoFar
<1>4. CASE Ended'
  BY <1>1, <1>3, <1>4 DEF StreamInv
<1>5. CASE ~Ended /\ ~At(c) /\ ~At(c)'
  <2>1. InStream(c) => InStream(c)'
    BY <1>1, <1>5 DEF InStream, Progress
  <2>2. Done(c) => Done(c)'
    BY <1>1, <1>2, <1>5 DEF Done
  <2> QED
    BY <1>1, <1>3, <1>5, <2>1, <2>2 DEF StreamInv
<1>6. CASE ~Ended /\ UNCHANGED <<apc, events, place, got, m_header>>
  <2>1. At(c)' = At(c)
    BY <1>6 DEF At, fd
  <2>2. InStream(c) => InStream(c)'
    BY <1>1, <1>2, <1>6, <2>1
    DEF InStream, Progress, BeforeMessage, HalfHeader, HeaderRead, InBody,
        BodyOfHalf
  <2>3. Done(c) => Done(c)'
    BY <1>1, <1>2, <1>6, <2>1 DEF Done, BeforeMessage
  <2> QED
    BY <1>1, <1>3, <1>6, <2>2, <2>3 DEF StreamInv
<1> QED
  BY <1>4, <1>5, <1>6

(* Number by number, what a client writes stays the same stream. *)
LEMMA ConcatArrive ==
    ASSUME NEW p \in Seq(Nat), NEW q \in Seq(Nat), q # <<>>
    PROVE  Append(p, Head(q)) \o Tail(q) = p \o q
<1>1. Head(q) \in Nat /\ Tail(q) \in Seq(Nat) /\ <<Head(q)>> \in Seq(Nat)
  BY HeadTailProperties
<1>2. Append(p, Head(q)) = p \o <<Head(q)>>
  BY <1>1, AppendIsConcat
<1>3. <<Head(q)>> \o Tail(q) = q
  BY <1>1
<1>4. (p \o <<Head(q)>>) \o Tail(q) = p \o (<<Head(q)>> \o Tail(q))
  BY <1>1, ConcatAssociative, SMTT(30)
<1> QED
  BY <1>2, <1>3, <1>4

LEMMA ConcatTail ==
    ASSUME NEW p \in Seq(Nat), NEW q \in Seq(Nat), p # <<>>
    PROVE  /\ p \o q \in Seq(Nat) /\ p \o q # <<>>
           /\ Tail(p \o q) = Tail(p) \o q /\ Head(p) = (p \o q)[1]
OBVIOUS

LEMMA ConnTypes ==
    ASSUME TypeOK, NEW c \in Conns
    PROVE  /\ sent[c] \in Seq(Messages) /\ left[c] \in Seq(Nat)
           /\ input[c] \in Seq(Nat) /\ logged[c] \in Seq(Entries)
           /\ Unread(c) \in Seq(Nat)
           /\ Len(sent[c]) \in Nat /\ Len(logged[c]) \in Nat
           /\ DOMAIN sent[c] = 1..Len(sent[c])
           /\ DOMAIN logged[c] = 1..Len(logged[c])
<1>1. /\ sent[c] \in Seq(Messages) /\ left[c] \in Seq(Nat)
      /\ input[c] \in Seq(Nat) /\ logged[c] \in Seq(Entries)
  BY DEF TypeOK
<1>2. Unread(c) \in Seq(Nat)
  BY <1>1, ConcatProperties DEF Unread
<1>3. \A S : \A s \in Seq(S) : Len(s) \in Nat /\ DOMAIN s = 1..Len(s)
  OBVIOUS
<1> QED
  BY <1>1, <1>2, <1>3

LEMMA BeginKeeps ==
    ASSUME TypeOK, NEW c \in Conns, StreamInv(c), BeginMessage(c)
    PROVE  StreamInv(c)'
<1>1. PICK m \in Messages :
        /\ sent'[c] = Append(sent[c], m) /\ left'[c] = OnTheWire(m)
        /\ client[c] = "open" /\ left[c] = <<>>
        /\ UNCHANGED <<client, input, apc, registered, events, place, got,
                       m_header, logged>>
  BY DEF BeginMessage, TypeOK, acceptorVars, requestVars
<1>2. /\ sent[c] \in Seq(Messages) /\ Len(sent[c]) \in Nat
      /\ Len(logged[c]) \in Nat
      /\ DOMAIN sent[c] = 1..Len(sent[c]) /\ DOMAIN logged[c] = 1..Len(logged[c])
  BY ConnTypes
<1>3. /\ Len(sent'[c]) = Len(sent[c]) + 1
      /\ \A j \in 1..Len(sent[c]) : sent'[c][j] = sent[c][j]
      /\ sent'[c][Len(sent[c]) + 1] = m
      /\ DOMAIN sent'[c] = 1..(Len(sent[c]) + 1)
  BY <1>1, <1>2, AppendProperties
<1>4. LeftOfLast(c)'
  <2>1. Len(left'[c]) <= 2 + m.body
    BY <1>1, WireReads, MessageType
  <2>2. sent'[c] # <<>>
    BY <1>2, <1>3
  <2> QED
    BY <1>3, <2>1, <2>2 DEF LeftOfLast
<1> SUFFICES ASSUME Honest(c)'
             PROVE  LoggedSoFar(c)' /\ (Ended' \/ InStream(c)' \/ Done(c)')
  BY <1>4 DEF StreamInv
<1>5. Honest(c)
  BY <1>2, <1>3 DEF Honest
<1>6. LoggedSoFar(c) /\ ~CutShort(c)
  BY <1>1, <1>5 DEF StreamInv, CutShort
<1>7. \A k \in 1..Len(logged[c]) : k \in 1..Len(sent[c])
  BY <1>2, <1>6 DEF LoggedSoFar
<1>8. LoggedSoFar(c)'
  <2>1. Len(logged'[c]) <= Len(sent'[c])
    BY <1>1, <1>2, <1>3, <1>6 DEF LoggedSoFar
  <2>2. \A k \in DOMAIN logged[c] : logged'[c][k] = sent'[c][k]
    BY <1>1, <1>2, <1>3, <1>6, <1>7 DEF LoggedSoFar
  <2> QED
    BY <1>1, <2>1, <2>2 DEF LoggedSoFar
<1>9. Ended \/ InStream(c)
  BY <1>5, <1>6 DEF StreamInv, Done
<1>10. ASSUME ~Ended, InStream(c) PROVE InStream(c)'
  <2>1. PICK b : /\ Stream(Unread(c), sent[c], b)
                 /\ Progress(c, b[Len(logged[c])])
    BY <1>10 DEF InStream
  <2>2. Unread(c)' = Unread(c) \o OnTheWire(m)
    <3>1. Unread(c) = input[c] /\ Unread(c)' = input[c] \o OnTheWire(m)
      BY <1>1, ConnTypes, ConcatEmptySeq DEF Unread
    <3> QED
      BY <3>1
  <2>3. PICK a : /\ Stream(Unread(c)', sent'[c], a)
                 /\ \A j \in 0..Len(sent[c]) : a[j] = b[j]
    BY <1>1, <1>2, <2>1, <2>2, ConnTypes, StreamAppends
  <2>4. a[Len(logged[c])] = b[Len(logged[c])]
    BY <1>2, <1>6, <2>3 DEF LoggedSoFar
  <2>5. Progress(c, b[Len(logged[c])])'
    <3>1. At(c)' = At(c) /\ ~Eof(c)
      BY <1>1 DEF At, fd, Eof
    <3>2. More(c) => /\ More(c)' /\ NextMessage(c)' = NextMessage(c)
                     /\ PartHeader(c)' = PartHeader(c)
                     /\ WholeHeader(c)' = WholeHeader(c)
      <4>1. More(c) => Len(logged[c]) + 1 \in 1..Len(sent[c])
        BY <1>2 DEF More
      <4> QED
        BY <1>1, <1>2, <1>3, <4>1
        DEF More, NextMessage, PartHeader, WholeHeader
    <3> QED
      BY <1>1, <2>1, <3>1, <3>2
      DEF Progress, BeforeMessage, HalfHeader, HeaderRead, InBody, BodyOfHalf
  <2> QED
    BY <1>1, <2>3, <2>4, <2>5 DEF InStream
<1> QED
  BY <1>1, <1>8, <1>9, <1>10 DEF Ended

LEMMA ArriveKeeps ==
    ASSUME TypeOK, NEW c \in Conns, StreamInv(c), Arrive(c)
    PROVE  StreamInv(c)'
<1>1. /\ client[c] = "open" /\ left[c] # <<>>
      /\ input'[c] = Append(input[c], Head(left[c]))
      /\ left'[c] = Tail(left[c])
      /\ UNCHANGED <<client, sent, apc, registered, events, place, got,
                     m_header, logged>>
  BY DEF Arrive, TypeOK, acceptorVars, requestVars
<1>2. Unread(c)' = Unread(c)
  BY <1>1, ConnTypes, ConcatArrive DEF Unread
<1>3. LeftOfLast(c)'
  <2>1. Len(Tail(left[c])) < Len(left[c]) /\ Len(left[c]) \in Nat
        /\ Len(Tail(left[c])) \in Nat
    BY <1>1, ConnTypes, HeadTailProperties
  <2>2. sent[c] # <<>> => sent[c][Len(sent[c])] \in Messages
    BY ConnTypes
  <2>3. sent[c] # <<>> => sent[c][Len(sent[c])].body \in Nat
    BY <2>2, MessageType
  <2> QED
    BY <1>1, <2>1, <2>3 DEF StreamInv, LeftOfLast
<1>4. ~Eof(c) /\ ~CutShort(c) /\ ~Done(c)
  BY <1>1 DEF Eof, CutShort, Done
<1>5. /\ Honest(c)' = Honest(c) /\ Ended' = Ended /\ At(c)' = At(c)
      /\ More(c)' = More(c) /\ NextMessage(c)' = NextMessage(c)
      /\ PartHeader(c)' = PartHeader(c) /\ WholeHeader(c)' = WholeHeader(c)
  BY <1>1 DEF Honest, Ended, At, fd, More, PartHeader, WholeHeader, NextMessage
<1>6. LoggedSoFar(c) => LoggedSoFar(c)'
  BY <1>1, <1>4 DEF LoggedSoFar
<1>7. InStream(c) => InStream(c)'
  BY <1>1, <1>2, <1>4, <1>5
  DEF InStream, Progress, BeforeMessage, HalfHeader, HeaderRead, InBody,
      BodyOfHalf
<1> QED
  BY <1>3, <1>4, <1>5, <1>6, <1>7 DEF StreamInv

LEMMA ClientKeeps ==
    ASSUME TypeOK, NEW c \in Conns, StreamInv(c), NEW d \in Conns, Client(d)
    PROVE  StreamInv(c)'
<1>1. CASE c = d /\ BeginMessage(d)
  BY <1>1, BeginKeeps
<1>2. CASE c = d /\ Arrive(d)
  BY <1>2, ArriveKeeps
<1>3. CASE c # d \/ Connect(d) \/ HangUp(d)
  <2>1. UNCHANGED <<apc, events, place, got, m_header, logged>>
    BY DEF Client, Connect, BeginMessage, Arrive, HangUp, acceptorVars,
           requestVars
  <2>2. /\ UNCHANGED <<sent[c], left[c], input[c]>>
        /\ client[c] = "closed" => client'[c] = "closed"
    BY <1>3 DEF Client, Connect, BeginMessage, Arrive, HangUp, TypeOK
  <2>3. Untouched(c)
    BY <2>1, <2>2 DEF Untouched, Ended
  <2> QED
    BY <2>3, UntouchedKeeps
<1> QED
  BY <1>1, <1>2, <1>3 DEF Client

(* A request for another connection, or one that is only taken up. *)
LEMMA OthersKeep ==
    ASSUME TypeOK, NEW c \in Conns, StreamInv(c),
           \/ Construct \/ WatchListening \/ StartFails
           \/ epoll_wait \/ NewConnection \/ AcceptFails \/ ReadFails
           \/ handle_request /\ fd # c
           \/ /\ fd # c
              /\ ReadHeader \/ HeaderEof \/ TakeBody \/ InvalidType
                 \/ ReadBody \/ EndRequest
    PROVE  StreamInv(c)'
<1>1. CASE Construct \/ WatchListening \/ StartFails
  <2>1. ~Ended /\ ~At(c) /\ (Ended' \/ ~At(c)')
        /\ UNCHANGED <<client, sent, left, input, logged>>
    BY <1>1, StartChanges DEF Ended, At
  <2>2. Untouched(c)
    BY <2>1 DEF Untouched
  <2> QED
    BY <2>2, UntouchedKeeps
<1>2. CASE epoll_wait \/ NewConnection
  <2>1. /\ apc \in {"wait", "event"} /\ apc' \in {"event", "wait", "stopped"}
        /\ UNCHANGED <<client, sent, left, input, logged>>
    BY <1>2 DEF epoll_wait, NewConnection, NextEvent, clientVars
  <2>2. Untouched(c)
    BY <2>1 DEF Untouched, Ended, At
  <2> QED
    BY <2>2, UntouchedKeeps
<1>3. CASE AcceptFails \/ ReadFails
  <2>1. /\ apc' \in {"failed", "exited"}
        /\ UNCHANGED <<client, sent, left, input, logged>>
    BY <1>3 DEF AcceptFails, ReadFails, Stay, clientVars
  <2>2. Untouched(c)
    BY <2>1 DEF Untouched, Ended
  <2> QED
    BY <2>2, UntouchedKeeps
<1>4. CASE handle_request /\ fd # c
  <2>1. /\ apc = "event" /\ apc' = "header" /\ fd' = fd
        /\ UNCHANGED <<client, sent, left, input, logged>>
    BY <1>4 DEF handle_request, clientVars, fd
  <2>2. Untouched(c)
    BY <1>4, <2>1 DEF Untouched, Ended, At
  <2> QED
    BY <2>2, UntouchedKeeps
<1>5. CASE /\ fd # c
           /\ ReadHeader \/ HeaderEof \/ TakeBody \/ ReadBody
  <2>1. /\ apc \in {"header", "switch", "body"}
        /\ apc' \in {"header", "switch", "body"}
        /\ fd' = fd
        /\ UNCHANGED <<client, sent, left, logged>>
        /\ input' = input \/ input' = [input EXCEPT ![fd] = Tail(@)]
    BY <1>5 DEF ReadHeader, HeaderEof, TakeBody, ReadBody, Stay, clientVars, fd
  <2>2. input'[c] = input[c]
    BY <1>5, <2>1 DEF TypeOK
  <2>3. Untouched(c)
    BY <1>5, <2>1, <2>2 DEF Untouched, Ended, At
  <2> QED
    BY <2>3, UntouchedKeeps
<1>6. CASE fd # c /\ (InvalidType \/ EndRequest)
  <2>1. /\ apc \in {"switch", "body"} /\ apc' \in {"event", "wait", "stopped"}
        /\ UNCHANGED <<client, sent, left, input>>
        /\ \/ logged' = logged
           \/ \E e : logged' = [logged EXCEPT ![fd] = Append(@, e)]
    BY <1>6 DEF InvalidType, EndRequest, NextEvent, clientVars
  <2>2. logged'[c] = logged[c]
    BY <1>6, <2>1 DEF TypeOK
  <2>3. Untouched(c)
    BY <1>6, <2>1, <2>2 DEF Untouched, Ended, At
  <2> QED
    BY <2>3, UntouchedKeeps
<1> QED
  BY <1>1, <1>2, <1>3, <1>4, <1>5, <1>6

(* A step that leaves the stream of a connection alone. *)
SameStream(c) ==
    /\ UNCHANGED <<client, sent, left, input, logged>>
    /\ ~Ended

LEMMA SameStreamKeeps ==
    ASSUME NEW c \in Conns, StreamInv(c), SameStream(c),
           \A at : Progress(c, at) => Ended' \/ Progress(c, at)',
           Done(c) => Ended' \/ Done(c)'
    PROVE  StreamInv(c)'
<1> USE DEF SameStream
<1>1. /\ LeftOfLast(c)' = LeftOfLast(c) /\ Honest(c)' = Honest(c)
      /\ Unread(c)' = Unread(c) /\ LoggedSoFar(c)' = LoggedSoFar(c)
  BY DEF LeftOfLast, Honest, Unread, LoggedSoFar, CutShort
<1>2. InStream(c) => Ended' \/ InStream(c)'
  BY <1>1 DEF InStream
<1> QED
  BY <1>1, <1>2 DEF StreamInv

LEMMA TakenUpKeeps ==
    ASSUME TypeOK, NEW c \in Conns, StreamInv(c), handle_request, fd = c
    PROVE  StreamInv(c)'
<1>1. /\ apc = "event" /\ apc' = "header" /\ fd' = c
      /\ m_header' = EmptyHeader /\ got' = 0
      /\ SameStream(c) /\ ~At(c) /\ At(c)'
  BY DEF handle_request, clientVars, fd, SameStream, Ended, At
<1>2. \A at : Progress(c, at) => Progress(c, at)'
  BY <1>1 DEF Progress, BeforeMessage, EmptyHeader
<1>3. Done(c) => Done(c)'
  BY <1>1 DEF Done, SameStream, CutShort, More, BeforeMessage, EmptyHeader
<1> QED
  BY <1>1, <1>2, <1>3, SameStreamKeeps

(* The types of honest messages are those that are read on. *)
LEMMA HeaderTypes ==
    ASSUME TypeOK, NEW c \in Conns, More(c)
    PROVE  /\ NextMessage(c) \in Messages
           /\ PartHeader(c).type \in {REG, TRM}
           /\ WholeHeader(c).type \in {REG, TRM}
           /\ WholeHeader(c).sz \in Nat
<1>1. Len(logged[c]) + 1 \in 1..Len(sent[c])
  BY ConnTypes DEF More
<1>2. NextMessage(c) \in Messages
  BY <1>1, ConnTypes, ElementOfSeq DEF NextMessage
<1> QED
  BY <1>2, MessageType DEF PartHeader, WholeHeader

LEMMA EofKeeps ==
    ASSUME TypeOK, NEW c \in Conns, StreamInv(c), HeaderEof, fd = c
    PROVE  StreamInv(c)'
<1>1. /\ apc = "header" /\ apc' = "switch" /\ fd' = c /\ Eof(c)
      /\ UNCHANGED <<m_header, got>>
      /\ SameStream(c) /\ At(c) /\ At(c)'
  BY DEF HeaderEof, Stay, clientVars, requestVars, fd, SameStream, Ended, At,
         AtEof, Eof
<1>2. \A at : Progress(c, at) => Progress(c, at)'
  BY <1>1 DEF Progress, BeforeMessage, HalfHeader, HeaderRead, InBody,
              BodyOfHalf, SameStream, Eof, More, PartHeader, NextMessage
<1>3. Done(c) => Done(c)'
  BY <1>1 DEF Done, SameStream, CutShort, More, BeforeMessage
<1> QED
  BY <1>1, <1>2, <1>3, SameStreamKeeps

LEMMA SwitchKeeps ==
    ASSUME TypeOK, NEW c \in Conns, StreamInv(c), TakeBody \/ InvalidType,
           fd = c
    PROVE  StreamInv(c)'
<1>1. EmptyHeader.type \notin {REG, TRM}
  BY DEF EmptyHeader, INV, REG, TRM
<1>2. CASE TakeBody
  <2>1. /\ apc = "switch" /\ apc' = "body" /\ fd' = c
        /\ m_header.type \in {REG, TRM} /\ got' = 0 /\ m_header' = m_header
        /\ SameStream(c) /\ At(c) /\ At(c)'
    BY <1>2 DEF TakeBody, Stay, clientVars, fd, SameStream, Ended, At
  <2>2. ASSUME NEW at, Progress(c, at) PROVE Progress(c, at)'
    <3>1. CASE HalfHeader(c, at)
      BY <2>1, <3>1 DEF Progress, HalfHeader, BodyOfHalf, SameStream, Eof,
                        More, PartHeader, NextMessage
    <3>2. CASE HeaderRead(c, at)
      <4>1. WholeHeader(c).sz \in Nat
        BY <3>2, HeaderTypes DEF HeaderRead
      <4> QED
        BY <2>1, <3>2, <4>1 DEF Progress, HeaderRead, InBody, SameStream,
                                More, WholeHeader, NextMessage
    <3> QED
      BY <1>1, <2>1, <2>2, <3>1, <3>2
      DEF Progress, BeforeMessage, InBody, BodyOfHalf
  <2>3. ~Done(c)
    BY <1>1, <2>1 DEF Done, BeforeMessage
  <2> QED
    BY <2>1, <2>2, <2>3, SameStreamKeeps
<1>3. CASE InvalidType
  <2>1. /\ apc = "switch" /\ apc' \in {"event", "wait", "stopped"}
        /\ m_header.type \notin {REG, TRM}
        /\ SameStream(c) /\ At(c) /\ ~At(c)'
    BY <1>3 DEF InvalidType, NextEvent, clientVars, SameStream, Ended, At
  <2>2. ASSUME NEW at, Progress(c, at) PROVE Progress(c, at)'
    <3>1. ~HalfHeader(c, at) /\ ~HeaderRead(c, at)
      BY <2>1, HeaderTypes DEF HalfHeader, HeaderRead
    <3> QED
      BY <2>1, <2>2, <3>1 DEF Progress, BeforeMessage, InBody, BodyOfHalf
  <2>3. Done(c) => Done(c)'
    BY <2>1 DEF Done, SameStream, CutShort, More
  <2> QED
    BY <2>1, <2>2, <2>3, SameStreamKeeps
<1> QED
  BY <1>2, <1>3

(* A number of the connection is read. *)
Takes(c) ==
    /\ input[c] # <<>> /\ input'[c] = Tail(input[c])
    /\ UNCHANGED <<client, sent, left, logged>>
    /\ ~Ended /\ ~Ended'

LEMMA TakesOne ==
    ASSUME TypeOK, NEW c \in Conns, Takes(c), LoggedSoFar(c),
           NEW b, Stream(Unread(c), sent[c], b)
    PROVE  /\ Len(logged[c]) \in 0..Len(sent[c])
           /\ \E a : /\ Stream(Unread(c)', sent'[c], a)
                     /\ a[Len(logged[c])] = b[Len(logged[c])] - 1
<1>1. Len(logged[c]) \in 0..Len(sent[c])
  BY ConnTypes DEF LoggedSoFar
<1>2. Unread(c) # <<>> /\ Unread(c)' = Tail(Unread(c))
  <2>1. /\ input[c] \in Seq(Nat) /\ left[c] \in Seq(Nat) /\ input[c] # <<>>
        /\ Unread(c)' = Tail(input[c]) \o left[c]
    BY ConnTypes DEF Unread, Takes
  <2> QED
    BY <2>1, ConcatTail, Zenon DEF Unread
<1>3. PICK a : /\ Stream(Tail(Unread(c)), sent[c], a)
               /\ \A j \in 0..Len(sent[c]) : a[j] = b[j] - 1
  <2>1. Unread(c) \in Seq(Nat) /\ sent[c] \in Seq(Messages)
    BY ConnTypes
  <2> QED
    BY <1>2, <2>1, StreamTail, Zenon
<1>4. a[Len(logged[c])] = b[Len(logged[c])] - 1
  BY <1>1, <1>3, Zenon
<1> QED
  BY <1>1, <1>2, <1>3, <1>4 DEF Takes

(* It is enough to say what the number is in the message read. *)
LEMMA TakesKeeps ==
    ASSUME TypeOK, NEW c \in Conns, StreamInv(c), Takes(c),
           \A b : /\ Stream(Unread(c), sent[c], b)
                  /\ Len(logged[c]) \in 0..Len(sent[c])
                  /\ Progress(c, b[Len(logged[c])])
                  => Progress(c, b[Len(logged[c])] - 1)'
    PROVE  StreamInv(c)'
<1>1. /\ LeftOfLast(c)' = LeftOfLast(c) /\ Honest(c)' = Honest(c)
      /\ LoggedSoFar(c)' = LoggedSoFar(c)
  BY DEF LeftOfLast, Honest, LoggedSoFar, CutShort, Takes
<1>2. ~Done(c) /\ ~Ended
  BY DEF Done, Takes
<1>3. ASSUME LoggedSoFar(c), InStream(c) PROVE InStream(c)'
  <2>1. PICK b : /\ Stream(Unread(c), sent[c], b)
                 /\ Progress(c, b[Len(logged[c])])
    BY <1>3 DEF InStream
  <2>2. Len(logged[c]) \in 0..Len(sent[c])
    BY <1>3, <2>1, TakesOne
  <2>3. PICK a : /\ Stream(Unread(c)', sent'[c], a)
                 /\ a[Len(logged[c])] = b[Len(logged[c])] - 1
    BY <1>3, <2>1, TakesOne
  <2>4. Progress(c, b[Len(logged[c])] - 1)'
    BY <2>1, <2>2
  <2>5. logged' = logged
    BY DEF Takes
  <2>6. Progress(c, a[Len(logged[c])])'
    BY <2>3, <2>4, <2>5
  <2> QED
    BY <2>3, <2>5, <2>6 DEF InStream
<1> QED
  BY <1>1, <1>2, <1>3 DEF StreamInv

(* The number that comes next is the type or the size that is due. *)
LEMMA DueHeader ==
    ASSUME TypeOK, NEW c \in Conns, input[c] # <<>>,
           NEW b, Stream(Unread(c), sent[c], b),
           Len(logged[c]) \in 0..Len(sent[c])
    PROVE  /\ b[Len(logged[c])] = 0 =>
                More(c) /\ Head(input[c]) = NextMessage(c).type
           /\ b[Len(logged[c])] = -1 /\ More(c) =>
                Head(input[c]) = NextMessage(c).sz
<1>1. /\ Unread(c) # <<>> /\ Head(input[c]) = Unread(c)[1]
      /\ Unread(c) \in Seq(Nat)
  BY ConnTypes, ConcatTail DEF Unread
<1>2. PICK l \in Nat \ {0} : l = Len(Unread(c))
  BY <1>1
<1>3. PICK n \in Nat : n = Len(sent[c])
  BY ConnTypes
<1>4. PICK k \in 0..n : k = Len(logged[c])
  BY <1>3
<1>5. Bounds(l, sent[c], n, b) /\ Headers(Unread(c), l, sent[c], n, b)
  BY <1>2, <1>3, Zenon DEF Stream
<1>6. /\ b[k] = 0 => k < n /\ Unread(c)[1] = sent[c][k + 1].type
      /\ b[k] = -1 /\ k < n => Unread(c)[1] = sent[c][k + 1].sz
  <2>1. k \in 0..n /\ l \in Nat \ {0} /\ n \in Nat
    OBVIOUS
  <2> HIDE <1>1, <1>2, <1>3, <1>4
  <2> QED
    BY <1>5, <2>1, NextHeader
<1> QED
  BY <1>1, <1>3, <1>4, <1>6, Zenon DEF More, NextMessage

LEMMA ReadHeaderKeeps ==
    ASSUME TypeOK, NEW c \in Conns, StreamInv(c), ReadHeader, fd = c
    PROVE  StreamInv(c)'
<1>1. /\ apc = "header" /\ got < 2 /\ got' = got + 1
      /\ apc' = IF got + 1 = 2 THEN "switch" ELSE "header"
      /\ m_header' = IF got = 0
                       THEN [m_header EXCEPT !.type = Head(input[c])]
                       ELSE [m_header EXCEPT !.sz = Head(input[c])]
      /\ Takes(c) /\ At(c) /\ fd' = c /\ input[c] # <<>> /\ logged' = logged
      /\ sent' = sent
  BY DEF ReadHeader, HeaderLen, Stay, clientVars, Takes, TypeOK, At, fd, Ended
<1>2. At(c)'
  BY <1>1 DEF At
<1> SUFFICES ASSUME NEW b, Stream(Unread(c), sent[c], b),
                    Len(logged[c]) \in 0..Len(sent[c]),
                    Progress(c, b[Len(logged[c])])
             PROVE  Progress(c, b[Len(logged[c])] - 1)'
  BY <1>1, TakesKeeps
<1> DEFINE at == b[Len(logged[c])]
<1>3. (BeforeMessage(c, at) \/ HalfHeader(c, at))
  BY <1>1 DEF Progress, HeaderRead, InBody, BodyOfHalf
<1>4. More(c)' = More(c) /\ NextMessage(c)' = NextMessage(c)
  BY <1>1 DEF More, NextMessage
<1>5. CASE BeforeMessage(c, at)
  <2>1. at = 0 /\ got = 0 /\ m_header = [type |-> INV, sz |-> 0]
    BY <1>5 DEF BeforeMessage, EmptyHeader
  <2>2. More(c) /\ Head(input[c]) = NextMessage(c).type
    BY <1>1, <2>1, DueHeader
  <2>3. m_header' = PartHeader(c)'
    BY <1>1, <1>4, <2>1, <2>2 DEF PartHeader
  <2>4. HalfHeader(c, at - 1)'
    <3>1. apc' = "header" /\ got' = 1 /\ at - 1 = -1
      BY <1>1, <2>1
    <3> QED
      BY <1>1, <1>4, <2>2, <2>3, <3>1 DEF HalfHeader
  <2> QED
    BY <1>1, <1>2, <2>4 DEF Progress
<1>6. CASE HalfHeader(c, at)
  <2>1. at = -1 /\ got = 1 /\ m_header = PartHeader(c) /\ More(c)
    BY <1>6 DEF HalfHeader
  <2>2. Head(input[c]) = NextMessage(c).sz
    BY <1>1, <2>1, DueHeader
  <2>3. m_header' = WholeHeader(c)'
    BY <1>1, <1>4, <2>1, <2>2 DEF PartHeader, WholeHeader
  <2>4. HeaderRead(c, at - 1)'
    BY <1>1, <1>4, <2>1, <2>3 DEF HeaderRead
  <2> QED
    BY <1>1, <1>2, <2>4 DEF Progress
<1> QED
  BY <1>3, <1>5, <1>6

LEMMA ReadBodyKeeps ==
    ASSUME TypeOK, NEW c \in Conns, StreamInv(c), ReadBody, fd = c
    PROVE  StreamInv(c)'
<1>1. /\ apc = "body" /\ got < m_header.sz /\ got' = got + 1
      /\ apc' = "body" /\ m_header' = m_header
      /\ Takes(c) /\ At(c) /\ fd' = c /\ input[c] # <<>> /\ logged' = logged
      /\ sent' = sent
  BY DEF ReadBody, Stay, clientVars, Takes, TypeOK, At, fd, Ended
<1>2. At(c)' /\ got \in Nat /\ m_header.sz \in Nat
  BY <1>1 DEF At, TypeOK
<1> SUFFICES ASSUME NEW b, Progress(c, b[Len(logged[c])])
             PROVE  Progress(c, b[Len(logged[c])] - 1)'
  BY <1>1, TakesKeeps
<1> DEFINE at == b[Len(logged[c])]
<1>3. InBody(c, at)
  BY <1>1 DEF Progress, BeforeMessage, HalfHeader, HeaderRead, BodyOfHalf, Eof
<1>4. More(c)' = More(c) /\ WholeHeader(c)' = WholeHeader(c)
  BY <1>1 DEF More, WholeHeader, NextMessage
<1>5. InBody(c, at - 1)'
  BY <1>1, <1>2, <1>3, <1>4 DEF InBody
<1> QED
  BY <1>1, <1>2, <1>5 DEF Progress

(* The request ends: what becomes of the connection. *)
Logs(c) ==
    /\ logged'[c] = Append(logged[c], [type |-> m_header.type,
                                       sz |-> m_header.sz, body |-> got])
    /\ UNCHANGED <<client, sent, left, input>>
    /\ At(c) /\ apc = "body" /\ ~At(c)'

LEMMA LogsAppends ==
    ASSUME TypeOK, NEW c \in Conns, Logs(c), LoggedSoFar(c), More(c)
    PROVE  /\ Len(logged'[c]) = Len(logged[c]) + 1
           /\ \A k \in DOMAIN logged'[c] :
                \/ k \in DOMAIN logged[c] /\ logged'[c][k] = logged[c][k]
                \/ /\ k = Len(logged[c]) + 1
                   /\ logged'[c][k] = [type |-> m_header.type,
                                       sz |-> m_header.sz, body |-> got]
           /\ Len(logged'[c]) <= Len(sent[c])
<1>1. /\ logged[c] \in Seq(Entries) /\ Len(logged[c]) \in Nat
      /\ Len(sent[c]) \in Nat
  BY ConnTypes
<1>2. PICK e : /\ e = [type |-> m_header.type, sz |-> m_header.sz, body |-> got]
               /\ logged'[c] = Append(logged[c], e)
  BY DEF Logs
<1>3. e \in Entries
  BY <1>2 DEF Entries, TypeOK, Logs
<1>4. /\ Len(logged'[c]) = Len(logged[c]) + 1
      /\ DOMAIN logged'[c] = 1..(Len(logged[c]) + 1)
      /\ DOMAIN logged[c] = 1..Len(logged[c])
      /\ logged'[c][Len(logged[c]) + 1] = e
      /\ \A k \in 1..Len(logged[c]) : logged'[c][k] = logged[c][k]
  BY <1>1, <1>2, <1>3, AppendProperties
<1>5. \A k \in 1..(Len(logged[c]) + 1) :
        k \in 1..Len(logged[c]) \/ k = Len(logged[c]) + 1
  BY <1>1
<1> QED
  BY <1>1, <1>2, <1>4, <1>5 DEF More

(* A request ends in the middle of a message only when its client has left *)
(* and the message is the last one it began.                               *)
LEMMA EndsInside ==
    ASSUME TypeOK, NEW c \in Conns, LeftOfLast(c), Eof(c),
           NEW b, Stream(Unread(c), sent[c], b), More(c),
           NextMessage(c).body + 2 + b[Len(logged[c])] > 0
    PROVE  CutShort(c) /\ Len(logged[c]) + 1 = Len(sent[c])
<1>1. PICK n \in Nat : n = Len(sent[c])
  BY ConnTypes
<1>2. PICK k \in 0..n : k = Len(logged[c]) /\ k < n
  BY <1>1, ConnTypes DEF More
<1>3. Unread(c) = left[c] /\ left[c] \in Seq(Nat)
  BY ConnTypes, ConcatEmptySeq DEF Unread, Eof
<1>4. PICK l \in Nat : l = Len(left[c]) /\ (left[c] = <<>> <=> l = 0)
  BY <1>3, EmptySeq
<1>5. Bounds(l, sent[c], n, b)
  BY <1>1, <1>3, <1>4, Zenon DEF Stream
<1>6. Bodies(sent[c], n)
  <2>1. \A j \in 1..n : sent[c][j] \in Messages
    BY <1>1, ConnTypes, ElementOfSeq
  <2> QED
    BY <2>1, MessageType, Zenon DEF Bodies
<1>7. l = 0 \/ l <= 2 + sent[c][n].body
  BY <1>1, <1>4, Zenon DEF LeftOfLast
<1>8. b[k + 1] > 0
  <2>1. b[k + 1] = b[k] + 2 + sent[c][k + 1].body
    BY <1>2, <1>5, NextEnd
  <2>2. sent[c][k + 1].body \in Nat /\ b[k] \in Int
    BY <1>2, <1>5, <1>6 DEF Bodies, Bounds
  <2>3. sent[c][k + 1].body + 2 + b[k] > 0
    BY <1>2, Zenon DEF NextMessage
  <2> QED
    BY <2>1, <2>2, <2>3, SMTT(30)
<1>9. k + 1 = n /\ l # 0
  BY <1>2, <1>5, <1>6, <1>7, <1>8, OnlyLastIsCut
<1> QED
  BY <1>1, <1>2, <1>4, <1>9 DEF CutShort, Eof

LEMMA LogsKeeps ==
    ASSUME TypeOK, NEW c \in Conns, StreamInv(c), Logs(c),
           got = m_header.sz \/ Eof(c)
    PROVE  StreamInv(c)'
<1>1. LeftOfLast(c) /\ LeftOfLast(c)' /\ Honest(c)' = Honest(c)
      /\ Unread(c)' = Unread(c) /\ CutShort(c)' = CutShort(c)
  BY DEF StreamInv, LeftOfLast, Honest, Unread, CutShort, Logs
<1> SUFFICES ASSUME Honest(c)
             PROVE  LoggedSoFar(c)' /\ (Ended' \/ InStream(c)' \/ Done(c)')
  BY <1>1 DEF StreamInv
<1>2. LoggedSoFar(c) /\ InStream(c)
  BY DEF StreamInv, Done, BeforeMessage, Logs, Ended
<1>3. PICK b : /\ Stream(Unread(c), sent[c], b)
               /\ Progress(c, b[Len(logged[c])])
  BY <1>2 DEF InStream
<1> DEFINE at == b[Len(logged[c])]
<1>4. /\ InBody(c, at) \/ BodyOfHalf(c, at)
      /\ More(c)
  BY <1>3 DEF Progress, BeforeMessage, HalfHeader, HeaderRead, InBody,
              BodyOfHalf, Logs
<1>5. /\ NextMessage(c) \in [type : {REG, TRM}, sz : Nat, body : Nat]
      /\ NextMessage(c).sz = NextMessage(c).body
  <2>1. Len(logged[c]) + 1 \in DOMAIN sent[c]
    BY <1>4, ConnTypes DEF More
  <2> QED
    BY <1>4, <2>1, HeaderTypes, MessageType DEF Honest, NextMessage
<1>6. /\ Len(logged'[c]) = Len(logged[c]) + 1
      /\ \A k \in DOMAIN logged'[c] :
           \/ k \in DOMAIN logged[c] /\ logged'[c][k] = logged[c][k]
           \/ /\ k = Len(logged[c]) + 1
              /\ logged'[c][k] = [type |-> m_header.type,
                                  sz |-> m_header.sz, body |-> got]
      /\ Len(logged'[c]) <= Len(sent[c])
  BY <1>2, <1>4, LogsAppends
<1>7. sent' = sent /\ input' = input /\ ~At(c)' /\ got \in Nat
  BY DEF Logs, TypeOK
<1>8. CASE InBody(c, at) /\ got = m_header.sz
  <2>1. m_header = WholeHeader(c) /\ at = -2 - got
    BY <1>8 DEF InBody
  <2>2. [type |-> m_header.type, sz |-> m_header.sz, body |-> got]
          = NextMessage(c)
    BY <1>5, <1>8, <2>1 DEF WholeHeader
  <2>3. LoggedSoFar(c)'
    <3>1. \A k \in DOMAIN logged'[c] :
            \/ k \in DOMAIN logged[c] /\ logged'[c][k] = logged[c][k]
            \/ logged'[c][k] = sent[c][k]
      BY <1>6, <2>2 DEF NextMessage
    <3> QED
      BY <1>1, <1>2, <1>6, <1>7, <3>1 DEF LoggedSoFar
  <2>4. b[Len(logged[c]) + 1] = 0
    <3>1. PICK n \in Nat : n = Len(sent[c])
      BY ConnTypes
    <3>2. PICK l \in Nat : l = Len(Unread(c))
      BY ConnTypes
    <3>3. PICK k \in 0..n : k = Len(logged[c]) /\ k < n
      BY <1>4, <3>1, ConnTypes DEF More
    <3>4. b[k + 1] = b[k] + 2 + sent[c][k + 1].body
      <4>1. Bounds(l, sent[c], n, b)
        BY <1>3, <3>1, <3>2, Zenon DEF Stream
      <4> QED
        BY <3>3, <4>1, NextEnd
    <3>5. sent[c][k + 1].body = got /\ b[k] = -2 - got
      BY <1>5, <1>8, <2>1, <3>3 DEF WholeHeader, NextMessage
    <3> QED
      BY <1>7, <3>3, <3>4, <3>5
  <2>5. InStream(c)'
    <3>1. Progress(c, 0)'
      BY <1>7 DEF Progress
    <3> QED
      BY <1>1, <1>3, <1>6, <1>7, <2>4, <3>1 DEF InStream
  <2> QED
    BY <2>3, <2>5
<1>9. CASE Eof(c) /\ ~(InBody(c, at) /\ got = m_header.sz)
  <2>1. NextMessage(c).body + 2 + at > 0
    <3>1. CASE InBody(c, at)
      <4>1. got < NextMessage(c).sz /\ at = -2 - got
        BY <1>5, <1>7, <1>9, <3>1 DEF InBody, WholeHeader
      <4> QED
        BY <1>5, <1>7, <4>1
    <3>2. CASE BodyOfHalf(c, at)
      <4>1. at = -1
        BY <3>2 DEF BodyOfHalf
      <4> QED
        BY <1>5, <4>1
    <3> QED
      BY <1>4, <3>1, <3>2
  <2>2. CutShort(c) /\ Len(logged[c]) + 1 = Len(sent[c])
    BY <1>1, <1>3, <1>4, <1>9, <2>1, EndsInside
  <2>3. LoggedSoFar(c)'
    BY <1>1, <1>2, <1>6, <1>7, <2>2 DEF LoggedSoFar
  <2>4. Done(c)'
    BY <1>1, <1>6, <1>7, <1>9, <2>2, ConnTypes DEF Done, More, Eof
  <2> QED
    BY <2>3, <2>4
<1> QED
  BY <1>4, <1>8, <1>9 DEF BodyOfHalf

LEMMA EndRequestKeeps ==
    ASSUME TypeOK, NEW c \in Conns, StreamInv(c), EndRequest, fd = c
    PROVE  StreamInv(c)'
<1>1. Logs(c)
  BY DEF EndRequest, NextEvent, clientVars, TypeOK, At, Logs
<1>2. got = m_header.sz \/ Eof(c)
  BY DEF EndRequest, AtEof, Eof
<1> QED
  BY <1>1, <1>2, LogsKeeps

LEMMA NextStreams ==
    ASSUME TypeOK, NEW c \in Conns, StreamInv(c), [Next]_vars
    PROVE  StreamInv(c)'
<1>1. CASE \E d \in Conns : Client(d)
  BY <1>1, ClientKeeps
<1>2. CASE handle_request
  BY <1>2, TakenUpKeeps, OthersKeep
<1>3. CASE ReadHeader \/ HeaderEof \/ TakeBody \/ InvalidType
           \/ ReadBody \/ EndRequest
  <2>1. CASE fd # c
    BY <1>3, <2>1, OthersKeep
  <2>2. CASE fd = c
    BY <1>3, <2>2, ReadHeaderKeeps, EofKeeps, SwitchKeeps, ReadBodyKeeps,
       EndRequestKeeps
  <2> QED
    BY <2>1, <2>2
<1>4. CASE \/ Construct \/ WatchListening \/ StartFails
           \/ epoll_wait \/ NewConnection \/ AcceptFails \/ ReadFails
  BY <1>4, OthersKeep
<1>5. CASE UNCHANGED vars
  <2>1. Untouched(c)
    BY <1>5 DEF vars, clientVars, requestVars, Untouched, Ended
  <2> QED
    BY <2>1, UntouchedKeeps
<1> QED
  BY <1>1, <1>2, <1>3, <1>4, <1>5
  DEF Next, Serve, Loop, Request, Failure

LEMMA InitStreams ==
    ASSUME Init, NEW c \in Conns
    PROVE  StreamInv(c)
<1>1. /\ sent[c] = <<>> /\ left[c] = <<>> /\ input[c] = <<>>
      /\ logged[c] = <<>> /\ apc = "construct"
  BY DEF Init
<1>2. Len(<<>>) = 0 /\ DOMAIN <<>> = {} /\ Unread(c) = <<>>
  BY <1>1 DEF Unread
<1> DEFINE b == [j \in 0..0 |-> 0]
<1>3. Stream(<<>>, <<>>, b)
  BY <1>2 DEF Stream, Bounds, Headers
<1>4. Progress(c, b[0])
  BY <1>1 DEF Progress, At
<1>5. InStream(c)
  BY <1>1, <1>2, <1>3, <1>4 DEF InStream
<1>6. LoggedSoFar(c)
  BY <1>1, <1>2 DEF LoggedSoFar
<1> QED
  BY <1>1, <1>5, <1>6 DEF StreamInv, LeftOfLast

(* What handle_request logs of a connection is what its client sent, whole *)
(* and in order, but for a message that its client cut short.              *)
THEOREM LoggedIsSent == Spec => []LoggedAsSent
<1> DEFINE Streams == \A c \in Conns : StreamInv(c)
<1>1. Init => Streams
  BY InitStreams
<1>2. TypeOK /\ Streams /\ [Next]_vars => Streams'
  BY NextStreams
<1>3. IInv => TypeOK
  BY DEF IInv
<1>4. Streams => LoggedAsSent
  BY DEF StreamInv, LoggedSoFar, LoggedAsSent
<1> HIDE DEF Streams
<1> QED
  BY <1>1, <1>2, <1>3, <1>4, Invariance, PTL DEF Spec
==============================================================================
