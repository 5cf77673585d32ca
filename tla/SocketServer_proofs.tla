-------------------------- MODULE SocketServer_proofs --------------------------
(***************************************************************************)
(* Proofs about the server of task1 for any number of connections and any  *)
(* number of descriptors: what its threads may do to each other's          *)
(* connections, and what they cannot do while no thread lost the race.     *)
(***************************************************************************)
EXTENDS SocketServer, TLAPS

USE NAssumption, MaxFdsAssumption

(* What is left to read of a request, and what reading its first part leaves. *)
Left == {<<>>, <<"header">>, <<"payload">>, <<"header", "payload">>}

LEMMA HeadOfRequest ==
    ASSUME NEW s \in Left, s # <<>>
    PROVE  /\ Tail(s) \in {<<>>, <<"payload">>}
           /\ Head(s) = "header" \/ s = <<"payload">>
<1>1. CASE s = <<"header">>
  BY <1>1
<1>2. CASE s = <<"payload">>
  BY <1>2
<1>3. CASE s = <<"header", "payload">>
  BY <1>3
<1> QED
  BY <1>1, <1>2, <1>3 DEF Left

(* Reading the first part of a request keeps the type of input. *)
LEMMA ReadingKeepsType ==
    ASSUME NEW f \in [Conns -> Left], NEW c, f[c] # <<>>
    PROVE  [f EXCEPT ![c] = Tail(@)] \in [Conns -> Left]
<1>1. ASSUME c \in Conns PROVE Tail(f[c]) \in Left
  BY <1>1, HeadOfRequest DEF Left
<1> QED
  BY <1>1

(* Counting a reply or a delete keeps the counters natural numbers. *)
LEMMA CountingUp ==
    ASSUME NEW f \in [Conns -> Nat], NEW c
    PROVE  [f EXCEPT ![c] = @ + 1] \in [Conns -> Nat]
<1>1. ASSUME c \in Conns PROVE f[c] + 1 \in Nat
  BY <1>1
<1> QED
  BY <1>1

(* Before the first accept nothing but the listener's place changes, or    *)
(* the process ends.                                                       *)
LEMMA StartUpChanges ==
    ASSUME StartUp
    PROVE  /\ alive /\ lpc \in Starting
           /\ lpc' = lpc \/ lpc' \in {"bind", "listen", "accept"}
           /\ UNCHANGED <<accepted, slot, raced, reused, tpc, tsock, garbled,
                          deletes, input, request, client, replies>>
           /\ UNCHANGED <<alive, conn>> \/ ProcessEnds
BY DEF StartUp, Main, SetLocalPort, SetListen, Reaches, StartFails, Starting,
       listenerVars, threadVars, clientVars

(* Accepting a connection makes its TCPSocket, at the place of one that was *)
(* deleted (d) or at a new one: whoever works with d now means the new one. *)
Keepers(d) == {t \in Conns : tsock[t] = d /\ Working(t)}

LEMMA AcceptChanges ==
    ASSUME Accept
    PROVE  /\ accepted < N /\ accepted' = accepted + 1
           /\ client[accepted + 1] # "idle" /\ lpc' = "fill"
           /\ conn' = [conn EXCEPT ![accepted + 1] = "open"]
           /\ UNCHANGED <<alive, raced, tpc, deletes, input, request, client,
                          replies>>
           /\ \E d \in {0} \cup {c \in Conns : deletes[c] > 0} :
                /\ slot' = IF slot = d /\ d # 0 THEN accepted + 1 ELSE slot
                /\ tsock' = [t \in Conns |-> IF t \in Keepers(d)
                                             THEN accepted + 1 ELSE tsock[t]]
                /\ garbled' = [t \in Conns |-> garbled[t] \/
                                  (t \in Keepers(d) /\ tpc[t] = "payload")]
                /\ reused' = (reused \/ Keepers(d) # {})
BY Zenon DEF Accept, Keepers, clientVars

(* Type correctness is inductive by itself: it holds at first, ... *)
LEMMA InitType == Init => TypeOK
<1> SUFFICES ASSUME Init PROVE TypeOK
  OBVIOUS
<1>1. garbled \in [Conns -> BOOLEAN]
  BY Zenon DEF Init
<1>2. input \in [Conns -> Left]
  BY DEF Init, Left
<1>3. deletes \in [Conns -> Nat] /\ replies \in [Conns -> Nat]
  BY DEF Init
<1>4. /\ tpc \in [Conns -> {"none"}] /\ tsock \in [Conns -> {0}]
      /\ conn \in [Conns -> {"none"}] /\ request \in [Conns -> {"none"}]
      /\ client \in [Conns -> {"idle"}]
  BY DEF Init
<1>5. /\ alive \in BOOLEAN /\ raced \in BOOLEAN /\ reused \in BOOLEAN
      /\ lpc = "main" /\ accepted = 0 /\ slot = 0
  BY DEF Init
<1> QED
  BY <1>1, <1>2, <1>3, <1>4, <1>5 DEF TypeOK, Left, Starting

(* ... and every step of the server and of its clients keeps it. *)
LEMMA NextType == TypeOK /\ [Next]_vars => TypeOK'
<1> SUFFICES ASSUME TypeOK, [Next]_vars
             PROVE  TypeOK'
  OBVIOUS
<1> USE DEF TypeOK, Conns, Requests, Starting
<1>1. CASE Accept
  <2>1. PICK d \in {0} \cup {c \in Conns : deletes[c] > 0} :
             /\ slot' = IF slot = d /\ d # 0 THEN accepted + 1 ELSE slot
             /\ tsock' = [t \in Conns |-> IF t \in Keepers(d)
                                          THEN accepted + 1 ELSE tsock[t]]
             /\ garbled' = [t \in Conns |-> garbled[t] \/
                               (t \in Keepers(d) /\ tpc[t] = "payload")]
             /\ reused' = (reused \/ Keepers(d) # {})
    BY <1>1, AcceptChanges, Zenon
  <2>2. accepted' \in 0..N /\ slot' \in 0..N /\ tsock' \in [Conns -> 0..N]
    <3>1. accepted + 1 \in 0..N /\ accepted' = accepted + 1
      BY <1>1, AcceptChanges
    <3> QED
      BY <2>1, <3>1
  <2>3. garbled' \in [Conns -> BOOLEAN] /\ reused' \in BOOLEAN
    BY <2>1, Zenon
  <2>4. /\ lpc' = "fill" /\ conn' = [conn EXCEPT ![accepted + 1] = "open"]
        /\ UNCHANGED <<alive, raced, tpc, deletes, input, request, client,
                       replies>>
    BY <1>1, AcceptChanges
  <2> QED
    BY <2>2, <2>3, <2>4
<1>2. CASE AcceptThrows
  BY <1>2 DEF AcceptThrows, ProcessEnds, listenerVars, threadVars, clientVars
<1>3. CASE FillParams
  BY <1>3 DEF FillParams, threadVars, clientVars
<1>4. CASE Begin
  BY <1>4 DEF Begin, clientVars
<1>5. ASSUME NEW t \in Conns, Thread(t)
      PROVE  TypeOK'
  <2> USE DEF Goto, listenerVars, clientVars, threadVars
  <2>1. CASE ReadParams(t)
    BY <2>1 DEF ReadParams
  <2>2. CASE RecvHeader(t)
    <3>1. input' \in [Conns -> Left]
      BY <2>2, ReadingKeepsType DEF RecvHeader, Left
    <3>2. tpc' = [tpc EXCEPT ![t] = "payload"] \/ tpc' = [tpc EXCEPT ![t] = "delete"]
      BY <2>2 DEF RecvHeader
    <3>3. garbled' \in [Conns -> BOOLEAN]
      BY <2>2 DEF RecvHeader
    <3> QED
      BY <2>2, <3>1, <3>2, <3>3 DEF RecvHeader, Left
  <2>3. CASE RecvPayload(t)
    <3>1. input' \in [Conns -> Left]
      BY <2>3, ReadingKeepsType DEF RecvPayload, Left
    <3>2. \/ tpc' = [tpc EXCEPT ![t] = "reply"]
          \/ tpc' = [tpc EXCEPT ![t] = "done"]
          \/ tpc' = tpc
      BY <2>3 DEF RecvPayload
    <3> QED
      BY <2>3, <3>1, <3>2 DEF RecvPayload, Left
  <2>4. CASE RecvEof(t)
    BY <2>4 DEF RecvEof
  <2>5. CASE RecvThrows(t)
    BY <2>5 DEF RecvThrows
  <2>6. CASE Reply(t)
    <3>1. replies' \in [Conns -> Nat]
      <4>1. \/ replies' = replies
            \/ replies' = [replies EXCEPT ![tsock[t]] = @ + 1]
        BY <2>6 DEF Reply, Answers
      <4>2. replies \in [Conns -> Nat]
        OBVIOUS
      <4>3. [replies EXCEPT ![tsock[t]] = @ + 1] \in [Conns -> Nat]
        BY <4>2, CountingUp
      <4> QED
        BY <4>1, <4>2, <4>3, Zenon
    <3>2. \/ client' = client
          \/ client' = [client EXCEPT ![tsock[t]] = IF @ = "waiting" THEN "answered" ELSE @]
      BY <2>6 DEF Reply, Answers
    <3>3. client' \in [Conns -> {"idle", "connected", "waiting", "answered",
                                 "refused", "gone"}]
      <4> DEFINE s == IF client[tsock[t]] = "waiting" THEN "answered" ELSE client[tsock[t]]
      <4>1. client' = client \/ client' = [client EXCEPT ![tsock[t]] = s]
        BY <3>2
      <4>2. tsock[t] \in Conns =>
              s \in {"idle", "connected", "waiting", "answered", "refused", "gone"}
        OBVIOUS
      <4> HIDE DEF s
      <4> QED
        BY <4>1, <4>2
    <3>4. tpc' = [tpc EXCEPT ![t] = "delete"]
      BY <2>6 DEF Reply
    <3> QED
      BY <2>6, <3>1, <3>3, <3>4 DEF Reply
  <2>7. CASE ReplyKilled(t)
    BY <2>7 DEF ReplyKilled, ProcessEnds
  <2>8. CASE UseDeleted(t)
    BY <2>8 DEF UseDeleted
  <2>9. CASE Delete(t)
    <3>1. deletes' \in [Conns -> Nat]
      BY <2>9, CountingUp DEF Delete
    <3>2. conn' \in [Conns -> {"none", "open", "closed"}] /\ alive' \in BOOLEAN
      BY <2>9 DEF Delete, ProcessEnds
    <3> QED
      BY <2>9, <3>1, <3>2 DEF Delete
  <2> QED
    BY <1>5, <2>1, <2>2, <2>3, <2>4, <2>5, <2>6, <2>7, <2>8, <2>9 DEF Thread
<1>6. ASSUME NEW c \in Conns, Client(c)
      PROVE  TypeOK'
  <2> USE DEF listenerVars, threadVars
  <2>1. CASE SendRequest(c)
    BY <2>1, SMTT(30) DEF SendRequest
  <2>2. CASE HangUp(c)
    BY <2>2 DEF HangUp
  <2>3. CASE SeeClose(c)
    BY <2>3 DEF SeeClose
  <2>4. CASE Connect(c)
    BY <2>4 DEF Connect
  <2> QED
    BY <1>6, <2>1, <2>2, <2>3, <2>4 DEF Client
<1>7. CASE UNCHANGED vars
  BY <1>7 DEF vars, listenerVars, threadVars, clientVars
<1>8. CASE StartUp
  BY <1>8, StartUpChanges DEF ProcessEnds
<1> QED
  BY <1>1, <1>2, <1>3, <1>4, <1>5, <1>6, <1>7, <1>8 DEF Next, Listener

(* Every variable of the server keeps its type (SocketServer.cpp). *)
THEOREM TypeCorrect == Spec => []TypeOK
BY InitType, NextType, PTL DEF Spec

------------------------------------------------------------------------------
(* Who takes which connection. *)

Listening == ListenerControl /\ TakesOwnOrLater

(* Whatever a started thread or a client does, no thread changes the       *)
(* connection it has taken: only the listener and a starting thread count. *)
LEMMA ThreadKeepsConnection ==
    ASSUME TypeOK, Next, ~Listener,
           \A t \in Conns : ~(alive /\ ReadParams(t))
    PROVE  /\ UNCHANGED <<lpc, accepted, slot, tsock>>
           /\ \A t \in Conns : /\ tpc[t] = "none" <=> tpc'[t] = "none"
                               /\ tpc[t] = "born" <=> tpc'[t] = "born"
<1>1. ASSUME NEW t \in Conns, Thread(t)
      PROVE  /\ UNCHANGED <<lpc, accepted, slot, tsock>>
             /\ tpc[t] \notin {"none", "born"}
             /\ \E place \in {"header", "payload", "reply", "delete", "done"} :
                  tpc' = [tpc EXCEPT ![t] = place] \/ tpc' = tpc
  <2> USE DEF Goto, listenerVars, threadVars
  <2>1. CASE RecvHeader(t)
    BY <2>1 DEF RecvHeader
  <2>2. CASE RecvPayload(t)
    BY <2>2 DEF RecvPayload
  <2>3. CASE RecvEof(t) \/ RecvThrows(t) \/ UseDeleted(t)
    BY <2>3 DEF RecvEof, RecvThrows, UseDeleted
  <2>4. CASE Reply(t) \/ ReplyKilled(t)
    BY <2>4 DEF Reply, Answers, ReplyKilled
  <2>5. CASE Delete(t)
    BY <2>5 DEF Delete
  <2> QED
    BY <1>1, <2>1, <2>2, <2>3, <2>4, <2>5 DEF Thread
<1>2. ASSUME NEW c \in Conns, Client(c)
      PROVE  UNCHANGED <<lpc, accepted, slot, tsock, tpc>>
  BY <1>2 DEF Client, Connect, SendRequest, HangUp, SeeClose, listenerVars, threadVars
<1> QED
  BY <1>1, <1>2 DEF Next, TypeOK

(* The slot and the connections taken stay in order. *)
LEMMA NextListening ==
    ASSUME TypeOK, Listening, [Next]_vars
    PROVE  Listening'
<1> USE DEF Listening, ListenerControl, TakesOwnOrLater, Started, TypeOK, Conns
<1>1. CASE Accept
  <2>1. PICK d \in {0} \cup {c \in Conns : deletes[c] > 0} :
             /\ slot' = IF slot = d /\ d # 0 THEN accepted + 1 ELSE slot
             /\ tsock' = [t \in Conns |-> IF t \in Keepers(d)
                                          THEN accepted + 1 ELSE tsock[t]]
    BY <1>1, AcceptChanges, Zenon
  <2>2. /\ accepted < N /\ accepted' = accepted + 1
        /\ tpc' = tpc /\ lpc' = "fill"
    BY <1>1, AcceptChanges
  <2>3. accepted \in Nat /\ slot \in Nat /\ slot <= accepted
    OBVIOUS
  <2>4. slot <= slot' /\ slot' <= accepted'
    BY <2>1, <2>2, <2>3
  <2>5. \A t \in Conns : tpc[t] # "none" => t <= accepted
    OBVIOUS
  <2>6. accepted' >= 1 /\ accepted' \in Conns /\ tpc[accepted'] = "none"
    BY <2>2, <2>3, <2>5
  <2>7. ListenerControl'
    <3>1. \A t \in Conns : /\ tpc[t] # "none" => t <= accepted'
                           /\ tpc[t] = "born" => t <= slot'
      BY <2>1, <2>2, <2>3, <2>4, <2>5
    <3> QED
      BY <2>2, <2>4, <2>6, <3>1
  <2>8. TakesOwnOrLater'
    <3> SUFFICES ASSUME NEW t \in Conns, tpc[t] \notin {"none", "born"}
                 PROVE  tsock'[t] \in t..accepted'
      BY <2>2
    <3>1. tsock[t] \in t..accepted /\ t <= accepted /\ t \in Nat
      BY <2>5
    <3>2. tsock'[t] = accepted + 1 \/ tsock'[t] = tsock[t]
      BY <2>1
    <3>3. accepted + 1 \in t..(accepted + 1) /\ tsock[t] \in t..(accepted + 1)
      BY <2>3, <3>1
    <3> QED
      BY <2>2, <3>2, <3>3
  <2> QED
    BY <2>7, <2>8
<1>2. CASE AcceptThrows
  BY <1>2 DEF AcceptThrows, listenerVars, threadVars
<1>3. CASE FillParams
  BY <1>3 DEF FillParams, threadVars
<1>4. CASE Begin
  BY <1>4 DEF Begin
<1>5. ASSUME NEW t \in Conns, alive, ReadParams(t)
      PROVE  Listening'
  <2>1. /\ tpc[t] = "born"
        /\ tpc' = [tpc EXCEPT ![t] = "header"]
        /\ tsock' = [tsock EXCEPT ![t] = slot]
        /\ UNCHANGED <<lpc, accepted, slot>>
    BY <1>5 DEF ReadParams, Goto, listenerVars
  <2>2. slot \in t..accepted
    <3>1. t \in Nat /\ slot \in Nat /\ accepted \in Nat
      OBVIOUS
    <3>2. t <= slot /\ slot <= accepted
      BY <2>1
    <3> HIDE DEF TypeOK, Listening, ListenerControl, TakesOwnOrLater
    <3> QED
      BY <3>1, <3>2
  <2>3. ListenerControl'
    BY <2>1, SMTT(30)
  <2>4. TakesOwnOrLater'
    BY <2>1, <2>2
  <2> QED
    BY <2>3, <2>4
<1>6. CASE Next /\ ~Listener /\ \A t \in Conns : ~(alive /\ ReadParams(t))
  <2>1. /\ UNCHANGED <<lpc, accepted, slot, tsock>>
        /\ \A t \in Conns : /\ tpc[t] = "none" <=> tpc'[t] = "none"
                            /\ tpc[t] = "born" <=> tpc'[t] = "born"
    BY <1>6, ThreadKeepsConnection
  <2>2. ListenerControl'
    BY <2>1
  <2>3. TakesOwnOrLater'
    BY <2>1
  <2> QED
    BY <2>2, <2>3
<1>7. CASE UNCHANGED vars
  BY <1>7 DEF vars, listenerVars, threadVars
<1>8. CASE StartUp
  BY <1>8, StartUpChanges DEF Starting
<1> QED
  BY <1>1, <1>2, <1>3, <1>4, <1>5, <1>6, <1>7, <1>8 DEF Listener

------------------------------------------------------------------------------
(* Who is answered. *)

Answering == ClientControl /\ ReplyControl /\ AnsweredOnce

(* A started thread has taken some connection. *)
LEMMA StartedHasConnection ==
    ASSUME TypeOK, Listening, NEW t \in Conns, tpc[t] \notin {"none", "born"}
    PROVE  tsock[t] \in Conns
BY DEF TypeOK, Listening, TakesOwnOrLater, Started, Conns

(* The client's part: what is there to read comes with the request. *)
LEMMA NextClientControl ==
    ASSUME TypeOK, Listening, ClientControl, [Next]_vars
    PROVE  ClientControl'
<1> USE DEF ClientControl, TypeOK
<1>1. CASE Accept
  <2>1. /\ accepted' = accepted + 1 /\ client[accepted + 1] # "idle"
        /\ UNCHANGED <<input, request, client>>
    BY <1>1, AcceptChanges
  <2>2. \A c \in Conns : c <= accepted' => c <= accepted \/ c = accepted + 1
    BY <2>1 DEF Conns
  <2> QED
    BY <2>1, <2>2
<1>2. CASE AcceptThrows \/ FillParams
  BY <1>2 DEF AcceptThrows, FillParams, listenerVars, threadVars, clientVars
<1>3. CASE Begin
  BY <1>3 DEF Begin, clientVars
<1>4. ASSUME NEW t \in Conns, Thread(t)
      PROVE  ClientControl'
  <2> USE DEF Goto, listenerVars, clientVars, threadVars
  <2>1. CASE RecvHeader(t) \/ RecvPayload(t)
    <3>1. /\ input' = [input EXCEPT ![tsock[t]] = Tail(@)]
          /\ input[tsock[t]] # <<>>
          /\ UNCHANGED <<accepted, request, client>>
      BY <2>1 DEF RecvHeader, RecvPayload
    <3>2. \A c \in Conns : input[c] = <<>> => input'[c] = <<>>
      BY <3>1
    <3> QED
      BY <3>1, <3>2
  <2>2. CASE Reply(t)
    <3>1. \A c \in Conns : client'[c] = client[c] \/
                           (client[c] = "waiting" /\ client'[c] = "answered")
      BY <2>2 DEF Reply, Answers
    <3>2. UNCHANGED <<accepted, input, request>>
      BY <2>2 DEF Reply
    <3> QED
      BY <3>1, <3>2
  <2> QED
    BY <1>4, <2>1, <2>2
    DEF Thread, ReadParams, RecvEof, RecvThrows, UseDeleted, ReplyKilled, Delete
<1>5. ASSUME NEW c \in Conns, Client(c)
      PROVE  ClientControl'
  <2> USE DEF listenerVars, threadVars
  <2>1. CASE SendRequest(c)
    <3>1. /\ client' = [client EXCEPT ![c] = IF replies[c] = 0 THEN "waiting" ELSE "answered"]
          /\ \E r \in Requests : request' = [request EXCEPT ![c] = r]
          /\ \E s \in Left : input' = [input EXCEPT ![c] = s]
          /\ UNCHANGED accepted
      BY <2>1 DEF SendRequest, Left
    <3> QED
      BY <3>1
  <2>2. CASE Connect(c) \/ HangUp(c) \/ SeeClose(c)
    BY <2>2 DEF Connect, HangUp, SeeClose
  <2> QED
    BY <1>5, <2>1, <2>2 DEF Client
<1>6. CASE UNCHANGED vars
  BY <1>6 DEF vars, listenerVars, threadVars, clientVars
<1>7. CASE StartUp
  BY <1>7, StartUpChanges
<1> QED
  BY <1>1, <1>2, <1>3, <1>4, <1>5, <1>6, <1>7 DEF Next, Listener

(* Once a later connection has a thread's deleted socket, that is so for good. *)
LEMMA ReusedStays ==
    ASSUME [Next]_vars, ~reused'
    PROVE  ~reused
BY DEF Next, Listener, Accept, AcceptThrows, FillParams, Begin, Thread, Client,
       ReadParams, RecvHeader, RecvPayload, RecvEof, RecvThrows, Reply,
       ReplyKilled, UseDeleted, Delete, Connect, SendRequest, HangUp, SeeClose,
       listenerVars, vars, StartUp, Main, SetLocalPort, SetListen, Reaches,
       StartFails

(* A step of thread t says nothing of what the others hold. *)
LEMMA OthersHold ==
    ASSUME TypeOK, NEW t \in Conns, NEW place, tpc' = [tpc EXCEPT ![t] = place],
           \A u \in Conns : u # t => (garbled'[u] <=> garbled[u]),
           NEW u \in Conns, u # t
    PROVE  /\ tpc'[u] = tpc[u] /\ (garbled'[u] <=> garbled[u])
           /\ HoldsRequest(u)' <=> HoldsRequest(u)
           /\ Strays(u)' <=> Strays(u)
<1>1. tpc'[u] = tpc[u] /\ (garbled'[u] <=> garbled[u])
  BY DEF TypeOK
<1> QED
  BY <1>1, Zenon DEF HoldsRequest, Strays

(* What a thread's step keeps when it takes nothing more to answer. *)
LEMMA HoldingNothingMore ==
    ASSUME TypeOK, Listening, Answering, ~reused, ~reused', UNCHANGED tsock,
           \A u \in Conns :
             /\ tpc'[u] \in {"none", "born", "header"} => ~garbled'[u]
             /\ HoldsRequest(u)' => HoldsRequest(u)
             /\ tpc'[u] = "reply" => request[tsock[u]] = "query"
             /\ Strays(u)' => Strays(u),
           UNCHANGED <<input, request, client, replies>>
    PROVE  ReplyControl' /\ AnsweredOnce'
BY DEF Answering, ReplyControl, AnsweredOnce, HeaderTaken

(* Reading on takes the header, or what follows it, from its connection only. *)
LEMMA ReadingOn ==
    ASSUME TypeOK, Listening, Answering, ~reused, NEW t \in Conns,
           NEW c \in Conns, c = tsock[t],
           UNCHANGED <<tsock, replies, request, client>>,
           client[c] \notin {"idle", "connected"},
           HeaderTaken(c)',
           \A b \in Conns : b # c => /\ input'[b] = input[b]
                                     /\ HeaderTaken(b)' <=> HeaderTaken(b),
           \A u \in Conns : u # t => /\ tpc'[u] = tpc[u]
                                     /\ garbled'[u] <=> garbled[u]
                                     /\ HoldsRequest(u)' <=> HoldsRequest(u)
                                     /\ Strays(u)' <=> Strays(u),
           tpc'[t] \notin {"none", "born", "header"},
           tpc'[t] = "reply" => request[c] = "query",
           HoldsRequest(t)' =>
             /\ replies[c] = 0
             /\ \A u \in Conns : u # t /\ tsock[u] = c => ~HoldsRequest(u),
           Strays(t)' => input'[c] = <<>>,
           \A u \in Conns : u # t /\ tsock[u] = c /\ Strays(u) => input'[c] = <<>>
    PROVE  ReplyControl'
<1> SUFFICES ASSUME ~reused' PROVE ReplyControl'
  BY DEF ReplyControl
<1>1. ASSUME NEW u \in Conns
      PROVE  /\ tpc'[u] \in {"none", "born", "header"} => ~garbled'[u]
             /\ tpc'[u] = "reply" => request[tsock[u]] = "query"
  BY DEF Answering, ReplyControl
<1>2. ASSUME NEW u \in Conns, HoldsRequest(u)'
      PROVE  HeaderTaken(tsock[u])' /\ replies[tsock[u]] = 0
  <2>1. CASE u = t
    BY <1>2, <2>1
  <2>2. CASE u # t
    <3>1. HoldsRequest(u)
      BY <1>2, <2>2
    <3>2. tsock[u] \in Conns
      BY <3>1, StartedHasConnection DEF HoldsRequest
    <3>3. HeaderTaken(tsock[u]) /\ replies[tsock[u]] = 0
      BY <3>1 DEF Answering, ReplyControl
    <3> QED
      BY <3>2, <3>3
  <2> QED
    BY <2>1, <2>2
<1>3. ASSUME NEW u \in Conns, Strays(u)'
      PROVE  client[tsock[u]] \notin {"idle", "connected"} /\ input'[tsock[u]] = <<>>
  <2>1. CASE u = t
    BY <1>3, <2>1
  <2>2. CASE u # t
    <3>1. Strays(u)
      BY <1>3, <2>2
    <3>2. tsock[u] \in Conns
      BY <3>1, StartedHasConnection DEF Strays
    <3>3. client[tsock[u]] \notin {"idle", "connected"} /\ input[tsock[u]] = <<>>
      BY <3>1 DEF Answering, ReplyControl
    <3> QED
      BY <2>2, <3>1, <3>2, <3>3
  <2> QED
    BY <2>1, <2>2
<1>4. ASSUME NEW u \in Conns, NEW v \in Conns, HoldsRequest(u)',
             HoldsRequest(v)', tsock[u] = tsock[v]
      PROVE  u = v
  <2>1. CASE u # t /\ v # t
    BY <1>4, <2>1 DEF Answering, ReplyControl
  <2>2. CASE u = t \/ v = t
    BY <1>4, <2>2
  <2> QED
    BY <2>1, <2>2
<1>5. ASSUME NEW b \in Conns, replies[b] > 0
      PROVE  HeaderTaken(b)'
  <2>1. CASE b = c
    BY <2>1
  <2>2. CASE b # c
    <3>1. HeaderTaken(b)
      BY <1>5 DEF Answering, ReplyControl
    <3> QED
      BY <2>2, <3>1
  <2> QED
    BY <2>1, <2>2
<1> QED
  BY <1>1, <1>2, <1>3, <1>4, <1>5 DEF ReplyControl

(* A step of a thread: reading a header takes the request from whoever else *)
(* reads the connection, and the one who holds it gives it up by answering. *)
LEMMA ThreadAnswering ==
    ASSUME TypeOK, Listening, Answering, ~reused, NEW t \in Conns, Thread(t)
    PROVE  ReplyControl' /\ AnsweredOnce'
<1> USE DEF Goto
<1>1. CASE \E place \in {"delete", "done"} :
             /\ tpc' = [tpc EXCEPT ![t] = place]
             /\ UNCHANGED <<tsock, garbled, input, request, client, replies, reused>>
  <2>1. PICK place \in {"delete", "done"} : tpc' = [tpc EXCEPT ![t] = place]
    BY <1>1
  <2>2. tpc'[t] \in {"delete", "done"} /\ ~HoldsRequest(t)' /\ ~Strays(t)'
    BY <2>1, SMT DEF HoldsRequest, Strays, TypeOK
  <2>3. \A u \in Conns :
          /\ tpc'[u] \in {"none", "born", "header"} => ~garbled'[u]
          /\ HoldsRequest(u)' => HoldsRequest(u)
          /\ tpc'[u] = "reply" => request[tsock[u]] = "query"
          /\ Strays(u)' => Strays(u)
    <3> SUFFICES ASSUME NEW u \in Conns
                 PROVE  /\ tpc'[u] \in {"none", "born", "header"} => ~garbled'[u]
                        /\ HoldsRequest(u)' => HoldsRequest(u)
                        /\ tpc'[u] = "reply" => request[tsock[u]] = "query"
                        /\ Strays(u)' => Strays(u)
      OBVIOUS
    <3>1. CASE u = t
      BY <2>2, <3>1
    <3>2. CASE u # t
      <4>1. /\ tpc'[u] = tpc[u] /\ (garbled'[u] <=> garbled[u])
            /\ HoldsRequest(u)' <=> HoldsRequest(u)
            /\ Strays(u)' <=> Strays(u)
        BY <1>1, <2>1, <3>2, OthersHold
      <4> QED
        BY <4>1 DEF Answering, ReplyControl
    <3> QED
      BY <3>1, <3>2
  <2> QED
    BY <1>1, <2>3, HoldingNothingMore
<1>2. CASE RecvEof(t) \/ RecvThrows(t) \/ UseDeleted(t)
  BY <1>1, <1>2
  DEF RecvEof, RecvThrows, UseDeleted, listenerVars, clientVars
<1>3. CASE ReplyKilled(t) \/ Delete(t)
  <2>1. CASE Delete(t)
    BY <1>1, <2>1 DEF Delete, listenerVars, clientVars
  <2>2. CASE ReplyKilled(t)
    BY <2>2
    DEF ReplyKilled, listenerVars, clientVars, threadVars, Answering,
        ReplyControl, AnsweredOnce, HoldsRequest, Strays, HeaderTaken
  <2> QED
    BY <1>3, <2>1, <2>2
<1>4. CASE ReadParams(t)
  <2>1. /\ tpc[t] = "born" /\ tpc' = [tpc EXCEPT ![t] = "header"]
        /\ tsock' = [tsock EXCEPT ![t] = slot]
        /\ UNCHANGED <<garbled, input, request, client, replies, reused>>
    BY <1>4 DEF ReadParams, listenerVars, clientVars
  <2>2. tpc'[t] = "header" /\ ~garbled'[t] /\ ~HoldsRequest(t)' /\ ~Strays(t)'
    BY <2>1 DEF HoldsRequest, Strays, TypeOK, Answering, ReplyControl
  <2>3. \A u \in Conns : u # t => tsock'[u] = tsock[u]
    BY <2>1 DEF TypeOK
  <2>4. \A u \in Conns : u # t => /\ tpc'[u] = tpc[u] /\ (garbled'[u] <=> garbled[u])
                                  /\ HoldsRequest(u)' <=> HoldsRequest(u)
                                  /\ Strays(u)' <=> Strays(u)
    BY <2>1, OthersHold
  <2> QED
    BY <2>1, <2>2, <2>3, <2>4 DEF Answering, ReplyControl, AnsweredOnce, HeaderTaken
<1>5. CASE RecvHeader(t)
  <2>a. tsock[t] \in Conns
    BY <1>5, StartedHasConnection DEF RecvHeader
  <2>b. PICK c \in Conns : c = tsock[t]
    BY <2>a
  <2> USE <2>b
  <2>1. /\ c \in Conns /\ tpc[t] = "header"
        /\ client[c] \notin {"idle", "connected"}
    BY <1>5, StartedHasConnection DEF RecvHeader, Answering, ClientControl
  <2>2. ~garbled[t]
    BY <2>1 DEF Answering, ReplyControl
  <2>3. /\ input[c] \in Left /\ input[c] # <<>>
        /\ input' = [input EXCEPT ![c] = Tail(@)]
        /\ UNCHANGED <<tsock, replies, request, client, reused>>
    BY <1>5, <2>1 DEF RecvHeader, Left, listenerVars, clientVars, TypeOK
  <2>4. input'[c] \in {<<>>, <<"payload">>} /\ HeaderTaken(c)'
    BY <2>1, <2>3, HeadOfRequest DEF HeaderTaken, TypeOK
  <2>5. \A b \in Conns : b # c => /\ input'[b] = input[b]
                                  /\ HeaderTaken(b)' <=> HeaderTaken(b)
    BY <2>3 DEF TypeOK, HeaderTaken
  <2>6. \E place \in {"payload", "delete"} :
          /\ tpc' = [tpc EXCEPT ![t] = place]
          /\ \A u \in Conns : u # t => (garbled'[u] <=> garbled[u])
    BY <1>5 DEF RecvHeader, TypeOK
  <2>7. \A u \in Conns : u # t => /\ tpc'[u] = tpc[u] /\ (garbled'[u] <=> garbled[u])
                                  /\ HoldsRequest(u)' <=> HoldsRequest(u)
                                  /\ Strays(u)' <=> Strays(u)
    BY <2>6, OthersHold
  <2>8. tpc'[t] \in {"payload", "delete"}
    BY <2>6 DEF TypeOK
  <2>9. CASE Head(input[c]) = "header"
    <3>1. garbled' = garbled
      BY <1>5, <2>9 DEF RecvHeader
    <3>2. ~Strays(t)'
      BY <2>2, <3>1 DEF Strays
    <3>3. ~HeaderTaken(c)
      BY <2>3, <2>9 DEF HeaderTaken
    <3>4. /\ replies[c] = 0
          /\ \A u \in Conns : tsock[u] = c => ~HoldsRequest(u)
          /\ \A u \in Conns : tsock[u] = c => ~Strays(u)
      <4>1. replies[c] = 0
        BY <2>1, <3>3 DEF Answering, ReplyControl, TypeOK
      <4> QED
        BY <2>3, <3>3, <4>1 DEF Answering, ReplyControl
    <3>5. \A u \in Conns : u # t /\ (HoldsRequest(u) \/ Strays(u)) => tsock[u] # c
      BY <3>4
    <3>6. ReplyControl'
      BY <2>1, <2>3, <2>4, <2>5, <2>7, <2>8, <3>2, <3>4, ReadingOn
    <3>7. AnsweredOnce'
      BY <2>3 DEF Answering, AnsweredOnce
    <3> QED
      BY <3>6, <3>7
  <2>10. CASE Head(input[c]) # "header"
    <3>1. garbled' = [garbled EXCEPT ![t] = TRUE]
      BY <1>5, <2>10 DEF RecvHeader
    <3>2. garbled'[t]
      BY <3>1 DEF TypeOK
    <3>3. input[c] = <<"payload">>
      BY <2>3, <2>10, HeadOfRequest
    <3>4. input'[c] = <<>>
      BY <2>1, <2>3, <3>3 DEF TypeOK
    <3>5. ~HoldsRequest(t)'
      BY <2>8, <3>2 DEF HoldsRequest
    <3>6. ReplyControl'
      BY <2>1, <2>3, <2>4, <2>5, <2>7, <2>8, <3>4, <3>5, ReadingOn
    <3>7. AnsweredOnce'
      BY <2>3 DEF Answering, AnsweredOnce
    <3> QED
      BY <3>6, <3>7
  <2> QED
    BY <2>9, <2>10
<1>6. CASE RecvPayload(t)
  <2>a. tsock[t] \in Conns
    BY <1>6, StartedHasConnection DEF RecvPayload
  <2>b. PICK c \in Conns : c = tsock[t]
    BY <2>a
  <2> USE <2>b
  <2>1. /\ c \in Conns /\ tpc[t] = "payload"
        /\ client[c] \notin {"idle", "connected"}
        /\ input[c] # <<>> /\ input' = [input EXCEPT ![c] = Tail(@)]
        /\ UNCHANGED <<tsock, garbled, replies, request, client, reused>>
    BY <1>6, StartedHasConnection
    DEF RecvPayload, Answering, ClientControl, listenerVars, clientVars
  <2>2. ~Strays(t)
    BY <2>1 DEF Answering, ReplyControl
  <2>3. ~garbled[t] /\ HoldsRequest(t)
    BY <2>1, <2>2 DEF HoldsRequest, Strays
  <2>4. HeaderTaken(c)
    BY <2>3 DEF Answering, ReplyControl
  <2>5. input[c] = <<"payload">>
    BY <2>1, <2>4 DEF HeaderTaken
  <2>6. input'[c] = <<>> /\ HeaderTaken(c)'
    BY <2>1, <2>5 DEF TypeOK, HeaderTaken
  <2>7. PICK place \in {"reply", "done"} :
          /\ tpc' = [tpc EXCEPT ![t] = place]
          /\ place = "reply" => request[c] = "query"
    BY <1>6, <2>3 DEF RecvPayload
  <2>8. \A b \in Conns : b # c => /\ input'[b] = input[b]
                                  /\ HeaderTaken(b)' <=> HeaderTaken(b)
    BY <2>1 DEF TypeOK, HeaderTaken
  <2>9. \A u \in Conns : u # t => /\ tpc'[u] = tpc[u] /\ (garbled'[u] <=> garbled[u])
                                  /\ HoldsRequest(u)' <=> HoldsRequest(u)
                                  /\ Strays(u)' <=> Strays(u)
    BY <2>1, <2>7, OthersHold
  <2>10. tpc'[t] = place /\ ~Strays(t)'
    BY <2>7 DEF TypeOK, Strays
  <2>11. ReplyControl'
    <3>1. place \notin {"none", "born", "header"}
      OBVIOUS
    <3>2. replies[c] = 0 /\ \A u \in Conns : u # t /\ tsock[u] = c => ~HoldsRequest(u)
      BY <2>3 DEF Answering, ReplyControl
    <3> QED
      BY <2>1, <2>6, <2>7, <2>8, <2>9, <2>10, <3>1, <3>2, ReadingOn
  <2>12. AnsweredOnce'
    BY <2>1 DEF Answering, AnsweredOnce
  <2> QED
    BY <2>11, <2>12
<1>7. CASE Reply(t)
  <2>a. tsock[t] \in Conns
    BY <1>7, StartedHasConnection DEF Reply
  <2>b. PICK c \in Conns : c = tsock[t]
    BY <2>a
  <2> USE <2>b
  <2>1. /\ c \in Conns /\ HoldsRequest(t)
        /\ tpc[t] = "reply" /\ tpc' = [tpc EXCEPT ![t] = "delete"]
        /\ UNCHANGED <<tsock, garbled, input, request, reused>>
    BY <1>7, StartedHasConnection DEF Reply, HoldsRequest, listenerVars
  <2>2. /\ HeaderTaken(c) /\ replies[c] = 0 /\ request[c] = "query"
        /\ \A u \in Conns : HoldsRequest(u) /\ tsock[u] = c => u = t
    BY <2>1 DEF Answering, ReplyControl
  <2>3. \A b \in Conns : /\ replies'[b] = replies[b] \/ (b = c /\ replies'[b] = 1)
                         /\ client[b] \notin {"idle", "connected"} =>
                              client'[b] \notin {"idle", "connected"}
    BY <1>7, <2>2 DEF Reply, Answers, TypeOK
  <2>4. \A u \in Conns : u # t => /\ tpc'[u] = tpc[u] /\ (garbled'[u] <=> garbled[u])
                                  /\ HoldsRequest(u)' <=> HoldsRequest(u)
                                  /\ Strays(u)' <=> Strays(u)
    BY <2>1, OthersHold
  <2>5. tpc'[t] = "delete" /\ ~HoldsRequest(t)' /\ ~Strays(t)'
    BY <2>1 DEF TypeOK, HoldsRequest, Strays
  <2>6. \A b \in Conns : HeaderTaken(b) => HeaderTaken(b)'
    BY <2>1, <2>3 DEF HeaderTaken
  <2>7. ReplyControl'
    <3>1. \A u \in Conns : HoldsRequest(u)' => /\ u # t /\ HoldsRequest(u)
                                               /\ tsock[u] # c
      BY <2>2, <2>4, <2>5
    <3>2. \A u \in Conns : HoldsRequest(u)' => tsock[u] \in Conns
      BY <3>1, StartedHasConnection DEF HoldsRequest
    <3>3. \A u \in Conns : HoldsRequest(u)' => /\ HeaderTaken(tsock[u])'
                                               /\ replies'[tsock[u]] = 0
      <4>1. \A u \in Conns : HoldsRequest(u) =>
              HeaderTaken(tsock[u]) /\ replies[tsock[u]] = 0
        BY DEF Answering, ReplyControl
      <4>2. ASSUME NEW u \in Conns, HoldsRequest(u)'
            PROVE  HeaderTaken(tsock[u])' /\ replies'[tsock[u]] = 0
        <5>1. HoldsRequest(u) /\ tsock[u] # c
          BY <3>1, <4>2
        <5>2. PICK b \in Conns : b = tsock[u] /\ b = tsock'[u]
          BY <2>1, <3>2, <4>2
        <5>3. HeaderTaken(b) /\ replies[b] = 0
          BY <4>1, <5>1, <5>2
        <5>4. HeaderTaken(b)' /\ replies'[b] = 0
          BY <2>3, <2>6, <5>1, <5>2, <5>3
        <5> QED
          BY <5>2, <5>4
      <4> QED
        BY <4>2
    <3>4. \A u \in Conns : Strays(u)' =>
            client'[tsock[u]] \notin {"idle", "connected"} /\ input[tsock[u]] = <<>>
      <4> SUFFICES ASSUME NEW u \in Conns, Strays(u)'
                   PROVE  /\ client'[tsock[u]] \notin {"idle", "connected"}
                          /\ input[tsock[u]] = <<>>
        OBVIOUS
      <4>1. Strays(u)
        BY <2>4, <2>5
      <4>2. tsock[u] \in Conns
        BY <4>1, StartedHasConnection DEF Strays
      <4> QED
        BY <2>3, <4>1, <4>2 DEF Answering, ReplyControl
    <3>5. \A b \in Conns : replies'[b] > 0 => HeaderTaken(b)'
      BY <2>2, <2>3, <2>6 DEF Answering, ReplyControl
    <3> QED
      BY <2>1, <2>4, <2>5, <3>1, <3>3, <3>4, <3>5 DEF Answering, ReplyControl
  <2>8. AnsweredOnce'
    BY <2>1, <2>2, <2>3 DEF Answering, AnsweredOnce
  <2> QED
    BY <2>7, <2>8
<1> QED
  BY <1>2, <1>3, <1>4, <1>5, <1>6, <1>7 DEF Thread

(* A step of a client: of one that sends, nobody holds the request yet. *)
LEMMA ClientAnswering ==
    ASSUME TypeOK, Listening, Answering, ~reused, NEW c \in Conns, Client(c)
    PROVE  ReplyControl' /\ AnsweredOnce'
<1> USE DEF ReplyControl, AnsweredOnce, HoldsRequest, Strays, HeaderTaken, TypeOK,
            Answering, listenerVars, threadVars
<1>1. CASE SendRequest(c)
  <2>1. /\ client[c] = "connected"
        /\ \E s \in {"waiting", "answered"} : client' = [client EXCEPT ![c] = s]
        /\ \E r \in Requests : request' = [request EXCEPT ![c] = r]
        /\ \E s \in Left : input' = [input EXCEPT ![c] = s]
        /\ UNCHANGED <<tpc, tsock, garbled, replies, reused>>
    BY <1>1 DEF SendRequest, Left
  <2>2. /\ replies[c] = 0
        /\ \A u \in Conns : tsock[u] = c => ~HoldsRequest(u) /\ tpc[u] \notin {"payload", "reply"}
    <3>1. ~HeaderTaken(c)
      BY <2>1
    <3>2. replies[c] = 0
      BY <3>1
    <3> QED
      BY <2>1, <3>1, <3>2
  <2>3. \A b \in Conns : b # c => /\ client'[b] = client[b]
                                  /\ request'[b] = request[b]
                                  /\ input'[b] = input[b]
    BY <2>1
  <2>4. \A u \in Conns : tpc[u] \in {"payload", "reply"} => tsock[u] \in Conns /\ tsock[u] # c
    BY <2>2, StartedHasConnection
  <2> QED
    BY <2>1, <2>2, <2>3, <2>4
<1>2. CASE Connect(c) \/ HangUp(c) \/ SeeClose(c)
  <2>1. /\ UNCHANGED <<tpc, tsock, garbled, replies, reused, input, request>>
        /\ \A b \in Conns : client[b] \notin {"idle", "connected"} =>
                              client'[b] \notin {"idle", "connected"}
    BY <1>2 DEF Connect, HangUp, SeeClose
  <2>2. \A u \in Conns : tpc[u] \in {"payload", "reply"} => tsock[u] \in Conns
    BY StartedHasConnection
  <2> QED
    BY <2>1, <2>2
<1> QED
  BY <1>1, <1>2 DEF Client

(* Requests are sent once, and each is answered by one thread at most. *)
LEMMA NextAnswering ==
    ASSUME TypeOK, Listening, Answering, [Next]_vars
    PROVE  Answering'
<1>1. ClientControl'
  BY NextClientControl DEF Answering
<1>2. ReplyControl' /\ AnsweredOnce'
  <2> SUFFICES ASSUME ~reused' PROVE ReplyControl' /\ AnsweredOnce'
    BY DEF ReplyControl, AnsweredOnce
  <2>1. ~reused
    BY ReusedStays
  <2> DEFINE Kept == /\ UNCHANGED <<tsock, replies, input, request, client>>
                     /\ \A t \in Conns : garbled'[t] <=> garbled[t]
  <2>2. ASSUME Kept, UNCHANGED tpc
        PROVE  ReplyControl' /\ AnsweredOnce'
    BY <2>1, <2>2 DEF Answering, ReplyControl, AnsweredOnce, HoldsRequest, Strays, HeaderTaken
  <2>3. CASE Accept
    <3>1. PICK d \in {0} \cup {c \in Conns : deletes[c] > 0} :
               /\ tsock' = [t \in Conns |-> IF t \in Keepers(d)
                                            THEN accepted + 1 ELSE tsock[t]]
               /\ garbled' = [t \in Conns |-> garbled[t] \/
                                 (t \in Keepers(d) /\ tpc[t] = "payload")]
               /\ reused' = (reused \/ Keepers(d) # {})
      BY <2>3, AcceptChanges, Zenon
    <3>2. \A t \in Conns : t \notin Keepers(d)
      BY <3>1
    <3>3. /\ tsock' = [t \in Conns |-> tsock[t]]
          /\ \A t \in Conns : garbled'[t] <=> garbled[t]
      BY <3>1, <3>2, Zenon
    <3>4. tsock' = tsock
      BY <3>3 DEF TypeOK
    <3> QED
      BY <2>2, <2>3, <3>3, <3>4, AcceptChanges
  <2>4. CASE AcceptThrows \/ FillParams
    BY <2>2, <2>4 DEF AcceptThrows, FillParams, threadVars, clientVars
  <2>5. CASE Begin
    <3>1. Kept /\ tpc' = [tpc EXCEPT ![accepted] = "born"]
      BY <2>5 DEF Begin, clientVars
    <3>2. tpc[accepted] = "none"
      BY <2>5 DEF Begin, Listening, ListenerControl
    <3> QED
      BY <2>1, <3>1, <3>2
      DEF Answering, ReplyControl, AnsweredOnce, HoldsRequest, Strays, HeaderTaken, TypeOK
  <2>6. CASE StartUp
    BY <2>2, <2>6, StartUpChanges
  <2>7. CASE UNCHANGED vars
    BY <2>2, <2>7 DEF vars, threadVars, clientVars
  <2> QED
    BY <2>1, <2>3, <2>4, <2>5, <2>6, <2>7, ThreadAnswering, ClientAnswering
    DEF Next, Listener
<1> QED
  BY <1>1, <1>2 DEF Answering

------------------------------------------------------------------------------
(* What holds while no thread has lost the race for threadParams. *)

Apart == Undisturbed /\ NoRaceNoMixup /\ QueryNotAbandoned

(* The same for a single connection and its thread. *)
ApartAt(c) ==
    /\ tpc[c] = "born" => slot = c
    /\ tpc[c] \in {"none", "born", "header"} => input[c] # <<"payload">>
    /\ client[c] \in {"idle", "connected"} =>
         tpc[c] \in {"none", "born", "header"}
    /\ deletes[c] \in {0, 1} /\ (deletes[c] > 0 => tpc[c] = "done")
    /\ alive /\ c <= accepted /\ tpc[c] # "done" => conn[c] = "open"
    /\ tpc[c] \notin {"none", "born"} => tsock[c] = c
    /\ ~garbled[c]
    /\ alive /\ tpc[c] = "done" /\ conn[c] = "open" =>
         request[c] # "query" \/ PeerLeft(c)

(* Apart says ApartAt of every connection. *)
LEMMA ApartEverywhere ==
    ASSUME TypeOK, ~raced
    PROVE  Apart <=> \A c \in Conns : ApartAt(c)
<1>1. ASSUME Apart, NEW c \in Conns PROVE ApartAt(c)
  <2>1. deletes[c] \in Nat
    BY DEF TypeOK
  <2> QED
    BY <1>1, <2>1
    DEF Apart, Undisturbed, NoRaceNoMixup, QueryNotAbandoned, ApartAt, Started
<1>2. ASSUME \A c \in Conns : ApartAt(c) PROVE Apart
  BY <1>2
  DEF Apart, Undisturbed, NoRaceNoMixup, QueryNotAbandoned, ApartAt, Started
<1> QED
  BY <1>1, <1>2

(* A step that has nothing to do with connection c. *)
LeftAlone(c) ==
    /\ alive' => alive /\ conn'[c] = conn[c]
    /\ accepted' = accepted /\ slot' = slot
    /\ tpc'[c] = tpc[c] /\ tsock'[c] = tsock[c] /\ garbled'[c] = garbled[c]
    /\ deletes'[c] = deletes[c] /\ input'[c] = input[c]
    /\ client'[c] = client[c] /\ request'[c] = request[c]

(* Such a step changes nothing of what ApartAt says of c. *)
LEMMA LeftAloneStaysApart ==
    ASSUME NEW c \in Conns, ApartAt(c), LeftAlone(c)
    PROVE  ApartAt(c)'
BY DEF ApartAt, LeftAlone, PeerLeft

(* Once lost, the race is never undone. *)
LEMMA RacedStays ==
    ASSUME [Next]_vars, ~raced'
    PROVE  ~raced
BY DEF Next, Listener, Accept, AcceptThrows, FillParams, Begin, Thread, Client,
       ReadParams, RecvHeader, RecvPayload, RecvEof, RecvThrows, Reply,
       ReplyKilled, UseDeleted, Delete, Connect, SendRequest, HangUp, SeeClose,
       listenerVars, vars, StartUp, Main, SetLocalPort, SetListen, Reaches,
       StartFails

(* A step of the listener either leaves a connection alone or is about one *)
(* that has just been accepted.                                            *)
LEMMA ListenerApart ==
    ASSUME TypeOK, Listening, Answering, \A c \in Conns : ApartAt(c),
           Listener, ~raced', NEW c \in Conns
    PROVE  ApartAt(c)'
<1> USE DEF ApartAt, PeerLeft
<1>1. CASE Accept
  <2>1. PICK d \in {0} \cup {b \in Conns : deletes[b] > 0} :
             /\ slot' = IF slot = d /\ d # 0 THEN accepted + 1 ELSE slot
             /\ tsock' = [t \in Conns |-> IF t \in Keepers(d)
                                          THEN accepted + 1 ELSE tsock[t]]
             /\ garbled' = [t \in Conns |-> garbled[t] \/
                               (t \in Keepers(d) /\ tpc[t] = "payload")]
    BY <1>1, AcceptChanges, Zenon
  <2>2. \A t \in Conns : t \notin Keepers(d)
    <3> SUFFICES ASSUME NEW t \in Conns, tsock[t] = d, Working(t)
                 PROVE  FALSE
      BY DEF Keepers
    <3>1. tsock[t] = t /\ tpc[t] # "done"
      BY DEF Working
    <3>2. d \in Conns /\ deletes[d] > 0
      BY <2>1, <3>1 DEF Conns
    <3> QED
      BY <3>1, <3>2
  <2>3. /\ tsock' = [t \in Conns |-> tsock[t]]
        /\ \A t \in Conns : garbled'[t] <=> garbled[t]
    BY <2>1, <2>2, Zenon
  <2>4. tpc[c] = "born" => slot' = slot
    BY <2>1 DEF TypeOK
  <2>5. /\ accepted < N /\ accepted' = accepted + 1
        /\ conn' = [conn EXCEPT ![accepted + 1] = "open"]
        /\ UNCHANGED <<alive, raced, tpc, deletes, input, request, client>>
    BY <1>1, AcceptChanges
  <2>6. tpc[c] # "none" => c <= accepted
    BY DEF Listening, ListenerControl
  <2> HIDE DEF ApartAt
  <2>7. ApartAt(c)
    OBVIOUS
  <2> USE DEF ApartAt
  <2>8. CASE c = accepted + 1
    <3>1. tpc[c] = "none"
      BY <2>6, <2>8 DEF TypeOK
    <3> QED
      BY <2>3, <2>5, <2>7, <2>8, <3>1 DEF TypeOK
  <2>9. CASE c # accepted + 1
    BY <2>3, <2>4, <2>5, <2>7, <2>9 DEF TypeOK, Conns
  <2> QED
    BY <2>8, <2>9
<1>2. CASE AcceptThrows
  BY <1>2 DEF AcceptThrows, ProcessEnds, listenerVars, threadVars, clientVars
<1>3. CASE FillParams
  BY <1>3 DEF FillParams, threadVars, clientVars
<1>4. CASE Begin
  BY <1>4 DEF Begin, clientVars, Listening, ListenerControl, TypeOK
<1>5. CASE StartUp
  <2>1. \/ alive' = alive /\ conn' = conn
        \/ alive' = FALSE
    BY <1>5, StartUpChanges DEF ProcessEnds
  <2>2. UNCHANGED <<tpc, tsock, slot, accepted, deletes, garbled, input, client, request>>
    BY <1>5, StartUpChanges
  <2>3. PeerLeft(c)' <=> PeerLeft(c)
    BY <2>2
  <2> QED
    BY <2>1, <2>2, <2>3
<1> QED
  BY <1>1, <1>2, <1>3, <1>4, <1>5 DEF Listener

(* A step of a thread that runs on its own connection. *)
LEMMA ThreadApart ==
    ASSUME TypeOK, Listening, Answering, \A c \in Conns : ApartAt(c),
           NEW t \in Conns, Thread(t), NEW c \in Conns
    PROVE  ApartAt(c)'
<1>1. ApartAt(t) /\ ApartAt(c) /\ alive
  BY DEF Thread
<1>2. CASE ReadParams(t)
  <2>1. slot = t
    BY <1>1, <1>2 DEF ApartAt, ReadParams
  <2>2. c # t => LeftAlone(c)
    BY <1>2 DEF ReadParams, LeftAlone, Goto, TypeOK, listenerVars, clientVars
  <2>3. ApartAt(t)'
    BY <1>1, <1>2, <2>1
    DEF ReadParams, ApartAt, PeerLeft, Goto, TypeOK, listenerVars, clientVars
  <2> QED
    BY <1>1, <2>2, <2>3, LeftAloneStaysApart
<1>3. CASE ~ReadParams(t)
  <2>1. tpc[t] \notin {"none", "born"}
    BY <1>3 DEF Thread, RecvHeader, RecvPayload, RecvEof, RecvThrows, Reply,
                ReplyKilled, UseDeleted, Delete
  <2>2. tsock[t] = t /\ ~garbled[t] /\ t <= accepted
    BY <1>1, <2>1 DEF ApartAt, Listening, ListenerControl
  <2>3. input[t] # <<>> => client[t] \notin {"idle", "connected"}
    BY DEF Answering, ClientControl
  <2>4. c # t => LeftAlone(c)
    <3> USE <2>2 DEF LeftAlone, Goto, TypeOK, listenerVars, threadVars, clientVars
    <3>1. CASE RecvHeader(t)
      BY <3>1 DEF RecvHeader
    <3>2. CASE RecvPayload(t)
      BY <3>2 DEF RecvPayload
    <3>3. CASE RecvEof(t) \/ RecvThrows(t) \/ UseDeleted(t)
      BY <3>3 DEF RecvEof, RecvThrows, UseDeleted
    <3>4. CASE Reply(t)
      BY <3>4 DEF Reply, Answers
    <3>5. CASE ReplyKilled(t)
      BY <3>5 DEF ReplyKilled, ProcessEnds
    <3>6. CASE Delete(t)
      BY <3>6 DEF Delete, ProcessEnds
    <3> QED
      BY <1>3, <3>1, <3>2, <3>3, <3>4, <3>5, <3>6 DEF Thread
  <2>5. ApartAt(t)'
    <3> USE <1>1, <2>2, <2>3 DEF ApartAt, PeerLeft, Goto, TypeOK, listenerVars,
                                 clientVars
    <3>1. CASE RecvHeader(t)
      <4>1. Head(input[t]) = "header"
        BY <3>1, HeadOfRequest DEF RecvHeader, Left
      <4>2. /\ tpc[t] = "header" /\ tpc' = [tpc EXCEPT ![t] = "payload"]
            /\ input' = [input EXCEPT ![t] = Tail(@)]
            /\ input[t] # <<>>
            /\ UNCHANGED <<alive, accepted, slot, raced, tsock, garbled, conn,
                          deletes, request, client>>
        BY <3>1, <4>1 DEF RecvHeader, listenerVars
      <4> QED
        BY <4>2
    <3>2. CASE RecvPayload(t)
      BY <3>2 DEF RecvPayload
    <3>3. CASE RecvEof(t) \/ RecvThrows(t)
      <4>1. /\ tpc[t] \in {"header", "payload"}
            /\ PeerLeft(t)
            /\ tpc' \in {[tpc EXCEPT ![t] = "done"], [tpc EXCEPT ![t] = "delete"]}
            /\ UNCHANGED <<alive, accepted, slot, tsock, garbled, conn, deletes,
                          input, request, client>>
        BY <3>3 DEF RecvEof, RecvThrows
      <4>2. client[t] \notin {"idle", "connected"} /\ deletes[t] = 0
        BY <4>1
      <4>3. tpc'[t] \in {"done", "delete"}
        BY <4>1
      <4> QED
        BY <4>1, <4>2, <4>3
    <3>4. CASE Reply(t)
      BY <3>4 DEF Reply, Answers
    <3>5. CASE ReplyKilled(t)
      BY <3>5 DEF ReplyKilled, ProcessEnds, threadVars
    <3>6. CASE UseDeleted(t)
      <4>1. Usable(t)
        BY <3>6 DEF UseDeleted, Usable
      <4> QED
        BY <3>6, <4>1 DEF UseDeleted
    <3>7. CASE Delete(t)
      <4>1. deletes[t] = 0
        BY <3>7 DEF Delete
      <4> QED
        BY <3>7, <4>1 DEF Delete
    <3> QED
      BY <1>3, <3>1, <3>2, <3>3, <3>4, <3>5, <3>6, <3>7 DEF Thread
  <2> QED
    BY <1>1, <2>4, <2>5, LeftAloneStaysApart
<1> QED
  BY <1>2, <1>3

(* A step of a client: it sends its request before any thread of the server *)
(* can be past the header of it.                                            *)
LEMMA ClientApart ==
    ASSUME TypeOK, \A c \in Conns : ApartAt(c),
           NEW b \in Conns, Client(b), NEW c \in Conns
    PROVE  ApartAt(c)'
<1>1. ApartAt(c)
  OBVIOUS
<1> USE DEF TypeOK, listenerVars, threadVars
<1>2. CASE SendRequest(b)
  <2>1. /\ client[b] = "connected"
        /\ \E s \in {"waiting", "answered"} : client' = [client EXCEPT ![b] = s]
        /\ \E r \in Requests : request' = [request EXCEPT ![b] = r]
        /\ \E s \in {<<"header">>, <<"header", "payload">>} :
             s # <<"payload">> /\ input' = [input EXCEPT ![b] = s]
        /\ UNCHANGED <<alive, accepted, slot, tpc, tsock, garbled, conn, deletes>>
    BY <1>2 DEF SendRequest
  <2>2. CASE c = b
    BY <1>1, <2>1, <2>2 DEF ApartAt, PeerLeft
  <2>3. CASE c # b
    BY <1>1, <2>1, <2>3, LeftAloneStaysApart DEF LeftAlone
  <2> QED
    BY <2>2, <2>3
<1>3. CASE HangUp(b) \/ SeeClose(b)
  BY <1>1, <1>3 DEF HangUp, SeeClose, ApartAt, PeerLeft
<1>4. CASE Connect(b)
  BY <1>1, <1>4 DEF Connect, ApartAt, PeerLeft
<1> QED
  BY <1>2, <1>3, <1>4 DEF Client

(* Each thread reads, answers and deletes its own connection only, and lets *)
(* go of it.                                                                *)
LEMMA NextApart ==
    ASSUME TypeOK, Listening, Answering, Apart, [Next]_vars
    PROVE  Apart'
<1> SUFFICES ASSUME ~raced'
             PROVE  Apart'
  BY DEF Apart, Undisturbed, NoRaceNoMixup, QueryNotAbandoned
<1>1. ~raced /\ TypeOK'
  BY RacedStays, NextType
<1>2. \A c \in Conns : ApartAt(c)
  BY <1>1, ApartEverywhere
<1>3. ASSUME NEW c \in Conns PROVE ApartAt(c)'
  <2>1. CASE Listener
    BY <1>2, <2>1, ListenerApart
  <2>2. CASE \E t \in Conns : Thread(t)
    BY <1>2, <2>2, ThreadApart
  <2>3. CASE \E b \in Conns : Client(b)
    BY <1>2, <2>3, ClientApart
  <2>4. CASE UNCHANGED vars
    <3>1. LeftAlone(c)
      BY <2>4 DEF LeftAlone, vars, listenerVars, threadVars, clientVars
    <3> QED
      BY <1>2, <3>1, LeftAloneStaysApart
  <2> QED
    BY <2>1, <2>2, <2>3, <2>4 DEF Next
<1>4. (\A c \in Conns : ApartAt(c))' => Apart'
  BY DEF Apart, Undisturbed, NoRaceNoMixup, QueryNotAbandoned, ApartAt, Started,
         PeerLeft
<1> QED
  BY <1>3, <1>4

------------------------------------------------------------------------------
(* The invariant holds in every state of every behaviour of the server,    *)
(* however many connections and descriptors there are.                     *)
THEOREM Invariance == Spec => []IInv
<1>1. Init => IInv
  <2> SUFFICES ASSUME Init PROVE IInv
    OBVIOUS
  <2>1. TypeOK
    BY InitType
  <2>2. TakesOwnOrLater /\ ListenerControl
    BY DEF Init, TakesOwnOrLater, ListenerControl, Started
  <2>3. AnsweredOnce /\ ClientControl /\ ReplyControl
    BY DEF Init, AnsweredOnce, ClientControl, ReplyControl, HoldsRequest, Strays
  <2>4. NoRaceNoMixup /\ QueryNotAbandoned /\ Undisturbed
    BY DEF Init, NoRaceNoMixup, QueryNotAbandoned, Undisturbed, Started, Conns
  <2> QED
    BY <2>1, <2>2, <2>3, <2>4 DEF IInv
<1>2. IInv /\ [Next]_vars => IInv'
  BY NextType, NextListening, NextAnswering, NextApart
  DEF IInv, Listening, Answering, Apart
<1> QED
  BY <1>1, <1>2, PTL DEF Spec

(* A thread takes its own connection or a later one (executeThread reads    *)
(* threadParams, which Listen only ever fills with later connections).      *)
THEOREM OwnOrLater == Spec => []TakesOwnOrLater
<1>1. IInv => TakesOwnOrLater
  BY DEF IInv
<1> QED
  BY <1>1, Invariance, PTL

(* While no thread has lost the race, no two threads share a connection and *)
(* none is deleted twice (executeTask).                                     *)
THEOREM MixupNeedsRace == Spec => []NoRaceNoMixup
<1>1. IInv => NoRaceNoMixup
  BY DEF IInv
<1> QED
  BY <1>1, Invariance, PTL

(* Two threads on one connection do not both answer it (nothing in Reply    *)
(* keeps them from it): as long as no thread is left with a deleted socket  *)
(* whose memory a later connection got, a request is answered at most once, *)
(* and only when it is a query, because the header is read once and the     *)
(* checks of executeTask, lines 133 to 150, are passed by whoever has read  *)
(* it.                                                                      *)
THEOREM OneAnswer == Spec => []AnsweredOnce
<1>1. IInv => AnsweredOnce
  BY DEF IInv
<1> QED
  BY <1>1, Invariance, PTL

(* While no thread has lost the race, no query is dropped with its         *)
(* connection left open: every early return of executeTask is about a      *)
(* request that is no query, or a client that has gone.                    *)
THEOREM NoQueryAbandoned == Spec => []QueryNotAbandoned
<1>1. IInv => QueryNotAbandoned
  BY DEF IInv
<1> QED
  BY <1>1, Invariance, PTL

==============================================================================
