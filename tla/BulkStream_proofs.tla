--------------------------- MODULE BulkStream_proofs ---------------------------
(***************************************************************************)
(* Proofs that the bulk stream keeps the rows of an answer in order and    *)
(* complete, for result sets, row lengths and limits of every size.        *)
(***************************************************************************)
EXTENDS BulkStream, SequenceTheorems, TLAPS

USE MaxRowsAssumption, MaxRowLenAssumption, LimitAssumption,
    DefaultTypeAssumption

(* The cleared message is a message. *)
LEMMA ClearedIsRespond == Cleared \in Respond
BY DEF Cleared, Respond

(* What the client prints of a message are rows. *)
LEMMA RowsPrintedType ==
    ASSUME NEW msg \in Respond
    PROVE  RowsPrinted(msg) \in Seq(Rows)
<1>1. msg.rows \in Seq(Rows) /\ msg.size \in Nat
  BY DEF Respond
<1>2. \A n \in 0..Len(msg.rows) : SubSeq(msg.rows, 1, n) \in Seq(Rows)
  BY <1>1, SubSeqProperties
<1>3. Len(msg.rows) \in Nat
  BY <1>1
<1> QED
  BY <1>1, <1>2, <1>3 DEF RowsPrinted

(* A message under construction stays a message when a row is appended, it *)
(* is finalized, or an exception turns it into a FAILURE status.           *)
LEMMA RespondType ==
    ASSUME NEW msg \in Respond, NEW r \in Rows, NEW n \in Nat
    PROVE  /\ [msg EXCEPT !.rows = Append(@, r)] \in Respond
           /\ finalizeStream(msg, n) \in Respond
           /\ [msg EXCEPT !.type = "STATUS", !.failure = TRUE] \in Respond
<1>1. msg.rows \in Seq(Rows)
  BY DEF Respond
<1>2. Append(msg.rows, r) \in Seq(Rows)
  BY <1>1, AppendProperties
<1>3. [msg EXCEPT !.rows = Append(@, r)] \in Respond
  BY <1>2 DEF Respond
<1>4. finalizeStream(msg, n) \in Respond
  BY DEF Respond, finalizeStream
<1>5. [msg EXCEPT !.type = "STATUS", !.failure = TRUE] \in Respond
  BY DEF Respond
<1> QED
  BY <1>3, <1>4, <1>5

(* The first package under way, and what remains, are packages. *)
LEMMA ChannelHead ==
    ASSUME NEW ch \in Seq(Package), ch # <<>>
    PROVE  /\ Head(ch) \in Package
           /\ Tail(ch) \in Seq(Package)
           /\ Head(ch) = ch[1]
           /\ Len(ch) \in Nat \ {0}
           /\ Len(Tail(ch)) = Len(ch) - 1
           /\ \A i \in 1..Len(Tail(ch)) : Tail(ch)[i] = ch[i + 1]
BY HeadTailProperties, EmptySeq

------------------------------------------------------------------------------
(* Type correctness is inductive by itself: it holds at first, ... *)
LEMMA InitType == Init => TypeOK
<1> SUFFICES ASSUME Init PROVE TypeOK
  OBVIOUS
<1>1. /\ channel \in Seq(Package)
      /\ received \in Seq(Rows)
      /\ shown \in Seq(Rows)
  BY EmptySeq DEF Init
<1>2. totalBulkSz \in 0 .. MAX_TRX_BUFFER_SZ - 1 + MaxRowLen
  BY DEF Init
<1>3. count \in 0..total
  BY DEF Init
<1> QED
  BY <1>1, <1>2, <1>3, ClearedIsRespond DEF Init, TypeOK

(* ... and every step of the stream keeps it. *)
LEMMA NextType == TypeOK /\ [Next]_vars => TypeOK'
<1> SUFFICES ASSUME TypeOK, [Next]_vars
             PROVE  TypeOK'
  OBVIOUS
<1> USE DEF TypeOK
<1>1. CASE ExecuteToNull
  BY <1>1, ClearedIsRespond
  DEF ExecuteToNull, Cleared, Respond, query, clientVars
<1>2. CASE ExecuteToSet
  <2>1. protobufRespond' \in Respond
    <3>1. total \in Nat
      OBVIOUS
    <3>2. [Cleared EXCEPT !.type = "RESULT", !.rowscount = total] \in Respond
      BY <3>1, ClearedIsRespond DEF Respond
    <3> QED
      BY <1>2, <3>2 DEF ExecuteToSet
  <2> QED
    BY <1>2, <2>1 DEF ExecuteToSet, query, clientVars
<1>3. CASE ExecuteThrows \/ RowThrows \/ SendThrows
  <2>1. protobufRespond' = [protobufRespond EXCEPT !.type = "STATUS",
                                                   !.failure = TRUE]
    BY <1>3 DEF ExecuteThrows, RowThrows, SendThrows, CatchException
  <2>2. protobufRespond' \in Respond
    BY <2>1 DEF Respond
  <2> QED
    BY <1>3, <2>2
    DEF ExecuteThrows, RowThrows, SendThrows, CatchException, query, clientVars
<1>4. CASE AddRow
  <2>1. count \in Nat /\ total \in Nat /\ count + 1 \in 1..total
    <3>1. count # total
      BY <1>4 DEF AddRow, isEndOfSet
    <3>2. count \in 0..total /\ total \in 0..MaxRows
      OBVIOUS
    <3> HIDE DEF TypeOK
    <3> QED
      BY <3>1, <3>2, MaxRowsAssumption
  <2>2. rowLen[count + 1] \in 0..MaxRowLen
    BY <2>1
  <2>3. protobufRespond' \in Respond
    <3>1. count + 1 \in Rows
      BY <2>1 DEF Rows
    <3> QED
      BY <1>4, <3>1, RespondType DEF AddRow
  <2>4. totalBulkSz' \in 0 .. MAX_TRX_BUFFER_SZ - 1 + MaxRowLen
    <3>1. totalBulkSz \in Nat
      BY MaxRowLenAssumption, LimitAssumption
    <3> HIDE DEF TypeOK
    <3>2. totalBulkSz' = totalBulkSz + rowLen[count + 1]
      BY <1>4 DEF AddRow
    <3>3. ~(totalBulkSz >= MAX_TRX_BUFFER_SZ)
      BY <1>4 DEF AddRow, BulkFull
    <3> QED
      BY <2>2, <3>1, <3>2, <3>3, MaxRowLenAssumption, LimitAssumption
  <2>5. count' \in 0..total
    <3> HIDE DEF TypeOK
    <3>1. count' = count + 1
      BY <1>4 DEF AddRow
    <3> QED
      BY <2>1, <3>1
  <2> QED
    BY <1>4, <2>3, <2>4, <2>5 DEF AddRow, query, clientVars
<1>5. CASE EndBulk
  <2>1. protobufRespond' \in Respond
    <3>1. CASE isEndOfSet
      <4>1. count \in Nat
        OBVIOUS
      <4>2. finalizeStream(protobufRespond, count) \in Respond
        BY <4>1 DEF finalizeStream, Respond
      <4> QED
        BY <1>5, <3>1, <4>2 DEF EndBulk
    <3>2. CASE ~isEndOfSet
      BY <1>5, <3>2 DEF EndBulk
    <3> QED
      BY <3>1, <3>2
  <2> QED
    BY <1>5, <2>1 DEF EndBulk, query, clientVars
<1>6. CASE sendBulk
  <2>1. [msg |-> protobufRespond, cont |-> cont] \in Package
    BY DEF Package
  <2>2. channel' \in Seq(Package)
    BY <1>6, <2>1 DEF sendBulk
  <2>3. protobufRespond' \in Respond
    BY <1>6, ClearedIsRespond DEF sendBulk
  <2>4. totalBulkSz' \in 0 .. MAX_TRX_BUFFER_SZ - 1 + MaxRowLen
    BY <1>6 DEF sendBulk
  <2> QED
    BY <1>6, <2>2, <2>3, <2>4 DEF sendBulk, query, clientVars
<1>7. CASE SendKilled \/ Cleanup
  BY <1>7 DEF SendKilled, Cleanup, query, clientVars
<1>8. CASE RecvBulk
  <2>1. /\ Head(channel).msg \in Respond
        /\ channel' \in Seq(Package)
    BY <1>8, ChannelHead DEF RecvBulk, Package
  <2>2. Head(channel).msg.rows \in Seq(Rows)
    BY <2>1 DEF Respond
  <2>3. received' \in Seq(Rows)
    BY <1>8, <2>2, ConcatProperties DEF RecvBulk, consume
  <2>4. shown' \in Seq(Rows)
    BY <1>8, <2>1, RowsPrintedType, ConcatProperties DEF RecvBulk, consume
  <2>5. overrun' \in BOOLEAN /\ bulks' \in Nat
    BY <1>8 DEF RecvBulk, consume
  <2>6. cpc' \in {"recv", "complete", "eof", "failed"}
    BY <1>8 DEF RecvBulk
  <2> QED
    BY <1>8, <2>1, <2>3, <2>4, <2>5, <2>6 DEF RecvBulk, query, serverVars
<1>9. CASE RecvEof \/ RecvThrows
  BY <1>9 DEF RecvEof, RecvThrows, query, serverVars
<1>10. CASE UNCHANGED vars
  BY <1>10 DEF vars, query, serverVars, clientVars
<1> QED
  BY <1>1, <1>2, <1>3, <1>4, <1>5, <1>6, <1>7, <1>8, <1>9, <1>10
  DEF Next, Server, Client, Execute, Fill, Send, Finished

(* Every variable of the stream keeps its type; in particular a bulk never *)
(* holds MAX_TRX_BUFFER_SZ + MaxRowLen bytes of rows (handleProtoBuffSend  *)
(* stops adding rows at the limit).                                        *)
THEOREM TypeCorrect == Spec => []TypeOK
BY InitType, NextType, PTL DEF Spec

------------------------------------------------------------------------------
(* Facts about stretches of rows and chains of packages. *)

(* Appending the next row makes a longer stretch. *)
LEMMA StretchAppend ==
    ASSUME NEW s \in Seq(Nat), NEW b \in Nat, NEW r \in Nat,
           Stretch(s, b), r = b + Len(s) + 1
    PROVE  Len(Append(s, r)) = Len(s) + 1 /\ Stretch(Append(s, r), b)
<1>1. Len(s) \in Nat
  OBVIOUS
<1>2. /\ Len(Append(s, r)) = Len(s) + 1
      /\ \A i \in 1..Len(s) : Append(s, r)[i] = s[i]
      /\ Append(s, r)[Len(s) + 1] = r
  BY AppendProperties
<1>3. ASSUME NEW i \in 1..Len(s) + 1
      PROVE  Append(s, r)[i] = b + i
  <2>1. CASE i \in 1..Len(s)
    BY <1>2, <2>1 DEF Stretch
  <2>2. CASE i = Len(s) + 1
    BY <1>1, <1>2, <2>2
  <2> QED
    BY <1>1, <2>1, <2>2
<1> QED
  BY <1>2, <1>3 DEF Stretch

(* Two adjacent stretches make one. *)
LEMMA StretchConcat ==
    ASSUME NEW s \in Seq(Nat), NEW t \in Seq(Nat), NEW b \in Nat,
           Stretch(s, b), Stretch(t, b + Len(s))
    PROVE  Len(s \o t) = Len(s) + Len(t) /\ Stretch(s \o t, b)
<1>1. Len(s) \in Nat /\ Len(t) \in Nat
  OBVIOUS
<1>2. /\ Len(s \o t) = Len(s) + Len(t)
      /\ \A i \in 1..Len(s) + Len(t) :
           (s \o t)[i] = IF i <= Len(s) THEN s[i] ELSE t[i - Len(s)]
  BY ConcatProperties
<1>3. ASSUME NEW i \in 1..Len(s) + Len(t)
      PROVE  (s \o t)[i] = b + i
  <2>1. CASE i <= Len(s)
    <3>1. i \in 1..Len(s)
      BY <1>1, <2>1
    <3> QED
      BY <1>2, <2>1, <3>1 DEF Stretch
  <2>2. CASE ~(i <= Len(s))
    <3>1. i - Len(s) \in 1..Len(t)
      BY <1>1, <2>2
    <3>2. t[i - Len(s)] = (b + Len(s)) + (i - Len(s))
      BY <3>1 DEF Stretch
    <3> QED
      BY <1>1, <1>2, <2>2, <3>2
  <2> QED
    BY <2>1, <2>2
<1> QED
  BY <1>2, <1>3 DEF Stretch

(* A package with the next stretch of rows makes a longer chain. *)
LEMMA ChainAppend ==
    ASSUME NEW ch \in Seq(Package), NEW p \in Package,
           NEW a \in Nat, NEW b \in Nat,
           Chain(ch, a, b), Stretch(p.msg.rows, b)
    PROVE  Chain(Append(ch, p), a, b + Len(p.msg.rows))
<1> DEFINE n == Len(ch)
           sz == Len(p.msg.rows)
           ch2 == Append(ch, p)
<1>1. n \in Nat /\ sz \in Nat
  BY DEF Package, Respond
<1>2. /\ Len(ch2) = n + 1
      /\ \A k \in 1..n : ch2[k] = ch[k]
      /\ ch2[n + 1] = p
  BY AppendProperties
<1>3. PICK cut \in [0..n -> 0..b] : Chain(ch, a, b)!(cut)
  BY DEF Chain
<1> DEFINE cut2 == [k \in 0..n + 1 |-> IF k = n + 1 THEN b + sz ELSE cut[k]]
<1>4. cut2 \in [0..n + 1 -> 0..b + sz]
  BY <1>1, <1>3
<1>5. cut2[n + 1] = b + sz /\ \A k \in 0..n : cut2[k] = cut[k]
  BY <1>1
<1>6. cut2[0] = a /\ cut2[n] = b
  BY <1>1, <1>3, <1>5
<1> HIDE DEF cut2, ch2, sz, n
<1>7. ASSUME NEW k \in 1..n + 1
      PROVE  /\ Len(ch2[k].msg.rows) = cut2[k] - cut2[k - 1]
             /\ Stretch(ch2[k].msg.rows, cut2[k - 1])
  <2>1. CASE k \in 1..n
    <3>1. k \in 0..n /\ k - 1 \in 0..n
      BY <1>1, <2>1
    <3>2. cut2[k] = cut[k] /\ cut2[k - 1] = cut[k - 1] /\ ch2[k] = ch[k]
      BY <1>2, <1>5, <2>1, <3>1
    <3> QED
      BY <1>3, <2>1, <3>2 DEF n
  <2>2. CASE k = n + 1
    <3>1. k - 1 = n
      BY <1>1, <2>2
    <3>2. ch2[k] = p /\ cut2[k - 1] = b /\ cut2[k] = b + sz
      BY <1>2, <1>5, <1>6, <2>2, <3>1, Zenon
    <3>3. cut2[k] - cut2[k - 1] = sz
      BY <1>1, <3>2
    <3>4. Len(ch2[k].msg.rows) = sz
      BY <3>2 DEF sz
    <3>5. Stretch(ch2[k].msg.rows, cut2[k - 1])
      BY <3>2, Zenon
    <3> QED
      BY <3>3, <3>4, <3>5
  <2> QED
    BY <1>1, <2>1, <2>2
<1>8. cut2 \in [0..Len(ch2) -> 0..b + sz]
  BY <1>2, <1>4
<1>9. Chain(ch2, a, b + sz)!(cut2)
  BY <1>1, <1>2, <1>5, <1>6, <1>7
<1> QED
  BY <1>8, <1>9 DEF Chain, ch2, sz

(* Without its first package a chain begins where that package ends. *)
LEMMA ChainTail ==
    ASSUME NEW ch \in Seq(Package), ch # <<>>,
           NEW a \in Nat, NEW c \in Nat, Chain(ch, a, c)
    PROVE  LET rows == Head(ch).msg.rows
               b == a + Len(rows)
           IN /\ Stretch(rows, a)
              /\ b \in 0..c
              /\ Chain(Tail(ch), b, c)
              /\ Tail(ch) = <<>> => b = c
<1> DEFINE n == Len(ch)
           rows == Head(ch).msg.rows
           b == a + Len(rows)
           ch2 == Tail(ch)
<1>1. /\ Head(ch) = ch[1] /\ n \in Nat \ {0}
      /\ Len(ch2) = n - 1
      /\ \A k \in 1..n - 1 : ch2[k] = ch[k + 1]
  BY ChannelHead
<1>2. PICK cut \in [0..n -> 0..c] : Chain(ch, a, c)!(cut)
  BY DEF Chain
<1>3. 1 \in 1..n /\ 1 - 1 = 0
  BY <1>1
<1>4. Len(rows) = cut[1] - cut[0] /\ Stretch(rows, cut[0])
  BY <1>1, <1>2, <1>3
<1>5. cut[0] = a /\ cut[n] = c /\ cut[1] \in 0..c
  BY <1>1, <1>2
<1>6. b = cut[1]
  BY <1>4, <1>5, SMTT(30)
<1> DEFINE cut2 == [k \in 0..n - 1 |-> cut[k + 1]]
<1>7. cut2 \in [0..n - 1 -> 0..c]
  <2>1. n \in Nat \ {0} /\ cut \in [0..n -> 0..c]
    BY <1>1, <1>2
  <2> HIDE DEF n
  <2>2. ASSUME NEW k \in 0..n - 1 PROVE cut[k + 1] \in 0..c
    <3>1. k + 1 \in 0..n
      BY <2>1
    <3> QED
      BY <2>1, <3>1
  <2> QED
    BY <2>2, Zenon
<1>8. cut2[0] = b /\ cut2[n - 1] = c
  BY <1>1, <1>5, <1>6
<1>9. ASSUME NEW k \in 1..n - 1
      PROVE  cut2[k] = cut[k + 1] /\ cut2[k - 1] = cut[(k + 1) - 1]
  BY <1>1
<1> HIDE DEF cut2, ch2, n, b
<1>10. ASSUME NEW k \in 1..n - 1
       PROVE  /\ Len(ch2[k].msg.rows) = cut2[k] - cut2[k - 1]
              /\ Stretch(ch2[k].msg.rows, cut2[k - 1])
  <2>1. k + 1 \in 1..Len(ch)
    BY <1>1 DEF n
  <2>2. /\ Len(ch[k + 1].msg.rows) = cut[k + 1] - cut[(k + 1) - 1]
        /\ Stretch(ch[k + 1].msg.rows, cut[(k + 1) - 1])
    BY <1>2, <2>1
  <2>3. ch2[k] = ch[k + 1]
    BY <1>1
  <2> QED
    BY <1>9, <2>2, <2>3
<1>11. cut2 \in [0..Len(ch2) -> 0..c]
  BY <1>1, <1>7
<1>12. Chain(ch2, b, c)!(cut2)
  BY <1>1, <1>8, <1>10
<1>13. Chain(ch2, b, c)
  BY <1>11, <1>12 DEF Chain
<1>14. ch2 = <<>> => b = c
  <2> SUFFICES ASSUME ch2 = <<>> PROVE n = 1
    BY <1>5, <1>6
  <2> QED
    BY <1>1, EmptySeq
<1> QED
  BY <1>4, <1>5, <1>6, <1>13, <1>14 DEF b, ch2

------------------------------------------------------------------------------
(* Where the rows are: one lemma for each kind of step. *)

(* The part of the invariant that says where the rows of the answer are. *)
RowsWhereabouts == RowsInOrder /\ RowsInFlight /\ RowsUnderConstruction

(* What the type invariant says of the sequences of rows and packages. *)
LEMMA RowsTypes ==
    ASSUME TypeOK
    PROVE  /\ count \in Nat /\ total \in Nat
           /\ protobufRespond.rows \in Seq(Nat)
           /\ protobufRespond.rows \in Seq(Rows)
           /\ Len(protobufRespond.rows) \in Nat
           /\ received \in Seq(Nat) /\ Len(received) \in Nat
           /\ channel \in Seq(Package)
<1>1. Rows \subseteq Nat
  BY DEF Rows
<1>2. protobufRespond.rows \in Seq(Rows) /\ received \in Seq(Rows)
  BY DEF TypeOK, Respond
<1>3. protobufRespond.rows \in Seq(Nat) /\ received \in Seq(Nat)
  BY <1>1, <1>2, SeqMonotonic
<1> QED
  BY <1>2, <1>3 DEF TypeOK

(* Every row stays where it is on steps that touch neither the channel nor *)
(* the rows on either side.                                                *)
LEMMA RowsStay ==
    ASSUME RowsWhereabouts,
           channel' = channel, count' = count, received' = received,
           protobufRespond'.rows = protobufRespond.rows
    PROVE  RowsWhereabouts'
<1>1. RowsInOrder'
  BY DEF RowsWhereabouts, RowsInOrder, Stretch
<1>2. RowsUnderConstruction'
  BY DEF RowsWhereabouts, RowsUnderConstruction, Stretch
<1>3. Chain(channel', Len(received'), count' - Len(protobufRespond'.rows))
  BY DEF RowsWhereabouts, RowsInFlight
<1>4. RowsInFlight'
  BY <1>3 DEF RowsInFlight, Chain, Stretch
<1> QED
  BY <1>1, <1>2, <1>4 DEF RowsWhereabouts

(* A row moves from the result set to the message under construction. *)
LEMMA AddRowMoves ==
    ASSUME TypeOK, RowsWhereabouts, AddRow
    PROVE  RowsWhereabouts'
<1> DEFINE rows == protobufRespond.rows
           b == count - Len(rows)
<1>1. /\ count' = count + 1 /\ channel' = channel /\ received' = received
      /\ protobufRespond'.rows = Append(rows, count + 1)
  BY DEF AddRow, TypeOK, Respond, clientVars
<1>2. b \in Nat /\ count + 1 = b + Len(rows) + 1 /\ Stretch(rows, b)
  BY RowsTypes DEF RowsWhereabouts, RowsUnderConstruction
<1>3. Len(protobufRespond'.rows) = Len(rows) + 1 /\ Stretch(protobufRespond'.rows, b)
  BY <1>1, <1>2, RowsTypes, StretchAppend
<1>4. count' - Len(protobufRespond'.rows) = b
  <2>1. /\ count \in Nat /\ Len(rows) \in Nat
        /\ count' = count + 1 /\ Len(protobufRespond'.rows) = Len(rows) + 1
    BY <1>1, <1>3, RowsTypes
  <2> QED
    BY <2>1
<1>5. RowsInOrder'
  <2>1. Len(received) <= count /\ Stretch(received, 0)
    BY DEF RowsWhereabouts, RowsInOrder
  <2>2. Len(received') <= count'
    BY <1>1, <2>1, RowsTypes
  <2> QED
    BY <1>1, <2>1, <2>2 DEF RowsInOrder, Stretch
<1>6. RowsInFlight'
  <2>1. Chain(channel', Len(received'), count' - Len(protobufRespond'.rows))
    BY <1>1, <1>4 DEF RowsWhereabouts, RowsInFlight
  <2> QED
    BY <2>1 DEF RowsInFlight, Chain, Stretch
<1>7. RowsUnderConstruction'
  <2>1. Len(protobufRespond'.rows) <= count'
    BY <1>1, <1>3, RowsTypes DEF RowsWhereabouts, RowsUnderConstruction
  <2> QED
    BY <1>3, <1>4, <2>1 DEF RowsUnderConstruction, Stretch
<1> QED
  BY <1>5, <1>6, <1>7 DEF RowsWhereabouts

(* The message under construction moves to the end of the channel. *)
LEMMA sendBulkMoves ==
    ASSUME TypeOK, RowsWhereabouts, ServerControl, sendBulk
    PROVE  RowsWhereabouts' /\ protobufRespond'.rows = <<>>
<1> DEFINE rows == protobufRespond.rows
           b == count - Len(rows)
           p == [msg |-> protobufRespond, cont |-> cont]
<1>1. /\ count' = count /\ received' = received
      /\ channel' = Append(channel, p)
  BY DEF sendBulk, clientVars
<1>2. p \in Package /\ p.msg.rows = rows
  BY DEF TypeOK, Package
<1>3. b \in Nat /\ Stretch(rows, b) /\ b + Len(rows) = count
  BY RowsTypes DEF RowsWhereabouts, RowsUnderConstruction
<1>4. Chain(channel, Len(received), b)
  BY DEF RowsWhereabouts, RowsInFlight
<1>5. Chain(channel', Len(received), count)
  <2>1. Chain(Append(channel, p), Len(received), b + Len(p.msg.rows))
    BY <1>2, <1>3, <1>4, RowsTypes, ChainAppend
  <2> QED
    <3>1. b + Len(p.msg.rows) = count
      BY <1>2, <1>3
    <3> QED
      BY <1>1, <2>1, <3>1, Zenon
<1>6. protobufRespond'.rows = <<>>
  <2>1. CASE resultSet = "held"
    BY <2>1 DEF sendBulk, Cleared
  <2>2. CASE resultSet # "held"
    <3>1. count = 0
      BY <2>2 DEF sendBulk, ServerControl
    <3>2. Len(rows) = 0
      BY <3>1, RowsTypes DEF RowsWhereabouts, RowsUnderConstruction
    <3>3. rows = <<>>
      BY <3>2, RowsTypes, EmptySeq
    <3> QED
      BY <2>2, <3>3 DEF sendBulk
  <2> QED
    BY <2>1, <2>2
<1>7. Len(protobufRespond'.rows) = 0 /\ count' - 0 = count
  BY <1>1, <1>6, RowsTypes, EmptySeq
<1>8. RowsInOrder'
  BY <1>1 DEF RowsWhereabouts, RowsInOrder, Stretch
<1>9. RowsInFlight'
  <2>1. /\ Len(received') = Len(received)
        /\ count' - Len(protobufRespond'.rows) = count
    BY <1>1, <1>7
  <2>2. Chain(channel', Len(received'), count' - Len(protobufRespond'.rows))
    BY <1>5, <2>1, Zenon
  <2> QED
    BY <2>2 DEF RowsInFlight, Chain, Stretch
<1>10. RowsUnderConstruction'
  BY <1>1, <1>7, RowsTypes DEF RowsUnderConstruction, Stretch
<1> QED
  BY <1>6, <1>8, <1>9, <1>10 DEF RowsWhereabouts

(* The first package under way moves to the client. *)
LEMMA RecvBulkMoves ==
    ASSUME TypeOK, RowsWhereabouts, RecvBulk
    PROVE  /\ RowsWhereabouts'
           /\ Len(received') \in Nat
           /\ channel' = <<>> =>
                Len(received') = count - Len(protobufRespond.rows)
<1> DEFINE rows == Head(channel).msg.rows
           a == Len(received)
           b == a + Len(rows)
           c == count - Len(protobufRespond.rows)
<1>1. /\ count' = count /\ protobufRespond' = protobufRespond
      /\ channel # <<>> /\ channel' = Tail(channel)
      /\ received' = received \o rows
  BY DEF RecvBulk, consume, serverVars
<1>2. c \in Nat /\ a \in Nat /\ c <= count
  BY RowsTypes DEF RowsWhereabouts, RowsUnderConstruction
<1>3. Chain(channel, a, c)
  BY DEF RowsWhereabouts, RowsInFlight
<1>4. /\ Stretch(rows, a) /\ b \in 0..c
      /\ Chain(Tail(channel), b, c)
      /\ Tail(channel) = <<>> => b = c
  BY <1>1, <1>2, <1>3, RowsTypes, ChainTail
<1>5. rows \in Seq(Nat)
  <2>1. Head(channel) \in Package
    BY <1>1, RowsTypes, ChannelHead
  <2>2. Head(channel).msg \in Respond
    BY <2>1 DEF Package
  <2>3. rows \in Seq(Rows)
    BY <2>2 DEF Respond
  <2>4. Rows \subseteq Nat
    BY DEF Rows
  <2> QED
    BY <2>3, <2>4, SeqMonotonic
<1>6. Len(received') = b /\ Stretch(received', 0)
  <2>1. Stretch(received, 0) /\ 0 + Len(received) = a
    BY RowsTypes DEF RowsWhereabouts, RowsInOrder
  <2>2. Stretch(rows, 0 + Len(received))
    BY <1>4, <2>1
  <2> QED
    BY <1>1, <1>5, <2>1, <2>2, RowsTypes, StretchConcat
<1>7. RowsInOrder'
  <2>1. Len(received') <= count'
    <3>1. /\ b \in 0..c /\ c \in Nat /\ c <= count
          /\ count \in Nat /\ count' = count /\ Len(received') = b
      BY <1>1, <1>2, <1>4, <1>6, RowsTypes
    <3> HIDE DEF b, c
    <3> QED
      BY <3>1
  <2> QED
    BY <1>6, <2>1 DEF RowsInOrder, Stretch
<1>8. RowsInFlight'
  <2>1. Chain(channel', Len(received'), c)
    BY <1>1, <1>4, <1>6, Zenon
  <2> QED
    BY <1>1, <2>1 DEF RowsInFlight, Chain, Stretch
<1>9. RowsUnderConstruction'
  BY <1>1 DEF RowsWhereabouts, RowsUnderConstruction, Stretch
<1> QED
  BY <1>1, <1>4, <1>6, <1>7, <1>8, <1>9 DEF RowsWhereabouts

------------------------------------------------------------------------------
(* The invariant holds at first: there is no row anywhere. *)
LEMMA InitInv == Init => IInv
<1> SUFFICES ASSUME Init PROVE IInv
  OBVIOUS
<1>1. TypeOK
  BY InitType
<1>2. count = 0 /\ channel = <<>> /\ received = <<>> /\ protobufRespond.rows = <<>>
  BY DEF Init, Cleared
<1>3. Len(channel) = 0 /\ Len(received) = 0 /\ Len(protobufRespond.rows) = 0
  BY <1>2, EmptySeq
<1>4. RowsInOrder /\ RowsUnderConstruction
  BY <1>2, <1>3 DEF RowsInOrder, RowsUnderConstruction, Stretch
<1>5. RowsInFlight
  <2> DEFINE cut == [k \in 0..0 |-> 0]
  <2>1. cut \in [0..Len(channel) -> 0..0] /\ cut[0] = 0
    BY <1>3
  <2>2. cut[Len(channel)] = 0 /\ 1..Len(channel) = {}
    BY <1>3
  <2>3. Chain(channel, 0, 0)!(cut)
    BY <2>1, <2>2
  <2>4. Chain(channel, 0, 0)
    BY <2>1, <2>3 DEF Chain
  <2> QED
    BY <1>2, <1>3, <2>4 DEF RowsInFlight
<1>6. CompleteMeansAll /\ FinalIsLast /\ FinalTakesAll /\ ServerControl
  BY <1>2, <1>3
  DEF Init, CompleteMeansAll, FinalIsLast, FinalTakesAll, ServerControl
<1> QED
  BY <1>1, <1>4, <1>5, <1>6 DEF IInv

(* Steps that leave the rows alone keep the other parts because they move  *)
(* only the server's place in the code, or only the client's.              *)
LEMMA NextInv == IInv /\ [Next]_vars => IInv'
<1> SUFFICES ASSUME IInv, [Next]_vars
             PROVE  IInv'
  OBVIOUS
<1> DEFINE Others == /\ CompleteMeansAll /\ FinalIsLast
                     /\ FinalTakesAll /\ ServerControl
<1>1. TypeOK'
  BY NextType DEF IInv
<1>2. TypeOK /\ RowsWhereabouts /\ Others
  BY DEF IInv, RowsWhereabouts
<1> SUFFICES RowsWhereabouts' /\ Others'
  BY <1>1 DEF IInv, RowsWhereabouts
<1> USE <1>2
<1> USE DEF CompleteMeansAll, FinalIsLast, FinalTakesAll, ServerControl, isEndOfSet
<1>3. CASE ExecuteToNull
  <2>1. protobufRespond'.rows = <<>> /\ protobufRespond.rows = <<>>
    <3>1. Len(protobufRespond.rows) = 0
      BY <1>3, RowsTypes
      DEF ExecuteToNull, RowsWhereabouts, RowsUnderConstruction
    <3> QED
      BY <1>3, <3>1, RowsTypes, EmptySeq DEF ExecuteToNull, Cleared
  <2>2. RowsWhereabouts'
    BY <1>3, <2>1, RowsStay DEF ExecuteToNull, clientVars
  <2> QED
    BY <1>3, <2>2 DEF ExecuteToNull, query, clientVars
<1>4. CASE ExecuteToSet
  <2>1. protobufRespond'.rows = <<>> /\ protobufRespond.rows = <<>>
    <3>1. Len(protobufRespond.rows) = 0
      BY <1>4, RowsTypes
      DEF ExecuteToSet, RowsWhereabouts, RowsUnderConstruction
    <3> QED
      BY <1>4, <3>1, RowsTypes, EmptySeq DEF ExecuteToSet, Cleared
  <2>2. RowsWhereabouts'
    BY <1>4, <2>1, RowsStay DEF ExecuteToSet, clientVars
  <2> QED
    BY <1>4, <2>2 DEF ExecuteToSet, query, clientVars
<1>5. CASE ExecuteThrows \/ RowThrows \/ SendThrows
  <2>1. protobufRespond'.rows = protobufRespond.rows
    BY <1>5
    DEF ExecuteThrows, RowThrows, SendThrows, CatchException, TypeOK, Respond
  <2>2. RowsWhereabouts'
    BY <1>5, <2>1, RowsStay
    DEF ExecuteThrows, RowThrows, SendThrows, CatchException, clientVars
  <2>3. \A k \in 1..Len(channel) : ~channel[k].cont => resultSet = "none"
    BY <1>5, RowsTypes
    DEF ExecuteThrows, RowThrows, SendThrows, CatchException
  <2> QED
    BY <1>5, <2>2, <2>3
    DEF ExecuteThrows, RowThrows, SendThrows, CatchException, query, clientVars
<1>6. CASE AddRow
  <2>1. RowsWhereabouts'
    BY <1>6, AddRowMoves
  <2> QED
    BY <1>6, <2>1, RowsTypes DEF AddRow, query, clientVars
<1>7. CASE EndBulk
  <2>1. protobufRespond'.rows = protobufRespond.rows
    BY <1>7 DEF EndBulk, finalizeStream, TypeOK, Respond
  <2>2. RowsWhereabouts'
    BY <1>7, <2>1, RowsStay DEF EndBulk, clientVars
  <2>3. /\ spc = "fill" /\ spc' = "send" /\ channel' = channel
        /\ resultSet' = resultSet /\ resultSet = "held"
        /\ count' = count /\ total' = total
        /\ cpc' = cpc /\ cpc # "complete"
    BY <1>7 DEF EndBulk, query, clientVars
  <2>4. cont' = ~(count = total)
    <3>1. CASE isEndOfSet
      BY <1>7, <3>1 DEF EndBulk
    <3>2. CASE ~isEndOfSet
      BY <1>7, <3>2 DEF EndBulk
    <3> QED
      BY <3>1, <3>2
  <2>5. \A k \in DOMAIN channel : channel[k].cont
    BY <2>3
  <2>6. DOMAIN channel = 1..Len(channel)
    BY RowsTypes
  <2> QED
    BY <2>2, <2>3, <2>4, <2>5, <2>6
<1>8. CASE sendBulk
  <2>1. RowsWhereabouts' /\ protobufRespond'.rows = <<>>
    BY <1>8, sendBulkMoves
  <2>2. /\ Len(channel') = Len(channel) + 1
        /\ \A k \in 1..Len(channel) : channel'[k] = channel[k]
        /\ channel'[Len(channel) + 1].cont = cont
    BY <1>8, RowsTypes, AppendProperties DEF sendBulk
  <2>3. \A k \in 1..Len(channel) : channel[k].cont
    BY <1>8, RowsTypes DEF sendBulk, TypeOK, Package
  <2>4. /\ spc = "send" /\ cpc' = cpc /\ cpc # "complete" /\ cont' = cont
        /\ resultSet' = resultSet /\ count' = count /\ total' = total
        /\ spc' = IF resultSet = "held" /\ ~isEndOfSet THEN "fill"
                  ELSE "cleanup"
    BY <1>8 DEF sendBulk, query, clientVars
  <2>5. channel' \in Seq(Package)
    BY <1>1 DEF TypeOK
  <2>6. DOMAIN channel' = 1..Len(channel')
    BY <2>5
  <2>7. /\ resultSet \in {"none", "held"}
        /\ resultSet = "none" => ~cont
        /\ resultSet = "held" => cont = ~(count = total)
    BY <2>4
  <2>8. ASSUME NEW k \in 1..Len(channel'), ~channel'[k].cont
        PROVE  k = Len(channel') /\ ~cont
    <3>1. k \in 1..Len(channel) \/ k = Len(channel) + 1
      BY <2>2, RowsTypes
    <3> QED
      BY <2>2, <2>3, <2>8, <3>1
  <2>9. ServerControl' /\ CompleteMeansAll'
    BY <2>4, <2>7
  <2>10. ~cont => spc' = "cleanup"
    BY <2>4, <2>7
  <2>11. FinalIsLast'
    <3>1. ASSUME NEW k \in DOMAIN channel', ~channel'[k].cont
          PROVE  k = Len(channel') /\ spc' \in {"cleanup", "closed"}
      BY <2>6, <2>8, <2>10, <3>1
    <3> QED
      BY <2>4, <3>1
  <2>12. FinalTakesAll'
    <3>1. ~cont => resultSet' = "none" \/ count' = total'
      BY <2>4, <2>7
    <3>2. ASSUME NEW k \in 1..Len(channel'), ~channel'[k].cont
          PROVE  \/ resultSet' = "none"
                 \/ count' = total' /\ protobufRespond'.rows = <<>>
      <4>1. ~cont
        BY <2>8, <3>2
      <4> QED
        BY <2>1, <3>1, <4>1
    <3> QED
      BY <3>2
  <2> QED
    BY <2>1, <2>9, <2>11, <2>12
<1>9. CASE SendKilled \/ Cleanup
  <2>1. RowsWhereabouts'
    BY <1>9, RowsStay DEF SendKilled, Cleanup, clientVars
  <2> QED
    BY <1>9, <2>1 DEF SendKilled, Cleanup, query, clientVars
<1>10. CASE RecvBulk
  <2>1. /\ RowsWhereabouts'
        /\ channel' = <<>> => Len(received') = count - Len(protobufRespond.rows)
    BY <1>10, RecvBulkMoves
  <2>2. /\ Len(channel) \in Nat \ {0} /\ Head(channel) = channel[1]
        /\ DOMAIN channel = 1..Len(channel)
        /\ channel' = Tail(channel)
        /\ Len(channel') = Len(channel) - 1
        /\ DOMAIN channel' = 1..Len(channel')
        /\ \A k \in 1..Len(channel') : channel'[k] = channel[k + 1]
    <3>1. channel # <<>> /\ channel' = Tail(channel)
      BY <1>10 DEF RecvBulk
    <3>2. channel \in Seq(Package) /\ channel' \in Seq(Package)
      BY <1>1, RowsTypes DEF TypeOK
    <3> QED
      BY <3>1, <3>2, ChannelHead
  <2>3. /\ cpc = "recv"
        /\ cpc' = "complete" => ~channel[1].cont
        /\ UNCHANGED <<spc, resultSet, count, total, protobufRespond, cont>>
    BY <1>10, <2>2 DEF RecvBulk, query, serverVars
  <2>4. ASSUME NEW k \in 1..Len(channel')
        PROVE  k + 1 \in 1..Len(channel) /\ channel'[k] = channel[k + 1]
    BY <2>2
  <2>5. 1 \in 1..Len(channel)
    BY <2>2
  <2>6. ServerControl'
    BY <2>2, <2>3, <2>5
  <2>7. FinalTakesAll'
    BY <2>3, <2>4
  <2>8. FinalIsLast'
    <3>1. ASSUME NEW k \in 1..Len(channel'), ~channel'[k].cont
          PROVE  k = Len(channel') /\ spc' \in {"cleanup", "closed"}
      <4>1. ~channel[k + 1].cont /\ k + 1 \in DOMAIN channel
        <5>1. /\ DOMAIN channel = 1..Len(channel)
              /\ ~channel'[k].cont
          BY <2>2, <3>1
        <5> QED
          BY <2>4, <5>1
      <4>2. k + 1 = Len(channel) /\ spc \in {"cleanup", "closed"}
        BY <4>1
      <4>3. /\ Len(channel') = Len(channel) - 1 /\ spc' = spc
            /\ Len(channel) \in Nat
        BY <2>2, <2>3
      <4> QED
        BY <4>2, <4>3
    <3>2. ASSUME ~channel[1].cont
          PROVE  channel' = <<>> /\ spc' \in {"cleanup", "closed"}
      <4>1. 1 = Len(channel) /\ spc \in {"cleanup", "closed"}
        BY <2>2, <2>5, <3>2
      <4>2. channel' \in Seq(Package)
        BY <1>1 DEF TypeOK
      <4>3. Len(channel') = Len(channel) - 1
        BY <2>2
      <4>4. Len(channel') = 0
        BY <4>1, <4>3
      <4> QED
        BY <2>3, <4>1, <4>2, <4>4, EmptySeq
    <3> QED
      BY <2>2, <2>3, <3>1, <3>2
  <2>9. CompleteMeansAll'
    <3>1. ASSUME cpc' = "complete"
          PROVE  \/ resultSet' = "none" /\ received' = <<>>
                 \/ Len(received') = total'
      <4>1. /\ ~channel[1].cont /\ 1 = Len(channel)
            /\ resultSet' = resultSet /\ total' = total /\ channel' = <<>>
        BY <2>2, <2>3, <2>5, <2>8, <3>1
      <4>2. Len(received') = count - Len(protobufRespond.rows)
        BY <2>1, <4>1
      <4>3. CASE resultSet = "none"
        <5>1. count = 0 /\ Len(protobufRespond.rows) = 0
          BY <4>3, RowsTypes DEF RowsWhereabouts, RowsUnderConstruction
        <5>2. Len(received') = 0 /\ received' \in Seq(Rows)
          BY <1>1, <4>2, <5>1 DEF TypeOK
        <5> QED
          BY <4>1, <4>3, <5>2, EmptySeq
      <4>4. CASE resultSet # "none"
        <5>1. count = total /\ protobufRespond.rows = <<>>
          BY <2>5, <4>1, <4>4
        <5>2. Len(protobufRespond.rows) = 0
          BY <5>1, EmptySeq
        <5> QED
          BY <4>1, <4>2, <5>1, <5>2, RowsTypes
      <4> QED
        BY <4>3, <4>4
    <3> QED
      BY <3>1
  <2> QED
    BY <2>1, <2>6, <2>7, <2>8, <2>9
<1>11. CASE RecvEof \/ RecvThrows
  <2>1. RowsWhereabouts'
    BY <1>11, RowsStay DEF RecvEof, RecvThrows, serverVars
  <2> QED
    BY <1>11, <2>1 DEF RecvEof, RecvThrows, query, serverVars
<1>12. CASE UNCHANGED vars
  <2>1. RowsWhereabouts'
    BY <1>12, RowsStay DEF vars, serverVars, clientVars
  <2> QED
    BY <1>12, <2>1 DEF vars, query, serverVars, clientVars
<1> QED
  BY <1>3, <1>4, <1>5, <1>6, <1>7, <1>8, <1>9, <1>10, <1>11, <1>12
  DEF Next, Server, Client, Execute, Fill, Send, Finished

------------------------------------------------------------------------------
(* The invariant holds in every state of every behaviour of one query of   *)
(* task1, whatever its result set, its bulks and its failures are.         *)
THEOREM Invariance == Spec => []IInv
BY InitInv, NextInv, PTL DEF Spec

(* The client never sees a row lost, repeated or out of order, however the *)
(* result set is cut into bulks and whatever fails (handleProtoBuffSend,   *)
(* handleProtoBuffRecv).                                                   *)
THEOREM RowsStayInOrder == Spec => []RowsInOrder
<1>1. IInv => RowsInOrder
  BY DEF IInv
<1> QED
  BY <1>1, Invariance, PTL

(* A client that stops at a message without MSG_CONT has the whole answer: *)
(* the flag is dropped only with the last row (lines 232-236).             *)
THEOREM CompletenessOfFinal == Spec => []CompleteMeansAll
<1>1. IInv => CompleteMeansAll
  BY DEF IInv
<1> QED
  BY <1>1, Invariance, PTL

(* Nothing is sent after a message without MSG_CONT, so the client never *)
(* leaves a package unread by stopping there.                            *)
THEOREM FinalityOfFinal == Spec => []FinalIsLast
<1>1. IInv => FinalIsLast
  BY DEF IInv
<1> QED
  BY <1>1, Invariance, PTL

------------------------------------------------------------------------------
(* An answer of one bulk is printed row for row.  Only the first message of *)
(* an answer says that it is a RESULT: clear() leaves the others untyped.   *)

(* As long as the client has nothing, the first message is still to come. *)
FirstIsResult ==
    bulks = 0 =>
      /\ received = <<>> /\ shown = <<>> /\ ~overrun
      /\ channel # <<>> /\ resultSet # "none" => channel[1].msg.type = "RESULT"
      /\ channel = <<>> /\ resultSet = "held" /\ spc \in {"fill", "send"} =>
           protobufRespond.type = "RESULT"

(* What a final message says of the answer. *)
SaysTotal(msg) ==
    IF resultSet = "none" THEN msg.type = "STATUS" /\ msg.rows = <<>>
    ELSE msg.size = total

FinalSaysTotal ==
    /\ \A k \in 1..Len(channel) : ~channel[k].cont => SaysTotal(channel[k].msg)
    /\ spc = "send" /\ ~cont => SaysTotal(protobufRespond)

ShownInv == FirstIsResult /\ FinalSaysTotal /\ SingleBulkIsShown

LEMMA InitShown == Init => ShownInv
<1> SUFFICES ASSUME Init PROVE ShownInv
  OBVIOUS
<1>1. Len(channel) = 0
  BY EmptySeq DEF Init
<1> QED
  BY <1>1 DEF Init, ShownInv, FirstIsResult, FinalSaysTotal, SingleBulkIsShown

(* The client takes the first message, or a later one. *)
LEMMA RecvBulkShows ==
    ASSUME IInv, IInv', ShownInv, RecvBulk
    PROVE  ShownInv'
<1> DEFINE p == Head(channel)
<1>1. /\ Len(channel) \in Nat \ {0} /\ p = channel[1] /\ channel # <<>>
      /\ channel' = Tail(channel) /\ p.msg \in Respond /\ p.msg.rows \in Seq(Rows)
      /\ Len(channel') = Len(channel) - 1
      /\ \A k \in 1..Len(channel') : channel'[k] = channel[k + 1]
  <2>1. channel # <<>> /\ channel' = Tail(channel) /\ channel \in Seq(Package)
    BY DEF RecvBulk, IInv, TypeOK
  <2>2. p \in Package /\ p.msg \in Respond /\ p.msg.rows \in Seq(Rows)
    BY <2>1, ChannelHead DEF Package, Respond
  <2> QED
    BY <2>1, <2>2, ChannelHead
<1>2. /\ UNCHANGED <<total, spc, resultSet, protobufRespond, cont>>
      /\ bulks' = bulks + 1 /\ bulks \in Nat
      /\ received' = received \o p.msg.rows
      /\ shown' = shown \o RowsPrinted(p.msg)
      /\ overrun' = (overrun \/ ReadsPastRows(p.msg))
      /\ cpc' = "complete" => ~p.cont
  BY DEF RecvBulk, consume, query, serverVars, IInv, TypeOK
<1> HIDE DEF p
<1>3. FirstIsResult'
  BY <1>2 DEF FirstIsResult
<1>4. FinalSaysTotal'
  <2>1. ASSUME NEW k \in 1..Len(channel'), ~channel'[k].cont
        PROVE  SaysTotal(channel[k].msg)'
    <3>1. k + 1 \in 1..Len(channel) /\ channel'[k] = channel[k + 1]
      BY <1>1
    <3> QED
      BY <1>2, <2>1, <3>1 DEF ShownInv, FinalSaysTotal, SaysTotal
  <2>2. spc' = "send" /\ ~cont' => SaysTotal(protobufRespond)'
    BY <1>2 DEF ShownInv, FinalSaysTotal, SaysTotal
  <2> QED
    BY <2>1, <2>2 DEF FinalSaysTotal
<1>5. ASSUME cpc' = "complete", bulks' = 1
      PROVE  shown' = received' /\ ~overrun'
  <2>1. /\ received = <<>> /\ shown = <<>> /\ ~overrun
        /\ resultSet # "none" => p.msg.type = "RESULT"
    BY <1>1, <1>2, <1>5 DEF ShownInv, FirstIsResult
  <2>2. SaysTotal(p.msg)
    <3>1. 1 \in 1..Len(channel)
      BY <1>1
    <3> QED
      BY <1>1, <1>2, <1>5, <3>1 DEF ShownInv, FinalSaysTotal
  <2>3. RowsPrinted(p.msg) \in Seq(Rows)
    BY <1>1, RowsPrintedType
  <2>4. received' = p.msg.rows /\ shown' = RowsPrinted(p.msg)
    <3>1. \A s \in Seq(Rows) : <<>> \o s = s
      BY ConcatEmptySeq
    <3> QED
      BY <1>1, <1>2, <2>1, <2>3, <3>1
  <2>5. CASE resultSet = "none"
    BY <1>2, <2>1, <2>2, <2>4, <2>5
    DEF SaysTotal, RowsPrinted, ReadsPastRows, TypeOf
  <2>6. CASE resultSet # "none"
    <3>1. p.msg.size = total /\ TypeOf(p.msg) = "RESULT"
      BY <2>1, <2>2, <2>6 DEF SaysTotal, TypeOf
    <3>2. Len(p.msg.rows) = total
      BY <1>2, <1>5, <2>4, <2>6 DEF IInv, CompleteMeansAll
    <3>3. SubSeq(p.msg.rows, 1, Len(p.msg.rows)) = p.msg.rows
      BY <1>1
    <3>4. total \in Nat
      BY DEF IInv, TypeOK
    <3>5. RowsPrinted(p.msg) = p.msg.rows /\ ~ReadsPastRows(p.msg)
      BY <3>1, <3>2, <3>3, <3>4 DEF RowsPrinted, ReadsPastRows
    <3> QED
      BY <1>2, <2>1, <2>4, <3>5
  <2> QED
    BY <2>5, <2>6
<1> QED
  BY <1>3, <1>4, <1>5 DEF ShownInv, SingleBulkIsShown

LEMMA NextShown ==
    ASSUME IInv, IInv', ShownInv, [Next]_vars
    PROVE  ShownInv'
<1> USE DEF ShownInv, FirstIsResult, FinalSaysTotal, SaysTotal, SingleBulkIsShown
<1>0. /\ channel \in Seq(Package) /\ Len(channel) \in Nat /\ protobufRespond \in Respond
      /\ protobufRespond.rows \in Seq(Rows)
  BY DEF IInv, TypeOK, Respond
<1>1. CASE ExecuteToNull
  <2>1. protobufRespond' = [Cleared EXCEPT !.type = "STATUS"] /\ cont' = FALSE
        /\ spc' = "send" /\ spc = "execute"
        /\ UNCHANGED <<total, resultSet, channel, cpc, received, bulks, shown, overrun>>
    BY <1>1 DEF ExecuteToNull, query, clientVars
  <2>2. channel = <<>> /\ resultSet = "none" /\ Len(channel) = 0
    BY <2>1, EmptySeq DEF IInv, ServerControl
  <2>3. protobufRespond'.type = "STATUS" /\ protobufRespond'.rows = <<>>
    BY <2>1 DEF Cleared
  <2> QED
    BY <2>1, <2>2, <2>3
<1>2. CASE ExecuteToSet
  <2>1. protobufRespond' = [Cleared EXCEPT !.type = "RESULT", !.rowscount = total]
        /\ spc' \in {"cleanup", "fill"} /\ spc = "execute"
        /\ UNCHANGED <<total, channel, cpc, received, bulks, shown, overrun>>
    BY <1>2 DEF ExecuteToSet, query, clientVars
  <2>2. channel = <<>> /\ Len(channel) = 0
    BY <2>1, EmptySeq DEF IInv, ServerControl
  <2>3. protobufRespond'.type = "RESULT"
    BY <2>1 DEF Cleared
  <2> QED
    BY <2>1, <2>2, <2>3
<1>3. CASE ExecuteThrows \/ RowThrows \/ SendThrows
  BY <1>3 DEF ExecuteThrows, RowThrows, SendThrows, CatchException, query, clientVars
<1>4. CASE AddRow
  <2>1. protobufRespond'.type = protobufRespond.type
    BY <1>0, <1>4 DEF AddRow, Respond
  <2> QED
    BY <1>4, <2>1 DEF AddRow, query, clientVars
<1>5. CASE EndBulk
  <2>1. /\ spc = "fill" /\ spc' = "send" /\ resultSet = "held"
        /\ UNCHANGED <<total, resultSet, count, channel, cpc, received, bulks, shown, overrun>>
    BY <1>5 DEF EndBulk, IInv, ServerControl, query, clientVars
  <2>2. protobufRespond'.type = protobufRespond.type
    BY <1>0, <1>5 DEF EndBulk, finalizeStream, Respond
  <2>3. ~cont' => protobufRespond'.size = total
    <3>1. CASE isEndOfSet
      BY <1>0, <1>5, <3>1 DEF EndBulk, finalizeStream, Respond, isEndOfSet
    <3>2. CASE ~isEndOfSet
      BY <1>5, <2>1, <3>2 DEF EndBulk, IInv, ServerControl
    <3> QED
      BY <3>1, <3>2
  <2> QED
    BY <2>1, <2>2, <2>3
<1>6. CASE sendBulk
  <2>1. /\ spc = "send" /\ spc' # "send" /\ resultSet \in {"none", "held"}
        /\ UNCHANGED <<total, resultSet, cont, cpc, received, bulks, shown, overrun>>
    BY <1>6 DEF sendBulk, IInv, ServerControl, query, clientVars
  <2>2. channel' = Append(channel, [msg |-> protobufRespond, cont |-> cont])
    BY <1>6 DEF sendBulk
  <2>3. /\ Len(channel') = Len(channel) + 1
        /\ \A k \in 1..Len(channel) : channel'[k] = channel[k]
        /\ channel'[Len(channel) + 1].msg = protobufRespond
        /\ channel'[Len(channel) + 1].cont = cont
    BY <1>0, <2>2, AppendProperties
  <2>4. channel = <<>> => channel'[1].msg = protobufRespond
    BY <2>3, EmptySeq
  <2>5. channel # <<>> => channel'[1] = channel[1]
    <3>1. channel # <<>> => 1 \in 1..Len(channel)
      BY <1>0
    <3> QED
      BY <2>3, <3>1
  <2>6. FirstIsResult'
    <3>1. channel' # <<>>
      BY <2>3, <1>0, EmptySeq
    <3> QED
      BY <2>1, <2>4, <2>5, <3>1
  <2>7. ASSUME NEW k \in 1..Len(channel'), ~channel'[k].cont
        PROVE  SaysTotal(channel[k].msg)'
    <3>1. k \in 1..Len(channel) \/ k = Len(channel) + 1
      BY <1>0, <2>3
    <3> QED
      BY <2>1, <2>3, <2>7, <3>1
  <2> QED
    BY <2>1, <2>6, <2>7
<1>7. CASE SendKilled \/ Cleanup
  BY <1>7 DEF SendKilled, Cleanup, query, clientVars
<1>8. CASE RecvBulk
  BY <1>8, RecvBulkShows
<1>9. CASE RecvEof \/ RecvThrows
  BY <1>9 DEF RecvEof, RecvThrows, query, serverVars
<1>10. CASE UNCHANGED vars
  BY <1>10 DEF vars, query, serverVars, clientVars
<1> QED
  BY <1>1, <1>2, <1>3, <1>4, <1>5, <1>6, <1>7, <1>8, <1>9, <1>10
  DEF Next, Server, Client, Execute, Fill, Send, Finished

(* An answer that comes in one message is printed row for row: consume     *)
(* takes the grand total for the rows of the message, and there they agree *)
(* (SocketClient.cpp, consume; finalizeStream).                            *)
THEOREM SingleAnswerShown == Spec => []SingleBulkIsShown
<1>1. IInv /\ IInv' /\ ShownInv /\ [Next]_vars => ShownInv'
  BY NextShown
<1>2. ShownInv => SingleBulkIsShown
  BY DEF ShownInv
<1> QED
  BY <1>1, <1>2, InitShown, Invariance, PTL DEF Spec

------------------------------------------------------------------------------
(* Bulks are full.  BytesUpTo is a recursive function: that it is what its *)
(* definition says follows step by step for the rows the server has taken. *)

(* Text size of the first n rows, if their lengths are rl. *)
Total(rl, n) ==
    LET bytes[k \in 0..n] == IF k = 0 THEN 0 ELSE bytes[k - 1] + rl[k]
    IN bytes[n]

(* f is the running total of the row lengths up to row n. *)
IsTotalling(rl, f, n) ==
    f = [k \in 0..n |-> IF k = 0 THEN 0 ELSE f[k - 1] + rl[k]]

(* There is one running total up to n, and it is of numbers. *)
Totals(rl, n) ==
    \E f \in [0..n -> Nat] :
      \A k \in 0..n : /\ \E g : IsTotalling(rl, g, k)
                      /\ \A g : IsTotalling(rl, g, k) => g[k] = f[k]

LEMMA TotalIs == \A rl, n : Total(rl, n) = (CHOOSE g : IsTotalling(rl, g, n))[n]
BY DEF Total, IsTotalling

LEMMA TotalsZero == ASSUME NEW rl PROVE Totals(rl, 0)
<1> DEFINE f == [k \in 0..0 |-> 0]
<1>1. f \in [0..0 -> Nat] /\ f[0] = 0
  OBVIOUS
<1>2. IsTotalling(rl, f, 0)
  <2>1. f = [k \in 0..0 |-> IF k = 0 THEN 0 ELSE f[k - 1] + rl[k]]
    OBVIOUS
  <2> QED
    BY <2>1 DEF IsTotalling
<1>3. ASSUME NEW g, IsTotalling(rl, g, 0) PROVE g[0] = 0
  BY <1>3 DEF IsTotalling
<1> HIDE DEF f
<1>4. \A k \in 0..0 : k = 0
  OBVIOUS
<1> QED
  BY <1>1, <1>2, <1>3, <1>4 DEF Totals

(* A running total has its shorter ones in it. *)
LEMMA TotallingShorter ==
    ASSUME NEW rl, NEW n \in Nat, NEW g, IsTotalling(rl, g, n + 1)
    PROVE  /\ IsTotalling(rl, [k \in 0..n |-> g[k]], n)
           /\ g[n + 1] = g[n] + rl[n + 1]
<1> DEFINE h == [k \in 0..n |-> g[k]]
<1>1. \A k \in 0..n + 1 : g[k] = IF k = 0 THEN 0 ELSE g[k - 1] + rl[k]
  BY DEF IsTotalling
<1>2. ASSUME NEW k \in 0..n
      PROVE  h[k] = IF k = 0 THEN 0 ELSE h[k - 1] + rl[k]
  <2>1. k \in 0..n + 1 /\ (k # 0 => k - 1 \in 0..n)
    OBVIOUS
  <2> QED
    BY <1>1, <2>1
<1>3. h = [k \in 0..n |-> IF k = 0 THEN 0 ELSE h[k - 1] + rl[k]]
  <2>1. h = [k \in 0..n |-> h[k]]
    OBVIOUS
  <2> HIDE DEF h
  <2> QED
    BY <1>2, <2>1
<1>4. n + 1 \in 0..n + 1 /\ n + 1 # 0 /\ (n + 1) - 1 = n
  OBVIOUS
<1> HIDE DEF h
<1> QED
  BY <1>1, <1>3, <1>4 DEF IsTotalling, h

LEMMA TotalsNext ==
    ASSUME NEW rl, NEW n \in Nat, Totals(rl, n), rl[n + 1] \in Nat
    PROVE  Totals(rl, n + 1)
<1>1. PICK f \in [0..n -> Nat] :
        \A k \in 0..n : /\ \E g : IsTotalling(rl, g, k)
                        /\ \A g : IsTotalling(rl, g, k) => g[k] = f[k]
  BY DEF Totals
<1> DEFINE f2 == [k \in 0..n + 1 |-> IF k = n + 1 THEN f[n] + rl[n + 1] ELSE f[k]]
<1>2. n \in 0..n /\ f[n] \in Nat
  OBVIOUS
<1>3. f2 \in [0..n + 1 -> Nat]
  <2>1. ASSUME NEW k \in 0..n + 1, k # n + 1 PROVE f[k] \in Nat
    <3>1. k \in 0..n
      BY <2>1
    <3> QED
      BY <3>1
  <2>2. f[n] + rl[n + 1] \in Nat
    BY <1>2
  <2> QED
    BY <2>1, <2>2
<1>4. f2[n + 1] = f[n] + rl[n + 1] /\ \A k \in 0..n : f2[k] = f[k]
  OBVIOUS
<1> HIDE DEF f2
<1>5. ASSUME NEW g, IsTotalling(rl, g, n + 1) PROVE g[n + 1] = f2[n + 1]
  <2> DEFINE h == [k \in 0..n |-> g[k]]
  <2>1. IsTotalling(rl, h, n) /\ g[n + 1] = g[n] + rl[n + 1]
    BY <1>5, TotallingShorter
  <2>2. h[n] = g[n]
    BY <1>2
  <2> HIDE DEF h
  <2>3. h[n] = f[n]
    BY <1>1, <1>2, <2>1
  <2> QED
    BY <1>4, <2>1, <2>2, <2>3
<1>6. \E g : IsTotalling(rl, g, n + 1)
  <2>1. PICK h : IsTotalling(rl, h, n)
    BY <1>1, <1>2
  <2> DEFINE g == [k \in 0..n + 1 |-> IF k = n + 1 THEN h[n] + rl[n + 1] ELSE h[k]]
  <2>2. \A k \in 0..n : h[k] = IF k = 0 THEN 0 ELSE h[k - 1] + rl[k]
    BY <2>1 DEF IsTotalling
  <2>3. ASSUME NEW k \in 0..n + 1
        PROVE  g[k] = IF k = 0 THEN 0 ELSE g[k - 1] + rl[k]
    <3>1. CASE k = n + 1
      <4>1. k - 1 = n /\ k - 1 \in 0..n + 1 /\ k - 1 # n + 1 /\ k # 0
        BY <3>1
      <4>2. g[k - 1] = h[n] /\ g[k] = h[n] + rl[n + 1]
        BY <3>1, <4>1
      <4> QED
        BY <3>1, <4>1, <4>2
    <3>2. CASE k # n + 1
      <4>1. k \in 0..n /\ (k # 0 => k - 1 \in 0..n + 1 /\ k - 1 # n + 1)
        BY <3>2
      <4>2. g[k] = h[k] /\ (k # 0 => g[k - 1] = h[k - 1])
        BY <3>2, <4>1
      <4> QED
        BY <2>2, <4>1, <4>2
    <3> QED
      BY <3>1, <3>2
  <2>4. g = [k \in 0..n + 1 |-> g[k]]
    OBVIOUS
  <2> HIDE DEF g
  <2>5. g = [k \in 0..n + 1 |-> IF k = 0 THEN 0 ELSE g[k - 1] + rl[k]]
    BY <2>3, <2>4
  <2> QED
    BY <2>5 DEF IsTotalling
<1>7. ASSUME NEW k \in 0..n + 1
      PROVE  /\ \E g : IsTotalling(rl, g, k)
             /\ \A g : IsTotalling(rl, g, k) => g[k] = f2[k]
  <2>1. CASE k = n + 1
    BY <1>5, <1>6, <2>1
  <2>2. CASE k # n + 1
    <3>1. k \in 0..n
      BY <2>2
    <3> QED
      BY <1>1, <1>4, <3>1
  <2> QED
    BY <2>1, <2>2
<1> QED
  BY <1>3, <1>7 DEF Totals

(* What Total is, up to a row with a running total. *)
LEMMA BytesAddUp ==
    ASSUME NEW rl, NEW n \in Nat, Totals(rl, n)
    PROVE  /\ \A k \in 0..n : Total(rl, k) \in Nat
           /\ \A k \in 0..n - 1 : Total(rl, k + 1) = Total(rl, k) + rl[k + 1]
<1>1. PICK f \in [0..n -> Nat] :
        \A k \in 0..n : /\ \E g : IsTotalling(rl, g, k)
                        /\ \A g : IsTotalling(rl, g, k) => g[k] = f[k]
  BY DEF Totals
<1>2. ASSUME NEW k \in 0..n
      PROVE  IsTotalling(rl, CHOOSE g : IsTotalling(rl, g, k), k)
  <2>1. \E g : IsTotalling(rl, g, k)
    BY <1>1
  <2> QED
    BY <2>1, Zenon
<1>3. ASSUME NEW k \in 0..n PROVE Total(rl, k) = f[k]
  <2>1. (CHOOSE g : IsTotalling(rl, g, k))[k] = f[k]
    BY <1>1, <1>2, Zenon
  <2> QED
    BY <2>1, TotalIs, Zenon
<1>4. ASSUME NEW k \in 0..n - 1 PROVE f[k + 1] = f[k] + rl[k + 1]
  <2>1. k \in Nat /\ k \in 0..n /\ k + 1 \in 0..n
    OBVIOUS
  <2>2. PICK g : IsTotalling(rl, g, k + 1)
    BY <1>1, <2>1
  <2> DEFINE h == [j \in 0..k |-> g[j]]
  <2>3. IsTotalling(rl, h, k) /\ g[k + 1] = g[k] + rl[k + 1]
    BY <2>1, <2>2, TotallingShorter
  <2>4. h[k] = g[k]
    BY <2>1
  <2> HIDE DEF h
  <2>5. h[k] = f[k] /\ g[k + 1] = f[k + 1]
    BY <1>1, <2>1, <2>2, <2>3
  <2> QED
    BY <2>3, <2>4, <2>5
<1>5. \A k \in 0..n - 1 : k \in 0..n /\ k + 1 \in 0..n
  OBVIOUS
<1>6. \A k \in 0..n : f[k] \in Nat
  OBVIOUS
<1> QED
  BY <1>3, <1>4, <1>5, <1>6

(* The bytes of some consecutive rows, and what BulksAreFull says of one *)
(* package, for rows of lengths rl.                                      *)
BytesIn(rl, rows) == Total(rl, rows[Len(rows)]) - Total(rl, rows[1] - 1)

IsFull(rl, rows, more) ==
    rows # <<>> => /\ more => BytesIn(rl, rows) >= MAX_TRX_BUFFER_SZ
                   /\ BytesIn(rl, rows) - rl[rows[Len(rows)]] < MAX_TRX_BUFFER_SZ

LEMMA BulksAreFullIs ==
    BulksAreFull <=> \A k \in DOMAIN channel :
                       IsFull(rowLen, channel[k].msg.rows, channel[k].cont)
BY DEF BulksAreFull, IsFull, BytesIn, BulkBytes, BytesUpTo, Total

LEMMA BulksAreFullNext ==
    BulksAreFull' <=> \A k \in DOMAIN channel' :
                       IsFull(rowLen', channel'[k].msg.rows, channel'[k].cont)
<1>1. (BulksAreFull <=> \A k \in DOMAIN channel :
                          IsFull(rowLen, channel[k].msg.rows, channel[k].cont))'
  BY BulksAreFullIs, PTL
<1> QED
  BY <1>1

(* The bytes of the message under construction are counted, and they were  *)
(* too few before its last row.                                            *)
BytesCounted ==
    LET rows == protobufRespond.rows IN
    /\ rows = <<>> => totalBulkSz = 0
    /\ rows # <<>> => /\ totalBulkSz = BytesIn(rowLen, rows)
                      /\ totalBulkSz - rowLen[rows[Len(rows)]] < MAX_TRX_BUFFER_SZ

FullInv ==
    /\ Totals(rowLen, count)
    /\ BytesCounted
    /\ spc = "send" /\ cont => totalBulkSz >= MAX_TRX_BUFFER_SZ
    /\ BulksAreFull

LEMMA InitFull == Init => FullInv
<1> SUFFICES ASSUME Init PROVE FullInv
  OBVIOUS
<1>1. Totals(rowLen, count)
  BY TotalsZero DEF Init
<1>2. DOMAIN channel = {}
  BY DEF Init
<1> QED
  BY <1>1, <1>2 DEF Init, FullInv, BytesCounted, BulksAreFull, Cleared

(* Steps that leave the bytes alone. *)
LEMMA FullStays ==
    ASSUME FullInv, rowLen' = rowLen, count' = count, totalBulkSz' = totalBulkSz,
           protobufRespond'.rows = protobufRespond.rows,
           spc' = "send" /\ cont' => totalBulkSz >= MAX_TRX_BUFFER_SZ,
           \A k \in DOMAIN channel' :
             IsFull(rowLen, channel'[k].msg.rows, channel'[k].cont)
    PROVE  FullInv'
BY BulksAreFullNext DEF FullInv, BytesCounted

LEMMA FullAddRow ==
    ASSUME IInv, IInv', FullInv, AddRow
    PROVE  FullInv'
<1> DEFINE rows == protobufRespond.rows
<1>1. /\ spc = "fill" /\ ~(totalBulkSz >= MAX_TRX_BUFFER_SZ) /\ count # total
      /\ count' = count + 1 /\ totalBulkSz' = totalBulkSz + rowLen[count + 1]
      /\ protobufRespond' = [protobufRespond EXCEPT !.rows = Append(@, count + 1)]
      /\ spc' = spc /\ rowLen' = rowLen /\ channel' = channel
  BY DEF AddRow, BulkFull, isEndOfSet, query
<1>2. /\ count \in Nat /\ total \in Nat /\ count + 1 \in 1..total
      /\ rowLen[count + 1] \in Nat /\ totalBulkSz \in Nat /\ protobufRespond \in Respond
  <2>1. /\ count \in 0..total /\ total \in Nat
        /\ rowLen \in [1..total -> 0..MaxRowLen]
        /\ totalBulkSz \in Nat /\ protobufRespond \in Respond
    BY DEF IInv, TypeOK
  <2>2. count + 1 \in 1..total
    BY <1>1, <2>1
  <2> QED
    BY <2>1, <2>2
<1>3. /\ rows \in Seq(Rows) /\ Len(rows) \in Nat /\ Len(rows) <= count
      /\ \A i \in 1..Len(rows) : rows[i] = (count - Len(rows)) + i
  BY <1>2 DEF Respond, IInv, RowsUnderConstruction, Stretch
<1>4. protobufRespond'.rows = Append(rows, count + 1)
  BY <1>1, <1>2 DEF Respond
<1>5. Totals(rowLen, count + 1)
  BY <1>2, TotalsNext DEF FullInv
<1>6. /\ \A k \in 0..count + 1 : Total(rowLen, k) \in Nat
      /\ Total(rowLen, count + 1) = Total(rowLen, count) + rowLen[count + 1]
  <2>1. count + 1 \in Nat /\ count \in 0 .. (count + 1) - 1
    BY <1>2
  <2> QED
    BY <1>5, <2>1, BytesAddUp
<1>7. totalBulkSz' = BytesIn(rowLen, Append(rows, count + 1))
  <2> DEFINE rows2 == Append(rows, count + 1)
  <2>1. Len(rows2) = Len(rows) + 1 /\ rows2[Len(rows) + 1] = count + 1
        /\ \A i \in 1..Len(rows) : rows2[i] = rows[i]
    BY <1>3
  <2> HIDE DEF rows2
  <2>2. CASE rows = <<>>
    <3>1. rows2[1] = count + 1 /\ Len(rows2) = 1 /\ totalBulkSz = 0
      BY <2>1, <2>2 DEF FullInv, BytesCounted
    <3>2. (count + 1) - 1 = count /\ count \in 0..count + 1
      BY <1>2
    <3>3. BytesIn(rowLen, rows2) = Total(rowLen, count + 1) - Total(rowLen, count)
      BY <3>1, <3>2 DEF BytesIn
    <3>4. BytesIn(rowLen, rows2) = rowLen[count + 1]
      BY <1>2, <1>6, <3>2, <3>3
    <3> QED
      BY <1>1, <1>2, <3>1, <3>4 DEF rows2
  <2>3. CASE rows # <<>>
    <3>1. Len(rows) >= 1
      BY <1>3, <2>3
    <3>0. /\ rows[Len(rows)] = (count - Len(rows)) + Len(rows)
          /\ rows[1] = (count - Len(rows)) + 1 /\ rows2[1] = rows[1]
      <4>1. Len(rows) \in 1..Len(rows) /\ 1 \in 1..Len(rows)
        BY <1>3, <3>1
      <4> HIDE DEF rows
      <4> QED
        BY <1>3, <2>1, <4>1
    <3>2. rows[Len(rows)] = count /\ rows2[Len(rows2)] = count + 1 /\ rows2[1] = rows[1]
      <4> HIDE DEF rows
      <4> QED
        BY <1>2, <1>3, <2>1, <3>0
    <3>3. rows[1] - 1 = count - Len(rows) /\ rows[1] - 1 \in 0..count + 1
      <4> HIDE DEF rows
      <4> QED
        BY <1>2, <1>3, <3>0, <3>1
    <3>4. totalBulkSz = Total(rowLen, count) - Total(rowLen, rows[1] - 1)
      BY <2>3, <3>2 DEF FullInv, BytesCounted, BytesIn
    <3>5. BytesIn(rowLen, rows2) = Total(rowLen, count + 1) - Total(rowLen, rows[1] - 1)
      BY <3>2 DEF BytesIn
    <3>6. Total(rowLen, count) \in Nat /\ Total(rowLen, rows[1] - 1) \in Nat
      <4>1. count \in 0..count + 1
        BY <1>2
      <4> QED
        BY <1>6, <3>3, <4>1
    <3>7. BytesIn(rowLen, rows2) = totalBulkSz + rowLen[count + 1]
      BY <1>2, <1>6, <3>4, <3>5, <3>6
    <3> QED
      BY <1>1, <3>7 DEF rows2
  <2> QED
    BY <2>2, <2>3
<1>8. BytesCounted'
  <2>1. Append(rows, count + 1) # <<>>
        /\ Append(rows, count + 1)[Len(Append(rows, count + 1))] = count + 1
    BY <1>3
  <2>2. totalBulkSz' - rowLen[count + 1] < MAX_TRX_BUFFER_SZ
    BY <1>1, <1>2
  <2> QED
    BY <1>1, <1>4, <1>7, <2>1, <2>2 DEF BytesCounted
<1>9. BulksAreFull'
  BY <1>1, BulksAreFullIs, BulksAreFullNext DEF FullInv
<1> QED
  BY <1>1, <1>5, <1>8, <1>9 DEF FullInv

LEMMA FullSend ==
    ASSUME IInv, IInv', FullInv, sendBulk
    PROVE  FullInv'
<1> DEFINE p == [msg |-> protobufRespond, cont |-> cont]
<1>1. /\ spc = "send" /\ spc' # "send" /\ channel' = Append(channel, p)
      /\ rowLen' = rowLen /\ count' = count
  BY DEF sendBulk, query
<1>2. \/ protobufRespond' = Cleared /\ totalBulkSz' = 0
      \/ protobufRespond' = protobufRespond /\ totalBulkSz' = totalBulkSz
  BY DEF sendBulk
<1>3. /\ channel \in Seq(Package) /\ Len(channel) \in Nat
      /\ channel' \in Seq(Package) /\ Len(channel') = Len(channel) + 1
      /\ \A k \in 1..Len(channel) : channel'[k] = channel[k]
      /\ channel'[Len(channel) + 1] = p
  <2>1. channel \in Seq(Package) /\ channel' \in Seq(Package)
    BY DEF IInv, TypeOK
  <2> HIDE DEF p
  <2> QED
    BY <1>1, <2>1, AppendProperties
<1>4. IsFull(rowLen, protobufRespond.rows, cont)
  BY <1>1 DEF FullInv, BytesCounted, IsFull
<1>5. BulksAreFull'
  <2>1. ASSUME NEW k \in DOMAIN channel'
        PROVE  IsFull(rowLen', channel'[k].msg.rows, channel'[k].cont)
    <3>1. k \in 1..Len(channel) \/ k = Len(channel) + 1
      BY <1>3
    <3>2. CASE k \in 1..Len(channel)
      <4>1. k \in DOMAIN channel
        BY <1>3, <3>2
      <4>2. IsFull(rowLen, channel[k].msg.rows, channel[k].cont)
        BY <4>1, BulksAreFullIs DEF FullInv
      <4> QED
        BY <1>1, <1>3, <3>2, <4>2
    <3>3. CASE k = Len(channel) + 1
      BY <1>1, <1>3, <1>4, <3>3
    <3> QED
      BY <3>1, <3>2, <3>3
  <2> QED
    BY <2>1, BulksAreFullNext
<1>6. BytesCounted'
  BY <1>1, <1>2 DEF FullInv, BytesCounted, Cleared
<1> QED
  BY <1>1, <1>5, <1>6 DEF FullInv

LEMMA NextFull ==
    ASSUME IInv, IInv', FullInv, [Next]_vars
    PROVE  FullInv'
<1>0. \A k \in DOMAIN channel : IsFull(rowLen, channel[k].msg.rows, channel[k].cont)
  BY BulksAreFullIs DEF FullInv
<1>1. CASE ExecuteToNull \/ ExecuteToSet
  <2>1. protobufRespond'.rows = <<>> /\ protobufRespond.rows = <<>>
    <3>1. count = 0 /\ Len(protobufRespond.rows) = 0 /\ protobufRespond.rows \in Seq(Rows)
      <4>1. count = 0
        BY <1>1 DEF ExecuteToNull, ExecuteToSet, IInv, ServerControl
      <4>2. protobufRespond.rows \in Seq(Rows) /\ Len(protobufRespond.rows) <= count
        BY DEF IInv, TypeOK, Respond, RowsUnderConstruction
      <4> QED
        BY <4>1, <4>2
    <3> QED
      BY <1>1, <3>1, EmptySeq DEF ExecuteToNull, ExecuteToSet, Cleared
  <2>2. /\ UNCHANGED <<rowLen, count, totalBulkSz, channel>>
        /\ spc' = "send" => ~cont'
    BY <1>1 DEF ExecuteToNull, ExecuteToSet, query
  <2> QED
    BY <1>0, <2>1, <2>2, FullStays
<1>2. CASE ExecuteThrows \/ RowThrows \/ SendThrows
  <2>1. protobufRespond'.rows = protobufRespond.rows
    BY <1>2 DEF ExecuteThrows, RowThrows, SendThrows, CatchException, IInv, TypeOK, Respond
  <2>2. UNCHANGED <<rowLen, count, totalBulkSz, channel>> /\ spc' # "send"
    BY <1>2 DEF ExecuteThrows, RowThrows, SendThrows, CatchException, query
  <2> QED
    BY <1>0, <2>1, <2>2, FullStays
<1>3. CASE AddRow
  BY <1>3, FullAddRow
<1>4. CASE EndBulk
  <2>1. protobufRespond'.rows = protobufRespond.rows
    BY <1>4 DEF EndBulk, finalizeStream, IInv, TypeOK, Respond
  <2>2. UNCHANGED <<rowLen, count, totalBulkSz, channel>>
    BY <1>4 DEF EndBulk, query
  <2>3. cont' => totalBulkSz >= MAX_TRX_BUFFER_SZ
    BY <1>4 DEF EndBulk, BulkFull
  <2> QED
    BY <1>0, <2>1, <2>2, <2>3, FullStays
<1>5. CASE sendBulk
  BY <1>5, FullSend
<1>6. CASE SendKilled \/ Cleanup
  <2>1. /\ UNCHANGED <<rowLen, count, totalBulkSz, channel, protobufRespond>>
        /\ spc' # "send"
    BY <1>6 DEF SendKilled, Cleanup, query
  <2> QED
    BY <1>0, <2>1, FullStays
<1>7. CASE RecvBulk
  <2>1. UNCHANGED <<rowLen, count, totalBulkSz, protobufRespond, spc, cont>>
    BY <1>7 DEF RecvBulk, query, serverVars
  <2>2. /\ channel # <<>> /\ channel' = Tail(channel)
        /\ channel \in Seq(Package) /\ channel' \in Seq(Package)
    BY <1>7 DEF RecvBulk, IInv, TypeOK
  <2>3. ASSUME NEW k \in DOMAIN channel'
        PROVE  IsFull(rowLen, channel'[k].msg.rows, channel'[k].cont)
    <3>1. k \in 1..Len(channel') /\ channel'[k] = channel[k + 1] /\ k + 1 \in 1..Len(channel)
      <4>1. k \in 1..Len(channel') /\ Len(channel') = Len(channel) - 1
            /\ Len(channel) \in Nat
        BY <2>2, ChannelHead
      <4> QED
        BY <2>2, <4>1, ChannelHead
    <3>2. k + 1 \in DOMAIN channel
      BY <2>2, <3>1
    <3> QED
      BY <1>0, <3>1, <3>2
  <2>4. spc' = "send" /\ cont' => totalBulkSz >= MAX_TRX_BUFFER_SZ
    BY <2>1 DEF FullInv
  <2> QED
    BY <2>1, <2>3, <2>4, FullStays
<1>8. CASE RecvEof \/ RecvThrows \/ UNCHANGED vars
  <2>1. UNCHANGED <<rowLen, count, totalBulkSz, protobufRespond, spc, cont, channel>>
    BY <1>8 DEF RecvEof, RecvThrows, vars, query, serverVars
  <2>2. spc' = "send" /\ cont' => totalBulkSz >= MAX_TRX_BUFFER_SZ
    BY <2>1 DEF FullInv
  <2> QED
    BY <1>0, <2>1, <2>2, FullStays
<1> QED
  BY <1>1, <1>2, <1>3, <1>4, <1>5, <1>6, <1>7, <1>8
  DEF Next, Server, Client, Execute, Fill, Send, Finished

(* Every bulk but the last one reaches MAX_TRX_BUFFER_SZ, and none goes on *)
(* after reaching it (the inner loop of handleProtoBuffSend), for rows of  *)
(* any lengths and any limit.                                              *)
THEOREM FullnessOfBulks == Spec => []BulksAreFull
<1>1. IInv /\ IInv' /\ FullInv /\ [Next]_vars => FullInv'
  BY NextFull
<1>2. FullInv => BulksAreFull
  BY DEF FullInv
<1> QED
  BY <1>1, <1>2, InitFull, Invariance, PTL DEF Spec

------------------------------------------------------------------------------
(* The stream implements the reply its client may rely on. *)

(* The outcome of the reply, as Reply takes it from the client's place. *)
Outcome ==
    CASE cpc = "recv" -> "open"
      [] cpc = "complete" /\ resultSet = "none" -> "acknowledged"
      [] cpc = "complete" /\ resultSet # "none" -> "complete"
      [] cpc \in {"eof", "failed"} -> "broken"

LEMMA OutcomeIs ==
    /\ cpc = "recv" => Outcome = "open"
    /\ cpc = "complete" /\ resultSet = "none" => Outcome = "acknowledged"
    /\ cpc = "complete" /\ resultSet # "none" => Outcome = "complete"
    /\ cpc \in {"eof", "failed"} => Outcome = "broken"
BY DEF Outcome

LEMMA OutcomeNext ==
    /\ cpc' = "recv" => Outcome' = "open"
    /\ cpc' = "complete" /\ resultSet' = "none" => Outcome' = "acknowledged"
    /\ cpc' = "complete" /\ resultSet' # "none" => Outcome' = "complete"
    /\ cpc' \in {"eof", "failed"} => Outcome' = "broken"
BY DEF Outcome

(* What the client has is so many rows of the answer, from the first on. *)
LEMMA ReceivedIs ==
    ASSUME IInv
    PROVE  /\ Len(received) \in 0..total
           /\ received = Reply!FirstRows(Len(received))
<1>1. received \in Seq(Rows) /\ count \in 0..total /\ total \in Nat
  BY DEF IInv, TypeOK
<1>2. Len(received) <= count /\ \A i \in 1..Len(received) : received[i] = 0 + i
  BY DEF IInv, RowsInOrder, Stretch
<1>3. \A i \in 1..Len(received) : received[i] = i
  BY <1>2
<1>4. received = [i \in 1..Len(received) |-> received[i]]
  BY <1>1
<1> QED
  BY <1>1, <1>2, <1>3, <1>4 DEF Reply!FirstRows

LEMMA ReceivedNext ==
    IInv' => /\ Len(received') \in 0..total'
             /\ received' = Reply!FirstRows(Len(received'))
<1>1. (IInv => /\ Len(received) \in 0..total
               /\ received = Reply!FirstRows(Len(received)))'
  BY ReceivedIs, PTL
<1> QED
  BY <1>1 DEF Reply!FirstRows

(* Every step of the stream is a step of the reply, or none. *)
LEMMA StepReply ==
    ASSUME IInv, IInv', [Next]_vars
    PROVE  [Reply!Next]_Reply!vars
<1> USE DEF Reply!vars
<1>1. CASE RecvBulk
  <2>1. /\ cpc = "recv" /\ total' = total /\ resultSet' = resultSet
        /\ cpc' \in {"recv", "complete", "failed"}
    BY <1>1 DEF RecvBulk, query, serverVars
  <2>2. /\ Outcome = "open" /\ Len(received') \in 0..total
        /\ received' = Reply!FirstRows(Len(received'))
        /\ Len(received') \in Nat /\ Len(received) \in Nat /\ total \in Nat
    <3>1. total \in Nat /\ received \in Seq(Rows) /\ received' \in Seq(Rows)
      BY DEF IInv, TypeOK
    <3> QED
      BY <2>1, <3>1, OutcomeIs, ReceivedNext
  <2>3. Len(received) <= Len(received')
    <3>1. received \in Seq(Rows) /\ Head(channel).msg.rows \in Seq(Rows)
      <4>1. channel # <<>> /\ channel \in Seq(Package) /\ received \in Seq(Rows)
        BY <1>1 DEF RecvBulk, IInv, TypeOK
      <4> QED
        BY <4>1, ChannelHead DEF Package, Respond
    <3>2. received' = received \o Head(channel).msg.rows
      BY <1>1 DEF RecvBulk, consume
    <3> QED
      BY <3>1, <3>2
  <2>4. CASE cpc' = "recv"
    <3>1. Outcome' = "open"
      BY <2>4, OutcomeNext
    <3>2. CASE Len(received') = Len(received)
      <4>1. received' = received
        BY <2>2, <3>2, ReceivedIs
      <4> QED
        BY <2>1, <2>2, <3>1, <4>1 DEF Outcome
    <3>3. CASE Len(received') # Len(received)
      <4>1. Len(received') \in Len(received) + 1 .. total
        BY <2>2, <2>3, <3>3
      <4>2. Reply!Deliver
        BY <2>1, <2>2, <3>1, <4>1 DEF Reply!Deliver, Outcome
      <4> QED
        BY <4>2 DEF Reply!Next
    <3> QED
      BY <3>2, <3>3
  <2>5. CASE cpc' = "complete" /\ resultSet = "none"
    <3>1. received' = <<>> /\ received = <<>>
      <4>1. count = 0 /\ Len(received) <= count /\ Len(received') <= count'
            /\ count' = count /\ received \in Seq(Rows) /\ received' \in Seq(Rows)
        BY <1>1, <2>5 DEF RecvBulk, serverVars, IInv, TypeOK, ServerControl, RowsInOrder
      <4>2. Len(received) = 0 /\ Len(received') = 0
        BY <2>2, <4>1
      <4> QED
        BY <4>1, <4>2, EmptySeq
    <3>2. Outcome' = "acknowledged"
      BY <2>1, <2>5, OutcomeNext
    <3>3. Reply!Acknowledge
      BY <2>1, <2>2, <3>1, <3>2 DEF Reply!Acknowledge, Outcome
    <3> QED
      BY <3>3 DEF Reply!Next
  <2>6. CASE cpc' = "complete" /\ resultSet # "none"
    <3>1. Outcome' = "complete"
      BY <2>1, <2>6, OutcomeNext
    <3>2. Len(received') = total
      BY <2>1, <2>6 DEF IInv, CompleteMeansAll
    <3>3. Reply!Complete
      BY <2>1, <2>2, <3>1, <3>2 DEF Reply!Complete, Outcome
    <3> QED
      BY <3>3 DEF Reply!Next
  <2>7. CASE cpc' = "failed"
    <3>1. Outcome' = "broken"
      BY <2>7, OutcomeNext
    <3>2. Len(received') \in Len(received) .. total
      BY <2>2, <2>3
    <3>3. Reply!BreakOff
      BY <2>1, <2>2, <3>1, <3>2 DEF Reply!BreakOff, Outcome
    <3> QED
      BY <3>3 DEF Reply!Next
  <2> QED
    BY <2>1, <2>4, <2>5, <2>6, <2>7
<1>2. CASE RecvEof \/ RecvThrows
  <2>1. /\ cpc = "recv" /\ cpc' \in {"eof", "failed"} /\ total' = total
        /\ received' = received
    BY <1>2 DEF RecvEof, RecvThrows, query
  <2>2. Outcome = "open" /\ Outcome' = "broken"
    BY <2>1, OutcomeIs, OutcomeNext
  <2>3. /\ Len(received) \in Len(received) .. total
        /\ received' = Reply!FirstRows(Len(received))
    <3>1. Len(received) \in 0..total /\ received = Reply!FirstRows(Len(received))
      BY ReceivedIs
    <3>2. total \in Nat
      BY DEF IInv, TypeOK
    <3> QED
      BY <2>1, <3>1, <3>2
  <2>4. Reply!BreakOff
    BY <2>1, <2>2, <2>3 DEF Reply!BreakOff, Outcome
  <2> QED
    BY <2>4 DEF Reply!Next
<1>3. CASE Server \/ Finished \/ UNCHANGED vars
  <2>1. /\ UNCHANGED <<total, received, cpc>>
        /\ cpc = "complete" => (resultSet = "none" <=> resultSet' = "none")
    <3>1. CASE Execute
      <4>1. spc = "execute" /\ UNCHANGED <<total, received, cpc>>
        BY <3>1 DEF Execute, ExecuteToNull, ExecuteToSet, ExecuteThrows, query, clientVars
      <4> QED
        BY <4>1 DEF IInv, ServerControl
    <3>2. CASE Fill
      BY <3>2 DEF Fill, AddRow, RowThrows, EndBulk, CatchException, query, clientVars
    <3>3. CASE Send \/ Cleanup
      BY <3>3 DEF Send, sendBulk, SendThrows, SendKilled, Cleanup, CatchException,
                  query, clientVars
    <3>4. CASE Finished \/ UNCHANGED vars
      BY <3>4 DEF Finished, vars, query, serverVars, clientVars
    <3> QED
      BY <1>3, <3>1, <3>2, <3>3, <3>4 DEF Server
  <2>2. cpc \in {"recv", "complete", "eof", "failed"}
    BY DEF IInv, TypeOK
  <2>3. Outcome' = Outcome
    BY <2>1, <2>2, OutcomeIs, OutcomeNext
  <2> QED
    BY <2>1, <2>3 DEF Outcome
<1> QED
  BY <1>1, <1>2, <1>3 DEF Next, Client

(* What the client sees of the stream is what BulkReply allows: the first  *)
(* rows of the answer, more of them with each message, and the word that   *)
(* it is complete with the last of them only.                              *)
THEOREM ReplySteps == Spec => Reply!Init /\ [][Reply!Next]_Reply!vars
<1>1. Init => Reply!Init
  <2> SUFFICES ASSUME Init PROVE Reply!Init
    OBVIOUS
  <2>1. total \in 0..MaxRows /\ received = <<>> /\ Outcome = "open"
    BY OutcomeIs DEF Init
  <2> QED
    BY <2>1 DEF Reply!Init, Outcome
<1>2. IInv /\ IInv' /\ [Next]_vars => [Reply!Next]_Reply!vars
  BY StepReply
<1> QED
  BY <1>1, <1>2, Invariance, PTL DEF Spec

==============================================================================
