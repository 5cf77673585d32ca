-------------------------- MODULE MessageStore_proofs --------------------------
(***************************************************************************)
(* For any lines the user may type and any sizes: what the runs of         *)
(* MCMessageStore show for a few names.                                    *)
(***************************************************************************)
EXTENDS MessageStore, TLAPS

(* What is sent to a full name is addressed to it, and was typed while the *)
(* stream was good.                                                        *)
SentToNamesakes ==
    \A o \in FullNames : \A i \in 1..Len(sent[o]) : fullName(sent[o][i].m_to) = o

Typed == {Cut(l, MAX_MSG_SIZE) : l \in TextLines}

SentAsTyped ==
    good => \A o \in FullNames : \A i \in 1..Len(sent[o]) : sent[o][i].m_msg \in Typed

IInv == /\ TypeOK
        /\ BothUsersExist
        /\ KeptUntilShown
        /\ SentToNamesakes
        /\ ShownToNamesakes
        /\ SentAsTyped
        /\ ShownAsTyped

(* The names read are names of users. *)
LEMMA NamesRead ==
    ASSUME NEW r \in NameReads
    PROVE  parseUser(r.chunk) \in Users /\ fullName(parseUser(r.chunk)) \in FullNames
  BY DEF Users, FullNames

(* A text read while the stream stays good was typed. *)
LEMMA TextsRead ==
    ASSUME NEW r \in TextReads, r.good
    PROVE  r.chunk \in Typed
  BY DEF TextReads, Reads, Typed

(* A message in the making belongs to the messages. *)
LEMMA MessageTyped ==
    ASSUME TypeOK, BothUsersExist, ui = "text", NEW r \in TextReads
    PROVE  /\ [m_from |-> userFrom, m_to |-> userTo, m_msg |-> r.chunk] \in UserMsgs
           /\ fullName(userTo) \in DOMAIN m_usersByHash
           /\ fullName(userTo) \in FullNames
  BY DEF TypeOK, BothUsersExist, UserMsgs, doesUserExist

(***************************************************************************)
(* Types.                                                                  *)
(***************************************************************************)

(* Types hold initially. *)
LEMMA InitTypeOK == Init => TypeOK
  BY DEF Init, TypeOK, Asking, NoUser

(* A step keeps types. *)
LEMMA StepTypeOK == TypeOK /\ BothUsersExist /\ [Next]_vars => TypeOK'
  <1> SUFFICES ASSUME TypeOK, BothUsersExist, [Next]_vars PROVE TypeOK'
    OBVIOUS
  <1> USE DEF TypeOK, Asking
  <1>1. CASE readUserRequest
    BY <1>1 DEF readUserRequest, boxes, dialog, Options
  <1>2. CASE StreamNotGood
    BY <1>2 DEF StreamNotGood, boxes, dialog
  <1>3. CASE handleAddUser
    <2>1. PICK r \in NameReads :
            /\ Read("add", r)
            /\ addUser(parseUser(r.chunk)) \/ userExists(parseUser(r.chunk))
            /\ ui' = "menu"
            /\ UNCHANGED dialog
      BY <1>3 DEF handleAddUser
    <2>2. r.good \in BOOLEAN
      BY DEF NameReads, Reads
    <2>3. CASE addUser(parseUser(r.chunk))
      <3> DEFINE o == fullName(parseUser(r.chunk))
      <3>1. o \in FullNames
        BY NamesRead
      <3>2. m_usersByHash' \in [DOMAIN m_usersByHash \cup {o} -> Seq(UserMsgs)]
        BY <2>3 DEF addUser
      <3>3. QED
        BY <2>1, <2>2, <2>3, <3>1, <3>2 DEF Read, addUser, dialog
    <2>4. CASE userExists(parseUser(r.chunk))
      BY <2>1, <2>2, <2>4 DEF Read, userExists, dialog, boxes
    <2>5. QED
      BY <2>1, <2>3, <2>4
  <1>4. CASE handleSendFrom
    BY <1>4, NamesRead DEF handleSendFrom, Read, boxes, NameReads, Reads
  <1>5. CASE handleSendTo
    BY <1>5, NamesRead DEF handleSendTo, Read, boxes, NameReads, Reads
  <1>6. CASE handleSendText
    <2>1. PICK r \in TextReads :
            /\ Read("text", r)
            /\ sendToUser([m_from |-> userFrom, m_to |-> userTo, m_msg |-> r.chunk])
            /\ ui' = "menu"
            /\ userFrom' = NoUser
            /\ userTo' = NoUser
      BY <1>6 DEF handleSendText
    <2> DEFINE msg == [m_from |-> userFrom, m_to |-> userTo, m_msg |-> r.chunk]
               o == fullName(userTo)
    <2>2. msg \in UserMsgs /\ o \in DOMAIN m_usersByHash /\ o \in FullNames
      BY <2>1, MessageTyped DEF Read
    <2>3. r.good \in BOOLEAN
      BY DEF TextReads, Reads
    <2>4. /\ m_usersByHash' = [m_usersByHash EXCEPT ![o] = Append(@, msg)]
          /\ sent' = [sent EXCEPT ![o] = Append(@, msg)]
          /\ shown' = shown
      BY <2>1 DEF sendToUser
    <2>5. m_usersByHash' \in [DOMAIN m_usersByHash -> Seq(UserMsgs)]
      BY <2>2, <2>4
    <2>6. sent' \in [FullNames -> Seq(UserMsgs)]
      BY <2>2, <2>4
    <2> HIDE DEF msg, o
    <2>7. QED
      BY <2>1, <2>3, <2>4, <2>5, <2>6 DEF Read
  <1>7. CASE handleRecvForUser
    <2>1. PICK r \in NameReads :
            /\ Read("recv", r)
            /\ IF doesUserExist(parseUser(r.chunk))
               THEN getUserMessages(parseUser(r.chunk)) ELSE UNCHANGED boxes
            /\ ui' = "menu"
            /\ UNCHANGED dialog
      BY <1>7 DEF handleRecvForUser
    <2> DEFINE o == fullName(parseUser(r.chunk))
    <2>2. r.good \in BOOLEAN
      BY DEF NameReads, Reads
    <2>3. CASE o \in DOMAIN m_usersByHash
      <3>1. /\ shown' = [shown EXCEPT ![o] = @ \o m_usersByHash[o]]
            /\ m_usersByHash' = [m_usersByHash EXCEPT ![o] = <<>>]
            /\ sent' = sent
        BY <2>1, <2>3 DEF doesUserExist, getUserMessages
      <3> HIDE DEF o
      <3>0. <<>> \in Seq(UserMsgs)
        OBVIOUS
      <3>2. m_usersByHash' \in [DOMAIN m_usersByHash -> Seq(UserMsgs)]
        BY <3>0, <3>1
      <3>3. shown' \in [FullNames -> Seq(UserMsgs)]
        BY <2>3, <3>1
      <3>4. QED
        BY <2>1, <2>2, <3>1, <3>2, <3>3 DEF Read, dialog
    <2>4. CASE o \notin DOMAIN m_usersByHash
      BY <2>1, <2>2, <2>4 DEF doesUserExist, boxes, Read, dialog
    <2>5. QED
      BY <2>3, <2>4
  <1>8. CASE waitForUiThread
    BY <1>8 DEF waitForUiThread, boxes, dialog
  <1>9. CASE Over \/ UNCHANGED vars
    BY <1>9 DEF Over, vars
  <1>10. QED
    BY <1>1, <1>2, <1>3, <1>4, <1>5, <1>6, <1>7, <1>8, <1>9 DEF Next, UiThread

(***************************************************************************)
(* What a step does to the boxes.                                          *)
(***************************************************************************)

NewBox(o) ==
    /\ o \in FullNames \ DOMAIN m_usersByHash
    /\ m_usersByHash' = [b \in DOMAIN m_usersByHash \cup {o} |->
                           IF b = o THEN <<>> ELSE m_usersByHash[b]]
    /\ UNCHANGED <<sent, shown>>

NewMail(o, msg) ==
    /\ o \in DOMAIN m_usersByHash /\ msg \in UserMsgs /\ fullName(msg.m_to) = o
    /\ good /\ (good' => msg.m_msg \in Typed)
    /\ m_usersByHash' = [m_usersByHash EXCEPT ![o] = Append(@, msg)]
    /\ sent' = [sent EXCEPT ![o] = Append(@, msg)]
    /\ UNCHANGED shown

MailShown(o) ==
    /\ o \in DOMAIN m_usersByHash
    /\ good
    /\ shown' = [shown EXCEPT ![o] = @ \o m_usersByHash[o]]
    /\ m_usersByHash' = [m_usersByHash EXCEPT ![o] = <<>>]
    /\ UNCHANGED sent

(* A step opens a box, puts a message typed into one, empties one, or *)
(* leaves them alone; a stream once bad stays so.                     *)
LEMMA StepBoxes ==
    ASSUME TypeOK, BothUsersExist, [Next]_vars
    PROVE  /\ good' => good
           /\ \/ \E o \in FullNames : NewBox(o) \/ MailShown(o)
              \/ \E o \in FullNames : \E msg \in UserMsgs : NewMail(o, msg)
              \/ UNCHANGED boxes
  <1>1. CASE readUserRequest
    BY <1>1 DEF readUserRequest
  <1>2. CASE StreamNotGood
    BY <1>2 DEF StreamNotGood
  <1>3. CASE handleAddUser
    BY <1>3, NamesRead DEF handleAddUser, Read, addUser, userExists, doesUserExist, NewBox
  <1>4. CASE handleSendFrom \/ handleSendTo
    BY <1>4 DEF handleSendFrom, handleSendTo, Read
  <1>5. CASE handleSendText
    <2>1. PICK r \in TextReads :
            /\ Read("text", r)
            /\ sendToUser([m_from |-> userFrom, m_to |-> userTo, m_msg |-> r.chunk])
      BY <1>5 DEF handleSendText
    <2> DEFINE msg == [m_from |-> userFrom, m_to |-> userTo, m_msg |-> r.chunk]
    <2>2. /\ msg \in UserMsgs
          /\ fullName(userTo) \in DOMAIN m_usersByHash
          /\ fullName(userTo) \in FullNames
      BY <2>1, MessageTyped DEF Read
    <2>3. good /\ (good' => msg.m_msg \in Typed)
      BY <2>1, TextsRead DEF Read
    <2>4. NewMail(fullName(userTo), msg)
      BY <2>1, <2>2, <2>3 DEF sendToUser, NewMail
    <2>5. QED
      BY <2>2, <2>3, <2>4
  <1>6. CASE handleRecvForUser
    BY <1>6, NamesRead
       DEF handleRecvForUser, Read, doesUserExist, getUserMessages, MailShown
  <1>7. CASE waitForUiThread
    BY <1>7 DEF waitForUiThread
  <1>8. CASE Over \/ UNCHANGED vars
    BY <1>8 DEF Over, vars, boxes
  <1>9. QED
    BY <1>1, <1>2, <1>3, <1>4, <1>5, <1>6, <1>7, <1>8 DEF Next, UiThread

(* Users who have been looked up stay. *)
LEMMA StepBothUsersExist == TypeOK /\ BothUsersExist /\ [Next]_vars => BothUsersExist'
  <1> SUFFICES ASSUME TypeOK, BothUsersExist, [Next]_vars PROVE BothUsersExist'
    OBVIOUS
  <1>1. DOMAIN m_usersByHash \subseteq DOMAIN m_usersByHash'
    BY StepBoxes DEF NewBox, NewMail, MailShown, boxes
  <1>2. CASE readUserRequest
    BY <1>2 DEF readUserRequest, BothUsersExist
  <1>3. CASE StreamNotGood \/ handleAddUser \/ handleSendText \/ handleRecvForUser
    BY <1>3 DEF StreamNotGood, handleAddUser, handleSendText, handleRecvForUser,
                BothUsersExist
  <1>4. CASE handleSendFrom
    BY <1>4 DEF handleSendFrom, BothUsersExist, doesUserExist, boxes
  <1>5. CASE handleSendTo
    BY <1>5 DEF handleSendTo, Read, BothUsersExist, doesUserExist, boxes
  <1>6. CASE waitForUiThread \/ Over \/ UNCHANGED vars
    BY <1>1, <1>6 DEF waitForUiThread, Over, vars, dialog, BothUsersExist, doesUserExist
  <1>7. QED
    BY <1>2, <1>3, <1>4, <1>5, <1>6 DEF Next, UiThread

(***************************************************************************)
(* The invariant.                                                          *)
(***************************************************************************)

(* Nobody has sent or seen anything at first. *)
LEMMA InitIInv == Init => IInv
  <1> SUFFICES ASSUME Init PROVE IInv
    OBVIOUS
  <1>1. TypeOK
    BY InitTypeOK
  <1>2. \A o \in FullNames : sent[o] = <<>> /\ shown[o] = <<>>
    BY DEF Init
  <1>3. BothUsersExist
    BY DEF Init, BothUsersExist
  <1>4. KeptUntilShown
    BY <1>2 DEF Init, KeptUntilShown, Held
  <1>5. SentToNamesakes /\ ShownToNamesakes /\ SentAsTyped /\ ShownAsTyped
    BY <1>2 DEF SentToNamesakes, ShownToNamesakes, SentAsTyped, ShownAsTyped
  <1>6. QED
    BY <1>1, <1>3, <1>4, <1>5 DEF IInv

(* What is shown of a box, with what was shown before, is what was sent. *)
LEMMA ShownIsSent ==
    ASSUME IInv, NEW o \in FullNames, MailShown(o)
    PROVE  shown'[o] = sent[o]
  BY DEF IInv, TypeOK, KeptUntilShown, Held, MailShown

(* A step keeps the invariant. *)
LEMMA StepIInv == IInv /\ [Next]_vars => IInv'
  <1> SUFFICES ASSUME IInv, [Next]_vars PROVE IInv'
    OBVIOUS
  <1> USE DEF IInv
  <1>1. TypeOK' /\ BothUsersExist'
    BY StepTypeOK, StepBothUsersExist
  <1> HIDE DEF IInv
  <1>2. TypeOK /\ BothUsersExist /\ (good' => good)
    BY StepBoxes DEF IInv
  <1>3. CASE \E o \in FullNames : NewBox(o)
    <2>1. PICK o \in FullNames : NewBox(o)
      BY <1>3
    <2>2. \A b \in FullNames : Held(b)' = Held(b)
      BY <2>1 DEF NewBox, Held
    <2>3. sent' = sent /\ shown' = shown
      BY <2>1 DEF NewBox
    <2>4. KeptUntilShown'
      BY <2>2, <2>3 DEF IInv, KeptUntilShown
    <2>5. QED
      BY <1>1, <1>2, <2>3, <2>4
         DEF IInv, SentToNamesakes, ShownToNamesakes, SentAsTyped, ShownAsTyped
  <1>4. CASE \E o \in FullNames : \E msg \in UserMsgs : NewMail(o, msg)
    <2>1. PICK o \in FullNames, msg \in UserMsgs : NewMail(o, msg)
      BY <1>4
    <2>2. shown' = shown
      BY <2>1 DEF NewMail
    <2>3. /\ sent[o] \in Seq(UserMsgs) /\ shown[o] \in Seq(UserMsgs)
          /\ m_usersByHash[o] \in Seq(UserMsgs)
          /\ o \in DOMAIN m_usersByHash
          /\ sent[o] = shown[o] \o m_usersByHash[o]
      BY <1>2, <2>1 DEF NewMail, TypeOK, IInv, KeptUntilShown, Held
    <2>4. sent'[o] = Append(sent[o], msg) /\ Held(o)' = Append(m_usersByHash[o], msg)
      BY <1>2, <2>1, <2>3 DEF NewMail, TypeOK, Held
    <2>5. \A b \in FullNames \ {o} : sent'[b] = sent[b] /\ Held(b)' = Held(b)
      BY <1>2, <2>1 DEF NewMail, TypeOK, Held
    <2>6. sent'[o] = shown'[o] \o Held(o)'
      <3> DEFINE old == shown[o]
                 box == m_usersByHash[o]
      <3>1. old \in Seq(UserMsgs) /\ box \in Seq(UserMsgs)
        BY <2>3
      <3>2. Append(old \o box, msg) = old \o Append(box, msg)
        <4> HIDE DEF old, box
        <4>1. QED
          BY <3>1
      <3>3. QED
        BY <2>2, <2>3, <2>4, <3>2
    <2>7. KeptUntilShown'
      BY <2>2, <2>5, <2>6 DEF IInv, KeptUntilShown
    <2>8. \A i \in 1..Len(sent'[o]) :
            \/ i \in 1..Len(sent[o]) /\ sent'[o][i] = sent[o][i]
            \/ sent'[o][i] = msg
      BY <2>3, <2>4
    <2>9. SentToNamesakes'
      BY <2>1, <2>5, <2>8 DEF IInv, SentToNamesakes, NewMail
    <2>10. SentAsTyped'
      BY <1>2, <2>1, <2>5, <2>8 DEF IInv, SentAsTyped, NewMail
    <2>11. QED
      BY <1>1, <2>2, <2>7, <2>9, <2>10 DEF IInv, ShownToNamesakes, ShownAsTyped, Typed
  <1>5. CASE \E o \in FullNames : MailShown(o)
    <2>1. PICK o \in FullNames : MailShown(o)
      BY <1>5
    <2>2. shown'[o] = sent[o] /\ sent' = sent /\ good
      BY <2>1, ShownIsSent DEF MailShown
    <2>3. \A b \in FullNames \ {o} : shown'[b] = shown[b] /\ Held(b)' = Held(b)
      BY <1>2, <2>1 DEF MailShown, TypeOK, Held
    <2>4. Held(o)' = <<>> /\ sent[o] \in Seq(UserMsgs)
      BY <1>2, <2>1 DEF MailShown, TypeOK, Held
    <2>5. sent'[o] = shown'[o] \o Held(o)'
      BY <2>2, <2>4
    <2>6. KeptUntilShown'
      BY <2>2, <2>3, <2>5 DEF IInv, KeptUntilShown
    <2>7. ShownToNamesakes'
      BY <2>2, <2>3 DEF IInv, ShownToNamesakes, SentToNamesakes
    <2>8. ShownAsTyped'
      BY <2>2, <2>3 DEF IInv, ShownAsTyped, SentAsTyped, Typed
    <2>9. QED
      BY <1>1, <2>2, <2>6, <2>7, <2>8 DEF IInv, SentToNamesakes, SentAsTyped
  <1>6. CASE UNCHANGED boxes
    BY <1>1, <1>2, <1>6 DEF IInv, boxes, KeptUntilShown, Held, SentToNamesakes,
       ShownToNamesakes, SentAsTyped, ShownAsTyped
  <1>7. QED
    BY <1>2, <1>3, <1>4, <1>5, <1>6, StepBoxes

(* Every session of the user interface keeps the invariant. *)
THEOREM Invariance == Spec => []IInv
  <1>1. QED
    BY InitIInv, StepIInv, PTL DEF Spec

(* Variables hold what the code's types let them hold. *)
THEOREM TypeCorrect == Spec => []TypeOK
  <1>1. IInv => TypeOK
    BY DEF IInv
  <1>2. QED
    BY <1>1, Invariance, PTL

(* sendToUser never meets the end iterator (UserManager.cpp:32). *)
THEOREM SendFindsTheBox == Spec => []BothUsersExist
  <1>1. IInv => BothUsersExist
    BY DEF IInv
  <1>2. QED
    BY <1>1, Invariance, PTL

(* No message is lost, repeated or overtaken by another to the same name. *)
THEOREM MailKept == Spec => []KeptUntilShown
  <1>1. IInv => KeptUntilShown
    BY DEF IInv
  <1>2. QED
    BY <1>1, Invariance, PTL

(* Mail is shown to its addressee or to a user whose names join to the same. *)
THEOREM MailToNamesakes == Spec => []ShownToNamesakes
  <1>1. IInv => ShownToNamesakes
    BY DEF IInv
  <1>2. QED
    BY <1>1, Invariance, PTL

(* What the read loop makes up at the end of the input is never shown. *)
THEOREM MailAsTyped == Spec => []ShownAsTyped
  <1>1. IInv => ShownAsTyped
    BY DEF IInv
  <1>2. QED
    BY <1>1, Invariance, PTL

(***************************************************************************)
(* The refinement.                                                         *)
(***************************************************************************)

(* A step of the session is a step of the mail store, or none. *)
LEMMA StepStore ==
    ASSUME IInv, [Next]_vars
    PROVE  [Store!Next]_Store!vars
  <1> USE DEF Store!vars
  <1>1. TypeOK /\ BothUsersExist
    BY DEF IInv
  <1>2. CASE \E o \in FullNames : NewBox(o)
    <2>1. PICK o \in FullNames : NewBox(o)
      BY <1>2
    <2>2. Store!Open(o)
      BY <2>1 DEF NewBox, Store!Open
    <2>3. QED
      BY <2>2 DEF Store!Next
  <1>3. CASE \E o \in FullNames : \E msg \in UserMsgs : NewMail(o, msg)
    <2>1. PICK o \in FullNames, msg \in UserMsgs : NewMail(o, msg)
      BY <1>3
    <2>2. Store!Put(o, msg)
      BY <1>1, <2>1 DEF NewMail, TypeOK, Store!Put
    <2>3. QED
      BY <2>2 DEF Store!Next
  <1>4. CASE \E o \in FullNames : MailShown(o)
    <2>1. PICK o \in FullNames : MailShown(o)
      BY <1>4
    <2>2. shown' = [shown EXCEPT ![o] = sent[o]]
      BY <1>1, <2>1, ShownIsSent DEF MailShown, TypeOK
    <2>3. Store!Take(o)
      BY <1>1, <2>1, <2>2 DEF MailShown, TypeOK, Store!Take
    <2>4. QED
      BY <2>3 DEF Store!Next
  <1>5. CASE UNCHANGED boxes
    BY <1>5 DEF boxes
  <1>6. QED
    BY <1>1, <1>2, <1>3, <1>4, <1>5, StepBoxes

(* The program implements the mail store, with full names for owners. *)
THEOREM Refinement == Spec => ImplementsStore
  <1>1. Init => Store!Init
    BY DEF Init, Store!Init
  <1>2. IInv /\ [Next]_vars => [Store!Next]_Store!vars
    BY StepStore
  <1>3. QED
    BY <1>1, <1>2, Invariance, PTL DEF Spec, ImplementsStore, Store!Spec

==============================================================================
