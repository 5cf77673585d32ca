----------------------------- MODULE MessageStore -----------------------------
(***************************************************************************)
(* The message store: a user interface thread (ClientUiTask) asks for one  *)
(* line at a time from a stream (StdStreamIODevice) and keeps users and    *)
(* their messages in a UserManager; main waits for the thread.             *)
(*                                                                         *)
(* A line is a sequence of characters.  A name is what becomes of a line:  *)
(* cut at MaxName, filled up when the input ends within it, and split at   *)
(* the first space.  std::hash is taken to be injective, so that the key   *)
(* of a box is the full name that is hashed.                               *)
(***************************************************************************)
EXTENDS Naturals, Sequences

CONSTANTS
    NameLines,            \* lines typed when a name is asked for
    TextLines,            \* lines typed when a message is asked for
    MaxName,              \* MAX_USR_NAME + MAX_USR_LAST
    MAX_MSG_SIZE,
    MaxSent               \* bound: messages to one full name in a behaviour

ASSUME LinesAssumption == NameLines \cup TextLines \subseteq Seq(STRING)
ASSUME SizesAssumption == {MaxName, MAX_MSG_SIZE} \subseteq Nat \ {0}
ASSUME SentAssumption == MaxSent \in Nat

Options == {"1", "2", "3", "4", "x"}

Space == " "
Nul == "0"

------------------------------------------------------------------------------
(* readLineFromStream(len) over readData(len): up to len characters of the *)
(* line; what is left of it is ignored.                                    *)
Cut(line, len) == [i \in 1..(IF Len(line) < len THEN Len(line) ELSE len) |-> line[i]]

(* The input ends before a newline: the loop goes on to len with the last *)
(* character it has, which is 0 if it has none.                           *)
Filled(line, len) ==
    [i \in 1..len |-> IF i <= Len(line) THEN line[i]
                      ELSE IF line = <<>> THEN Nul ELSE line[Len(line)]]

Reads_Clears(lines, len) ==
    [chunk : {Cut(l, len) : l \in lines}
               \cup {Filled(l, len) : l \in lines \cup {<<>>}}, good : {TRUE}]

(* What a read may return, and whether the stream is good afterwards. *)
Reads(lines, len) ==
    [chunk : {Cut(l, len) : l \in lines}, good : {TRUE}]
      \cup [chunk : {Filled(l, len) : l \in lines \cup {<<>>}}, good : {FALSE}]

(* parseUserFromInput: getline to the first space, and from there on. *)
Spaces(chunk) == {i \in 1..Len(chunk) : chunk[i] = Space}

FirstSpace(chunk) == CHOOSE i \in Spaces(chunk) : \A j \in Spaces(chunk) : i <= j

parseUser(chunk) ==
    IF Spaces(chunk) = {} THEN [m_firstName |-> chunk, m_lastName |-> <<>>]
    ELSE [m_firstName |-> SubSeq(chunk, 1, FirstSpace(chunk) - 1),
          m_lastName |-> SubSeq(chunk, FirstSpace(chunk) + 1, Len(chunk))]

fullName(user) == user.m_firstName \o user.m_lastName

NameReads == Reads(NameLines, MaxName)
TextReads == Reads(TextLines, MAX_MSG_SIZE)

Users == {parseUser(r.chunk) : r \in NameReads}
FullNames == {fullName(u) : u \in Users}
UserMsgs == [m_from : Users, m_to : Users, m_msg : {r.chunk : r \in TextReads}]

VARIABLES
    m_usersByHash,        \* boxes by full name
    ui,                   \* what the user interface thread reads next
    good,                 \* the input stream is good
    m_keepRunning,
    userFrom, userTo,     \* locals of handleSendToUser
    main,                 \* "waiting" for the thread, "returned" or "aborted"
    sent,                 \* history: messages put in the box of a full name
    shown                 \* history: messages shown to who has that name

dialog == <<userFrom, userTo>>
boxes == <<m_usersByHash, sent, shown>>
vars == <<m_usersByHash, ui, good, m_keepRunning, userFrom, userTo, main,
          sent, shown>>

NoUser == [m_firstName |-> <<>>, m_lastName |-> <<>>]

Init ==
    /\ m_usersByHash = [o \in {} |-> <<>>]
    /\ ui = "menu"
    /\ good = TRUE
    /\ m_keepRunning = TRUE
    /\ userFrom = NoUser
    /\ userTo = NoUser
    /\ main = "waiting"
    /\ sent = [o \in FullNames |-> <<>>]
    /\ shown = [o \in FullNames |-> <<>>]

------------------------------------------------------------------------------
(* UserManager. *)

doesUserExist(user) == fullName(user) \in DOMAIN m_usersByHash

addUser_Again(user) ==
    /\ m_usersByHash' = [o \in DOMAIN m_usersByHash \cup {fullName(user)} |->
                           IF o = fullName(user) THEN <<>> ELSE m_usersByHash[o]]
    /\ UNCHANGED <<sent, shown>>

addUser(user) ==
    /\ ~doesUserExist(user)
    /\ m_usersByHash' = [o \in DOMAIN m_usersByHash \cup {fullName(user)} |->
                           IF o = fullName(user) THEN <<>> ELSE m_usersByHash[o]]
    /\ UNCHANGED <<sent, shown>>

userExists(user) == doesUserExist(user) /\ UNCHANGED boxes

sendToUser(msg) ==
    LET o == fullName(msg.m_to)
    IN /\ m_usersByHash' = [m_usersByHash EXCEPT ![o] = Append(@, msg)]
       /\ sent' = [sent EXCEPT ![o] = Append(@, msg)]
       /\ UNCHANGED shown

getUserMessages_Keeps(user) ==
    LET o == fullName(user)
    IN /\ shown' = [shown EXCEPT ![o] = @ \o m_usersByHash[o]]
       /\ UNCHANGED <<m_usersByHash, sent>>

(* getUserMessages, and the loop that shows what it returns. *)
getUserMessages(user) ==
    LET o == fullName(user)
    IN /\ shown' = [shown EXCEPT ![o] = @ \o m_usersByHash[o]]
       /\ m_usersByHash' = [m_usersByHash EXCEPT ![o] = <<>>]
       /\ UNCHANGED sent

------------------------------------------------------------------------------
(* ClientUiTask: each step handles one line, and asks for the next. *)

Asking == {"menu", "add", "from", "to", "text", "recv"}

readUserRequest ==
    /\ ui = "menu"
    /\ good
    /\ \E opt \in Options :
         /\ opt = "2" => \A o \in FullNames : Len(sent[o]) < MaxSent
         /\ ui' = CASE opt = "1" -> "add" [] opt = "2" -> "from" [] opt = "3" -> "recv"
                     [] opt = "4" -> "ended" [] OTHER -> "menu"
         /\ m_keepRunning' = (opt # "4")
    /\ good' \in BOOLEAN
    /\ UNCHANGED <<boxes, dialog, main>>

(* The stream ended: readData throws, nothing catches it in the thread, and *)
(* the process is aborted.                                                  *)
StreamNotGood ==
    /\ ui \in Asking
    /\ ~good
    /\ ui' = "thrown"
    /\ main' = "aborted"
    /\ UNCHANGED <<boxes, good, m_keepRunning, dialog>>

(* A line is read in state s: what it holds is bound by the caller. *)
Read(s, r) ==
    /\ ui = s
    /\ good
    /\ good' = r.good
    /\ UNCHANGED <<m_keepRunning, main>>

handleAddUser ==
    \E r \in NameReads :
      /\ Read("add", r)
      /\ addUser(parseUser(r.chunk)) \/ userExists(parseUser(r.chunk))
      /\ ui' = "menu"
      /\ UNCHANGED dialog

handleSendFrom ==
    \E r \in NameReads :
      /\ Read("from", r)
      /\ IF doesUserExist(parseUser(r.chunk))
         THEN ui' = "to" /\ userFrom' = parseUser(r.chunk)
         ELSE ui' = "menu" /\ UNCHANGED userFrom
      /\ UNCHANGED <<boxes, userTo>>

handleSendTo ==
    \E r \in NameReads :
      /\ Read("to", r)
      /\ IF doesUserExist(parseUser(r.chunk))
         THEN /\ ui' = "text"
              /\ userTo' = parseUser(r.chunk)
              /\ UNCHANGED userFrom
         ELSE /\ ui' = "menu"
              /\ userFrom' = NoUser
              /\ UNCHANGED userTo
      /\ UNCHANGED boxes

handleSendText ==
    \E r \in TextReads :
      /\ Read("text", r)
      /\ sendToUser([m_from |-> userFrom, m_to |-> userTo, m_msg |-> r.chunk])
      /\ ui' = "menu"
      /\ userFrom' = NoUser
      /\ userTo' = NoUser

handleRecvForUser ==
    \E r \in NameReads :
      LET user == parseUser(r.chunk)
      IN /\ Read("recv", r)
         /\ IF doesUserExist(user) THEN getUserMessages(user) ELSE UNCHANGED boxes
         /\ ui' = "menu"
         /\ UNCHANGED dialog

(* The loop ends; main joins the thread and returns. *)
waitForUiThread ==
    /\ ui = "ended"
    /\ main = "waiting"
    /\ main' = "returned"
    /\ UNCHANGED <<boxes, ui, good, m_keepRunning, dialog>>

------------------------------------------------------------------------------
(* The process has ended. *)
Over == main # "waiting" /\ UNCHANGED vars

UiThread == \/ readUserRequest \/ StreamNotGood \/ handleAddUser \/ handleSendFrom
            \/ handleSendTo \/ handleSendText \/ handleRecvForUser

Next == UiThread \/ waitForUiThread \/ Over

(* Threads go on; a user may let one wait for a line for ever. *)
Spec == Init /\ [][Next]_vars /\ WF_vars(StreamNotGood) /\ WF_vars(waitForUiThread)

------------------------------------------------------------------------------
(* Boxes belong to full names, and hold what was sent and not yet shown. *)
TypeOK ==
    /\ DOMAIN m_usersByHash \subseteq FullNames
    /\ m_usersByHash \in [DOMAIN m_usersByHash -> Seq(UserMsgs)]
    /\ ui \in Asking \cup {"ended", "thrown"}
    /\ good \in BOOLEAN
    /\ m_keepRunning \in BOOLEAN
    /\ userFrom \in Users \cup {NoUser} /\ userTo \in Users \cup {NoUser}
    /\ ui \in {"to", "text"} => userFrom \in Users
    /\ ui = "text" => userTo \in Users
    /\ main \in {"waiting", "returned", "aborted"}
    /\ sent \in [FullNames -> Seq(UserMsgs)]
    /\ shown \in [FullNames -> Seq(UserMsgs)]

(* sendToUser puts a message through the iterator that findUserBox returns *)
(* and never compares it with the end: both users of a message about to be *)
(* sent were looked up lines ago and are still there (UserManager.cpp:32). *)
BothUsersExist ==
    /\ ui \in {"to", "text"} => doesUserExist(userFrom)
    /\ ui = "text" => doesUserExist(userTo)

(* What is in the box of a full name. *)
Held(o) == IF o \in DOMAIN m_usersByHash THEN m_usersByHash[o] ELSE <<>>

(* A message sent is in its box or has been shown, once and in order:      *)
(* adding a user again or asking twice neither loses nor repeats any.      *)
KeptUntilShown == \A o \in FullNames : sent[o] = shown[o] \o Held(o)

(* Messages shown to a user who is not the one they were sent to are those *)
(* of a namesake, whose first and last name joined are the same            *)
(* (UserManager.h:17 takes such users to be one).                          *)
ShownToNamesakes ==
    \A o \in FullNames : \A i \in 1..Len(shown[o]) : fullName(shown[o][i].m_to) = o

(* A text that was filled up because the input ended within it may be put *)
(* in a box but is never shown: what is shown was typed, up to the size of *)
(* a message (StdStreamIODevice.cpp:22).                                   *)
ShownAsTyped ==
    \A o \in FullNames : \A i \in 1..Len(shown[o]) :
      shown[o][i].m_msg \in {Cut(l, MAX_MSG_SIZE) : l \in TextLines}

(* When the input ends the program does too, and does not go on asking     *)
(* (StdStreamIODevice.cpp:14).                                             *)
EndsWithInput == ~good ~> main # "waiting"

Store == INSTANCE MailStore WITH
    Owners <- FullNames, Mail <- UserMsgs,
    opened <- DOMAIN m_usersByHash, put <- sent, taken <- shown

(* The user manager, driven line by line, is a mail store whose owners are *)
(* full names.                                                             *)
ImplementsStore == Store!Spec

==============================================================================
