-------------------------------- MODULE Mail --------------------------------
(***************************************************************************)
(* The class Mail (src/src/headers/mail-box.h): the value that the FSM,    *)
(* the MailBox and the Listener hand to each other, and that the network   *)
(* carries.  Texts (names, secrets, message contents) are left out: what   *)
(* the control flow reads of a mail is its type, its identifiers, the      *)
(* result of a REPLY and three flags.                                      *)
(***************************************************************************)
EXTENDS Integers

CONSTANT
    CharIsSigned   \* whether char has a sign: TRUE where g++ builds for x86

ASSUME CharAssumption == CharIsSigned \in BOOLEAN

(* Mail::MessageType.  A type byte that is none of the others is decoded   *)
(* to UNKNOWN.                                                             *)
MessageType ==
    {"CONFIRM", "REPLY", "AUTH", "JOIN", "MSG", "UNKNOWN", "ERR", "BYE"}

(* The value of an identifier that is not there: refMsgId, refAuthId and   *)
(* srvMsgId start with it, and getRefMessageID() returns it.               *)
NoId == -1

(* One record type stands for the variant Mail::MessageData.               *)
(*   id, ref   MessageID and RefMessageID of the variant's alternative     *)
(*   result    ReplyMessage::Result                                        *)
(*   toSend    TextMessage::ToSend, set on what the user typed             *)
(*   sigint    the flag listenSignal sets                                  *)
(*   bare      data still holds the ConfirmMessage of a fresh Mail, and    *)
(*             not the alternative its type calls for                      *)
MailRecord ==
    [ type : MessageType, id : Int, ref : Int, result : BOOLEAN,
      toSend : BOOLEAN, sigint : BOOLEAN, bare : BOOLEAN ]

Blank ==
    [ type |-> "UNKNOWN", id |-> NoId, ref |-> NoId, result |-> FALSE,
      toSend |-> FALSE, sigint |-> FALSE, bare |-> FALSE ]

(* MailBox::writeMail(msgType, mail, refMessageID): the mails the client   *)
(* makes itself.                                                           *)
Of(type) == [Blank EXCEPT !.type = type]

ConfirmFor(id) == [Of("CONFIRM") EXCEPT !.ref = id]

GetMessageID(m) == IF m.type = "CONFIRM" THEN m.ref ELSE m.id

GetRefMessageID(m) == IF m.type \in {"CONFIRM", "REPLY"} THEN m.ref ELSE NoId

-----------------------------------------------------------------------------
(* What the peer can put on the wire: a message of one of the types; one   *)
(* whose fields a validator refuses (INVALID: the constructor of the       *)
(* message throws); over TCP, one with a known first word and a wrong      *)
(* form (MALFORMED: writeTCPMail returns false).                           *)
WireType == MessageType \cup {"INVALID", "MALFORMED"}

Datagram == [type : WireType, id : Int, ref : Int, result : BOOLEAN]

(* A byte, read through a char pointer.                                    *)
Char(byte) == IF CharIsSigned /\ byte >= 128 THEN byte - 256 ELSE byte

(* Mutant of the next definition.                                          *)
ReadUInt16LowFirst(high, low) == 256 * low + high

(* readUInt16: the low byte is or-ed in as a char, and when it is negative *)
(* its sign covers the high byte.                                          *)
ReadUInt16(high, low) ==
    IF Char(low) < 0 THEN 65280 + low ELSE 256 * high + low

(* What is read of an identifier that was put on the wire as two bytes.    *)
AsRead(n) == IF n = NoId THEN NoId ELSE ReadUInt16(n \div 256, n % 256)

(* MailBox::writeUDPMail.  Every type it decodes gets its own alternative. *)
WriteUDPMail(d) ==
    [Of(d.type) EXCEPT !.id = AsRead(d.id), !.ref = AsRead(d.ref), !.result = d.result]

(* MailBox::writeTCPMail: the mails one received text can become.  BYE and *)
(* an unknown word leave the data of the fresh Mail in place.  A malformed *)
(* text leaves the type unset as well, so that it holds any value.  TCP    *)
(* texts have no identifiers; nothing reads the ones put in their mails.   *)
WriteTCPMail(d) ==
    CASE d.type = "MALFORMED" ->
           {[Of(t) EXCEPT !.bare = TRUE] : t \in MessageType}
      [] d.type \in {"BYE", "UNKNOWN", "CONFIRM"} ->
           {[Of(IF d.type = "BYE" THEN "BYE" ELSE "UNKNOWN") EXCEPT !.bare = TRUE]}
      [] OTHER -> {[Of(d.type) EXCEPT !.result = d.result]}

-----------------------------------------------------------------------------
(* What the user can type, as MailBox::writeMail(line, mail) tells it      *)
(* apart: /auth, /join and text with fields that the validators accept or  *)
(* refuse, /rename to a display name they accept or refuse (it is stored   *)
(* unchecked), and /help and /print, which make no mail; /print reads the  *)
(* queue of incoming mails.                                                *)
Line == {"auth", "auth-bad", "join", "join-bad", "text", "text-bad",
         "rename", "rename-bad", "help", "print"}

(* /join and text are validated together with the stored display name.     *)
LineThrows(line, nameOk) ==
    \/ line \in {"auth-bad", "join-bad", "text-bad"}
    \/ line \in {"join", "text"} /\ ~nameOk

(* The lines that assign displayName, and whether the name is then valid.  *)
NameLines == {"auth", "rename", "rename-bad"}

NameAfter(line, nameOk) ==
    IF line \in NameLines THEN line # "rename-bad" ELSE nameOk

(* The mails of a line: none when addToMailQueue is cleared.               *)
LineMails(line) ==
    CASE line = "auth" -> {Of("AUTH")}
      [] line = "join" -> {Of("JOIN")}
      [] line = "text" -> {[Of("MSG") EXCEPT !.toSend = TRUE]}
      [] OTHER -> {}
=============================================================================
