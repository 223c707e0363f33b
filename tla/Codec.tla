-------------------------------- MODULE Codec -------------------------------
(***************************************************************************)
(* What the client puts on the wire and reads from it.  The argument of    *)
(* the program that chooses the transport chooses the format, too: that of *)
(* MailSerializer(isUDP) and of MailBox::writeMail (src/src/headers/       *)
(* mail-box.h), which goes by the MailBox's delivery_service.              *)
(***************************************************************************)
EXTENDS Mail, Sequences

CONSTANTS
    Variants,     \* values of MailSerializer::isUDP
    Ids,          \* UDP: values of the 16-bit identifiers
    Names,        \* UDP: texts, sequences of bytes of which none is 0
    Contents,
    SentTypes,    \* TCP: the types the peer sends
    Words,        \* TCP: words
    Sentences,    \* TCP: non-empty sequences of words and spaces
    MaxTexts,     \* TCP: bound on the texts sent
    InStep        \* TCP: whether recv is called after every text, and
                  \* returns it whole

ASSUME VariantsAssumption == Variants \subseteq BOOLEAN
ASSUME IdsAssumption == \A id \in Ids : id \in Nat /\ id < 65536
ASSUME TextsAssumption == Names \cup Contents \subseteq Seq(1..255)
ASSUME StreamAssumption ==
    /\ SentTypes \subseteq MessageType \ {"CONFIRM", "UNKNOWN"}
    /\ MaxTexts \in Nat /\ InStep \in BOOLEAN

VARIABLES
    isUDP,                     \* of the MailSerializer, and delivery_service
    msg, by, buffer, got,      \* of UdpCodec
    stream, sent, parsed       \* of TcpStream

udpVars == <<msg, by, buffer, got>>
tcpVars == <<stream, sent, parsed>>
vars == <<isUDP, udpVars, tcpVars>>

Udp == INSTANCE UdpCodec
Tcp == INSTANCE TcpStream

(* What the words are taken to be, and the contents: the validators refuse *)
(* an empty one, and none has the end of a line in it.                     *)
ASSUME WordsAssumption ==
    /\ \A word \in Words : word \in STRING \ {"", Tcp!Space, Tcp!LineEnd}
    /\ \A c \in Sentences :
           c \in Seq(STRING \ {Tcp!LineEnd}) /\ c \notin {<<>>, <<"">>}

Init == isUDP \in Variants /\ Udp!Init /\ Tcp!Init

Datagrams == isUDP /\ Udp!Next /\ UNCHANGED <<isUDP, tcpVars>>

Texts == ~isUDP /\ Tcp!Next /\ UNCHANGED <<isUDP, udpVars>>

Next == Datagrams \/ Texts

Spec == Init /\ [][Next]_vars

-----------------------------------------------------------------------------
(* MailSerializer and writeUDPMail agree on every field of what the client *)
(* sends (it sends no REPLY), as long as the low byte of the identifiers   *)
(* is beneath 128.                                                         *)
ClientMailsReadBack == Udp!ClientMailsReadBack

(* writeUDPMail: the bytes a server packs are read, identifiers of every   *)
(* value and texts the validators refuse included, as Mail says that it    *)
(* reads a datagram: what the other modules build on.  Datagrams that are  *)
(* longer than runListener's buffer are excepted.                          *)
DecodesAsModelled == Udp!DecodesAsModelled

(* runListener: a datagram of the server with texts that the validators    *)
(* accept and a content of at most 999 bytes fits the buffer it is         *)
(* received into.                                                          *)
ShortTextsFit == Udp!ShortTextsFit

(* MailSerializer and writeTCPMail: a text received by itself is read as   *)
(* it was meant, whatever words of the protocol are in its contents.       *)
TextsReadBack == Tcp!TextsReadBack

(* writeTCPMail, when recv cuts the stream where it likes: what the peer   *)
(* has said first is read first, and nothing is left out.                  *)
StreamInOrder == Tcp!StreamInOrder
=============================================================================
