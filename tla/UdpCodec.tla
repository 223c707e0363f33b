------------------------------ MODULE UdpCodec ------------------------------
(***************************************************************************)
(* The datagrams of the UDP variant, byte by byte: MailSerializer, which   *)
(* writes them, MailBox::writeUDPMail, which reads them back (both in      *)
(* src/src/headers/mail-box.h), and the server of src/tests/server.py,     *)
(* which packs its own.  One message goes one way in a behaviour.  Codec   *)
(* makes an instance of this module, and has the assumptions on Ids, Names *)
(* and Contents.                                                           *)
(***************************************************************************)
EXTENDS Mail, SequencesExt

CONSTANTS
    Ids,         \* values of the 16-bit identifiers
    Names,       \* texts: sequences of bytes, none of them 0
    Contents

VARIABLES
    msg,      \* the message
    by,       \* who has put it on the wire: "nobody", "client" or "server"
    buffer,   \* its bytes, as sent and as received
    got       \* what has been read of them

vars == <<msg, by, buffer, got>>

-----------------------------------------------------------------------------
(* The texts of a message, in the order in which they are written.         *)
Fields ==
    [ CONFIRM |-> <<>>, BYE |-> <<>>, UNKNOWN |-> <<>>, REPLY |-> <<"content">>,
      AUTH |-> <<"name", "displayName", "secret">>, JOIN |-> <<"channel", "displayName">>,
      MSG |-> <<"displayName", "content">>, ERR |-> <<"displayName", "content">> ]

TextsOf(type) ==
    {t \in UNION {[1..n -> Names \cup Contents] : n \in 0..3} :
        /\ Len(t) = Len(Fields[type])
        /\ \A i \in 1..Len(t) :
               t[i] \in IF Fields[type][i] = "content" THEN Contents ELSE Names}

Message ==
    UNION {[ type   : {t},
             id     : IF t = "CONFIRM" THEN {NoId} ELSE Ids,
             ref    : IF t \in {"CONFIRM", "REPLY"} THEN Ids ELSE {NoId},
             result : IF t = "REPLY" THEN BOOLEAN ELSE {FALSE},
             texts  : TextsOf(t) ] : t \in MessageType}

Nothing == [type |-> "nothing"]

(* A validator has thrown.                                                 *)
Throws == [type |-> "INVALID"]

(* Behind the buffer the datagram has written over what is there: anything *)
(* can come of it but the message.                                         *)
Overrun == [type |-> "overrun"]

-----------------------------------------------------------------------------
(* Writing.                                                                *)

(* The values of the enumeration MessageType.                              *)
Code ==
    [ CONFIRM |-> 0, REPLY |-> 1, AUTH |-> 2, JOIN |-> 3, MSG |-> 4, UNKNOWN |-> 5,
      ERR |-> 254, BYE |-> 255 ]

(* Mutant of the next definition.                                          *)
BigEndianSwapped(n) == <<n % 256, n \div 256>>

(* serialize(uint16_t).                                                    *)
BigEndian(n) == <<n \div 256, n % 256>>

(* serialize(const std::string &): over UDP a text ends in a zero byte.    *)
CString(text) == Append(text, 0)

Bit(b) == IF b THEN 1 ELSE 0

Layout(m, result) ==
    <<Code[m.type]>>
        \o (IF m.type = "CONFIRM" THEN BigEndian(m.ref) ELSE BigEndian(m.id))
        \o (IF m.type = "REPLY" THEN result \o BigEndian(m.ref) ELSE <<>>)
        \o FlattenSeq([i \in 1..Len(m.texts) |-> CString(m.texts[i])])

(* MailSerializer: ReplyMessage::Result goes through serialize(uint16_t).  *)
Serialize(m) == Layout(m, BigEndian(Bit(m.result)))

(* send_udp_message of server.py: its result is one byte.                  *)
Pack(m) == Layout(m, <<Bit(m.result)>>)

-----------------------------------------------------------------------------
(* Reading.                                                                *)

(* Mutant of the next definition.                                          *)
BufferSizeLess == 1023

(* The buffer of runListener; receiveData lets recvfrom write 1500 bytes   *)
(* to it.                                                                  *)
BufferSize == 1024

Fits == Len(buffer) <= BufferSize

(* The buffer behind the datagram is zero.                                 *)
Byte(i) == IF i <= Len(buffer) THEN buffer[i] ELSE 0

UInt16At(i) == ReadUInt16(Byte(i), Byte(i + 1))

(* The place of the zero byte that ends the text at i.                     *)
EndOfString(i) ==
    CHOOSE j \in i..(i + Len(buffer)) :
        Byte(j) = 0 /\ \A k \in i..(j - 1) : Byte(k) # 0

StringAt(i) == [k \in 1..(EndOfString(i) - i) |-> Byte(i + k - 1)]

(* Mutant of the next definition.                                          *)
StringsFromKeepsZero(i, n) ==
    LET start[k \in 1..n] == IF k = 1 THEN i ELSE EndOfString(start[k - 1])
    IN  [k \in 1..n |-> StringAt(start[k])]

(* readString, n times: each text starts behind the zero of the one before.*)
StringsFrom(i, n) ==
    LET start[k \in 1..n] == IF k = 1 THEN i ELSE EndOfString(start[k - 1]) + 1
    IN  [k \in 1..n |-> StringAt(start[k])]

(* The patterns and lengths of the validators.                             *)
LetterOrDigit == (48..57) \cup (65..90) \cup (97..122)

Accepted ==
    [ name |-> LetterOrDigit \cup {45}, secret |-> LetterOrDigit \cup {45},
      channel |-> LetterOrDigit \cup {45, 46}, displayName |-> 33..126,
      content |-> 32..126 ]

MaxLength ==
    [name |-> 20, secret |-> 128, channel |-> 20, displayName |-> 20, content |-> 1400]

Valid(field, text) ==
    Len(text) \in 1..MaxLength[field] /\ ToSet(text) \subseteq Accepted[field]

AllValid(type, texts) ==
    \A i \in 1..Len(texts) : Valid(Fields[type][i], texts[i])

(* writeUDPMail.  A byte that is no MessageType becomes UNKNOWN.           *)
Decode ==
    LET type == IF \E t \in MessageType : Code[t] = Byte(1)
                THEN CHOOSE t \in MessageType : Code[t] = Byte(1) ELSE "UNKNOWN"
        texts == StringsFrom(IF type = "REPLY" THEN 7 ELSE 4, Len(Fields[type]))
    IN  IF ~AllValid(type, texts) THEN Throws
        ELSE [ type   |-> type,
               id     |-> IF type = "CONFIRM" THEN NoId ELSE UInt16At(2),
               ref    |-> CASE type = "CONFIRM" -> UInt16At(2)
                            [] type = "REPLY" -> UInt16At(5)
                            [] OTHER -> NoId,
               result |-> type = "REPLY" /\ Byte(4) # 0,
               texts  |-> texts ]

-----------------------------------------------------------------------------
Init == msg = Nothing /\ by = "nobody" /\ buffer = <<>> /\ got = Nothing

(* The client's own mails have passed the validators.                      *)
ClientSends ==
    /\ by = "nobody"
    /\ by' = "client"
    /\ \E m \in Message :
           AllValid(m.type, m.texts) /\ msg' = m /\ buffer' = Serialize(m)
    /\ UNCHANGED got

ServerSends ==
    /\ by = "nobody"
    /\ by' = "server"
    /\ \E m \in Message :
           m.type # "UNKNOWN" /\ msg' = m /\ buffer' = Pack(m)
    /\ UNCHANGED got

(* The client's bytes, through the client's own writeUDPMail.              *)
ReadsBack ==
    /\ by = "client"
    /\ got = Nothing
    /\ got' = Decode
    /\ UNCHANGED <<msg, by, buffer>>

(* receiveData and writeUDPMail.                                           *)
Receives ==
    /\ by = "server"
    /\ got = Nothing
    /\ got' \in IF Fits THEN {Decode} ELSE {Decode, Overrun}
    /\ UNCHANGED <<msg, by, buffer>>

Next == ClientSends \/ ServerSends \/ ReadsBack \/ Receives

Spec == Init /\ [][Next]_vars

-----------------------------------------------------------------------------
HasLowByteBelow128(n) == n = NoId \/ n % 256 < 128

(* MailSerializer and writeUDPMail agree on every field of what the client *)
(* sends (it sends no REPLY), as long as the low byte of the identifiers   *)
(* is beneath 128.                                                         *)
ClientMailsReadBack ==
    ( /\ by = "client" /\ got # Nothing
      /\ msg.type # "REPLY"
      /\ HasLowByteBelow128(msg.id) /\ HasLowByteBelow128(msg.ref) )
        => got = msg

(* The message as the modules above this one see it.                       *)
AsDatagram(m) ==
    [ type |-> IF AllValid(m.type, m.texts) THEN m.type ELSE "INVALID",
      id |-> m.id, ref |-> m.ref, result |-> m.result ]

AsMail(m) ==
    [Of(m.type) EXCEPT !.id = m.id, !.ref = m.ref, !.result = m.result]

(* The bytes server.py packs are read, identifiers of every value and      *)
(* texts the validators refuse included, as Mail says that writeUDPMail    *)
(* reads a datagram: what the other modules build on.  Datagrams that are  *)
(* longer than the buffer are excepted.                                    *)
DecodesAsModelled ==
    (by = "server" /\ got # Nothing /\ Fits) =>
        IF AsDatagram(msg).type = "INVALID" THEN got = Throws
        ELSE got # Throws /\ AsMail(got) = WriteUDPMail(AsDatagram(msg))

(* The other fields at their longest leave a content 999 bytes of the      *)
(* buffer.                                                                 *)
ShortTextsFit ==
    ( /\ by = "server" /\ AllValid(msg.type, msg.texts)
      /\ \A i \in 1..Len(msg.texts) :
             Fields[msg.type][i] = "content" => Len(msg.texts[i]) <= 999 )
        => Fits
=============================================================================
