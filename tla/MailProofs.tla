----------------------------- MODULE MailProofs -----------------------------
(***************************************************************************)
(* What the operators of Mail return: lemmas for the proofs about the      *)
(* modules that use them.                                                  *)
(***************************************************************************)
EXTENDS Mail, TLAPS

LEMMA NoIdType == NoId \in Int
BY DEF NoId

(* The mail a Listener starts with.                                        *)
LEMMA BlankType == Blank \in MailRecord
<1>1. NoId \in Int
  BY NoIdType
<1>2. "UNKNOWN" \in MessageType
  BY DEF MessageType
<1> QED
  BY <1>1, <1>2 DEF Blank, MailRecord

(* writeMail(type) makes a mail of every type.                             *)
LEMMA OfType == ASSUME NEW type \in MessageType PROVE Of(type) \in MailRecord
BY BlankType DEF Of, MailRecord

(* The identifiers of a mail, wherever the variant keeps them.             *)
LEMMA IdType ==
    ASSUME NEW m \in MailRecord
    PROVE  GetMessageID(m) \in Int /\ GetRefMessageID(m) \in Int
BY DEF MailRecord, GetMessageID, GetRefMessageID, NoId

LEMMA ConfirmForType == ASSUME NEW id \in Int PROVE ConfirmFor(id) \in MailRecord
<1>1. "CONFIRM" \in MessageType
  BY DEF MessageType
<1>2. Of("CONFIRM") \in MailRecord
  BY <1>1, OfType
<1> QED
  BY <1>2 DEF ConfirmFor, MailRecord

LEMMA AsReadType == ASSUME NEW n \in Int PROVE AsRead(n) \in Int
BY NoIdType DEF AsRead, ReadUInt16

(* readUInt16 gives back what was written as long as the low byte is       *)
(* beneath 128, ...                                                        *)
THEOREM LowIdsReadBack ==
    ASSUME NEW n \in Nat, n < 65536, n % 256 < 128
    PROVE  AsRead(n) = n
BY DEF AsRead, ReadUInt16, Char, NoId

(* ... and where char has no sign whatever it is, ...                      *)
THEOREM UnsignedIdsReadBack ==
    ASSUME ~CharIsSigned, NEW n \in Nat, n < 65536
    PROVE  AsRead(n) = n
BY DEF AsRead, ReadUInt16, Char, NoId

(* A low byte with a sign covers the high byte.                            *)
LEMMA SignExtends ==
    ASSUME CharIsSigned, NEW high \in Int, NEW low \in 128..255
    PROVE  ReadUInt16(high, low) = 65280 + low
<1>1. Char(low) = low - 256
  BY DEF Char
<1> QED
  BY <1>1 DEF ReadUInt16

(* ... and where it has a sign no other value beneath 0xFF00: 128, the     *)
(* identifier of the 129th mail, reads as 65408.                           *)
THEOREM HighIdsMisread ==
    ASSUME CharIsSigned, NEW n \in Nat, n < 65280, n % 256 >= 128
    PROVE  AsRead(n) # n
<1>1. PICK low \in 128..255 : low = n % 256
  OBVIOUS
<1>2. ReadUInt16(n \div 256, low) = 65280 + low
  BY SignExtends
<1>3. AsRead(n) = 65280 + low
  BY <1>1, <1>2 DEF AsRead, NoId
<1> QED
  BY <1>3

(* writeUDPMail makes a mail of every datagram it decodes.                 *)
LEMMA WriteUDPMailType ==
    ASSUME NEW d \in Datagram, d.type \in MessageType
    PROVE  WriteUDPMail(d) \in MailRecord
<1>1. Of(d.type) \in MailRecord
  BY OfType
<1>2. AsRead(d.id) \in Int /\ AsRead(d.ref) \in Int /\ d.result \in BOOLEAN
  BY AsReadType DEF Datagram
<1> QED
  BY <1>1, <1>2 DEF WriteUDPMail, MailRecord

(* writeTCPMail makes a mail of every text its validators accept.          *)
LEMMA WriteTCPMailType ==
    ASSUME NEW d \in Datagram, d.type # "INVALID"
    PROVE  WriteTCPMail(d) \subseteq MailRecord
<1>1. ASSUME NEW t \in MessageType PROVE [Of(t) EXCEPT !.bare = TRUE] \in MailRecord
  <2>1. Of(t) \in MailRecord
    BY OfType
  <2> QED
    BY <2>1 DEF MailRecord
<1>2. "BYE" \in MessageType /\ "UNKNOWN" \in MessageType
  BY DEF MessageType
<1>3. CASE d.type = "MALFORMED"
  BY <1>1, <1>3 DEF WriteTCPMail
<1>4. CASE d.type \in {"BYE", "UNKNOWN", "CONFIRM"}
  <2>1. PICK t \in MessageType : WriteTCPMail(d) = {[Of(t) EXCEPT !.bare = TRUE]}
    BY <1>2, <1>4 DEF WriteTCPMail
  <2> QED
    BY <1>1, <2>1
<1>5. CASE d.type \notin {"MALFORMED", "BYE", "UNKNOWN", "CONFIRM"}
  <2>1. d.type \in MessageType /\ d.result \in BOOLEAN
    BY <1>5 DEF Datagram, WireType
  <2>2. WriteTCPMail(d) = {[Of(d.type) EXCEPT !.result = d.result]}
    BY <1>5 DEF WriteTCPMail
  <2>3. Of(d.type) \in MailRecord
    BY <2>1, OfType
  <2>4. [Of(d.type) EXCEPT !.result = d.result] \in MailRecord
    BY <2>1, <2>3 DEF MailRecord
  <2> QED
    BY <2>2, <2>4
<1> QED
  BY <1>3, <1>4, <1>5

(* writeMail(line) makes at most a mail of what the user typed.            *)
LEMMA LineMailsType ==
    ASSUME NEW line \in Line
    PROVE  LineMails(line) \subseteq MailRecord
<1>1. "AUTH" \in MessageType /\ "JOIN" \in MessageType /\ "MSG" \in MessageType
  BY DEF MessageType
<1>2. Of("AUTH") \in MailRecord /\ Of("JOIN") \in MailRecord /\ Of("MSG") \in MailRecord
  BY <1>1, OfType
<1>3. [Of("MSG") EXCEPT !.toSend = TRUE] \in MailRecord
  BY <1>2 DEF MailRecord
<1> QED
  BY <1>2, <1>3 DEF LineMails

-----------------------------------------------------------------------------
(* Neither the user nor the peer can make a mail that looks like an        *)
(* interrupt: listenSignal alone sets the flag.                            *)
LEMMA OfNoSignal ==
    ASSUME NEW t
    PROVE  ~Of(t).sigint
BY DEF Of, Blank

LEMMA LineNoSignal ==
    ASSUME NEW line, NEW m \in LineMails(line)
    PROVE  ~m.sigint
<1>1. ~[Of("MSG") EXCEPT !.toSend = TRUE].sigint
  BY OfNoSignal
<1> QED
  BY <1>1, OfNoSignal DEF LineMails

LEMMA UdpNoSignal ==
    ASSUME NEW d
    PROVE  ~WriteUDPMail(d).sigint
BY OfNoSignal DEF WriteUDPMail

LEMMA TcpNoSignal ==
    ASSUME NEW d, NEW m \in WriteTCPMail(d)
    PROVE  ~m.sigint
<1>1. ASSUME NEW t PROVE ~[Of(t) EXCEPT !.bare = TRUE].sigint
  BY OfNoSignal
<1>2. ASSUME NEW t, NEW r PROVE ~[Of(t) EXCEPT !.result = r].sigint
  BY OfNoSignal
<1>3. CASE d.type = "MALFORMED"
  BY <1>1, <1>3 DEF WriteTCPMail
<1>4. CASE d.type \in {"BYE", "UNKNOWN", "CONFIRM"}
  BY <1>1, <1>4 DEF WriteTCPMail
<1>5. CASE d.type \notin {"MALFORMED", "BYE", "UNKNOWN", "CONFIRM"}
  BY <1>2, <1>5 DEF WriteTCPMail
<1> QED
  BY <1>3, <1>4, <1>5
=============================================================================
