--------------------------- MODULE UdpLinkProofs ---------------------------
(***************************************************************************)
(* The link over UDP, for every list of mails on either side, number of    *)
(* retries and size of the socket's buffer: whatever the network loses,    *)
(* repeats and reorders, the client's mails are heard once and in order,   *)
(* and from a server that waits for each CONFIRM none is skipped.  Where   *)
(* char has a sign, no CONFIRM is read as that of the client's mail 128,   *)
(* and the client gets no further.                                         *)
(***************************************************************************)
EXTENDS UdpLink, ListenerProofs, FiniteSetTheorems, SequenceTheorems

(* So many mails have identifiers that readUInt16 reads as they were       *)
(* written: all that there are, or those that a char with a sign holds.    *)
MostMails == IF CharIsSigned THEN 128 ELSE 65536

(* The server's mails are no more than that.  The client's may be: their   *)
(* identifiers come back as they are, or the client stalls.                *)
LowIds == Protocol = "UDP" /\ Len(ServerTypes) <= MostMails

(* Nobody types, and no signal arrives.                                    *)
NoInput ==
    stdinPipe = <<>> /\ signalPipe = 0 /\ ~peerClosed /\ listenerPc # "stdin"

(* The mails transmitted so far: all but those in the queue.               *)
Sent == sequenceUDPNumber - Len(outgoingMails)

(* Identifiers follow each other in the queue.                             *)
OwnMails ==
    /\ sequenceUDPNumber <= Len(SentTypes) /\ Sent >= 0
    /\ \A i \in 1..Len(outgoingMails) :
           /\ outgoingMails[i].type # "CONFIRM"
           /\ outgoingMails[i].id = Sent + i - 1

(* Only the mail that awaits its CONFIRM can be new to the server.         *)
OnTheWire ==
    \A m \in outbound : m.type # "CONFIRM" =>
        \/ Contains(heard, m.id)
        \/ ~receivedConfirm /\ m.id = refMsgId

(* No CONFIRM is read as that of the 129th mail, and it remains the last.  *)
Stalling == Sent <= 128 \/ (Sent = 129 /\ ~receivedConfirm /\ refMsgId = 128)

Awaiting ==
    /\ ~receivedConfirm => confMail.type # "CONFIRM" /\ refMsgId \in 0..(Sent - 1)
    /\ listenerPc = "wait" /\ armed => ~receivedConfirm
    /\ CharIsSigned => Stalling

Hearing ==
    /\ heard \in Seq(Nat)
    /\ \A i \in 1..Len(heard) : heard[i] < Sent

(* What a datagram to the client can be.                                   *)
Genuine(d) ==
    IF d.type = "CONFIRM"
    THEN Contains(heard, d.ref)
    ELSE d.type \in MessageType /\ d.id \in 0..(Len(said) - 1)

Carrying ==
    /\ toClient \subseteq Datagram
    /\ \A d \in toClient : Genuine(d)
    /\ \A i \in 1..Len(inbound) : Genuine(inbound[i])

Saying ==
    /\ said \in Seq(Datagram) /\ Len(said) <= Len(ServerTypes)
    /\ \A i \in 1..Len(said) :
           said[i].type \in MessageType \ {"CONFIRM"} /\ said[i].id = i - 1
    /\ confirmed \subseteq Nat
    /\ srvMsgId < Len(said)

Giving ==
    /\ handed \in Seq(Nat)
    /\ \A i \in 1..Len(incomingMails) :
           incomingMails[i].type # "CONFIRM" /\ incomingMails[i].id \in Nat

LinkInv ==
    /\ ListenerInv
    /\ NoInput /\ OwnMails /\ OnTheWire /\ Awaiting /\ Hearing
    /\ Carrying /\ Saying /\ Giving

-----------------------------------------------------------------------------
(* Sequences.                                                              *)

LEMMA Appended ==
    ASSUME NEW S, NEW s \in Seq(S), NEW e \in S
    PROVE  /\ Append(s, e) \in Seq(S) /\ Len(Append(s, e)) = Len(s) + 1 /\ Len(s) \in Nat
           /\ \A i \in 1..Len(s) : Append(s, e)[i] = s[i]
           /\ Append(s, e)[Len(s) + 1] = e
OBVIOUS

LEMMA Taken ==
    ASSUME NEW S, NEW s \in Seq(S), s # <<>>
    PROVE  /\ Tail(s) \in Seq(S) /\ Len(Tail(s)) = Len(s) - 1
           /\ Len(s) \in Nat /\ Len(s) > 0
           /\ \A i \in 1..Len(Tail(s)) : Tail(s)[i] = s[i + 1] /\ i + 1 \in 1..Len(s)
           /\ Head(s) = s[1] /\ Head(s) \in S
OBVIOUS

(* The identifiers of the link are read as they were written.              *)
LEMMA ReadBack ==
    ASSUME NEW n \in Nat, NEW k \in Int, n < k, k <= MostMails
    PROVE  AsRead(n) = n
<1>1. CASE CharIsSigned
  <2>1. n < 128
    BY <1>1 DEF MostMails
  <2>2. n < 65536 /\ n % 256 < 128
    BY <2>1
  <2> QED
    BY <2>2, LowIdsReadBack
<1>2. CASE ~CharIsSigned
  <2>1. n < 65536
    BY <1>2 DEF MostMails
  <2> QED
    BY <1>2, <2>1, UnsignedIdsReadBack
<1> QED
  BY <1>1, <1>2

-----------------------------------------------------------------------------
(* The Listener.                                                           *)

(* Without input the Listener does one of these things, or nothing that    *)
(* the link is about.                                                      *)
LEMMA LinkSteps ==
    ASSUME ListenerInv, NoInput, Protocol = "UDP", ListenerNext
    PROVE  /\ NoInput' /\ UNCHANGED sequenceUDPNumber
           /\ \/ LoopTop
              \/ ListenToSendPipe \/ EpollTimeout
              \/ ReceiveConfirm \/ ReceiveRepeated \/ ReceiveFresh
              \/ /\ UNCHANGED <<outgoingMails, incomingMails, outbound, receivedConfirm,
                                refMsgId, confMail, srvMsgId, armed>>
                 /\ listenerPc' = "wait" => listenerPc = "wait"
                 /\ inbound' \in {inbound, Tail(inbound)}
                 /\ inbound' # inbound => inbound # <<>>
<1>1. ~ListenStdin /\ ~ListenStdinLine /\ ~ListenStdinThrows
  BY DEF ListenStdin, ListenStdinLine, ListenStdinThrows, Handles, AtLine, NoInput,
         ListenerInv, Control, NoBlockingRead
<1>2. ~ListenSignal /\ ~ListenSignalThrows /\ ~ListenToSendPipeBroken /\ ~ReceiveTcp
  BY DEF ListenSignal, ListenSignalThrows, ListenToSendPipeBroken, ReceiveTcp, ReceiveText,
         ReceiveInvalidText, ReceiveEof, ReceiveReset, HandlesText, Handles, NoInput,
         ListenerInv, Control, NoBlockingRead
<1>3. CASE LoopTop
  BY <1>3 DEF LoopTop, NoInput, mailboxVars, pipeVars, socketVars
<1>4. CASE LoopExit \/ EpollReady \/ EpollGiveUp
  BY <1>4 DEF LoopExit, EpollReady, EpollGiveUp, Waiting, Exit1, NoInput, mailboxVars,
              pipeVars, socketVars, sendVars, listenerVars, loopVars
<1>5. CASE EpollTimeout
  BY <1>5 DEF EpollTimeout, NoInput, mailboxVars, pipeVars
<1>6. CASE ListenToSendPipe
  BY <1>6 DEF ListenToSendPipe, NoInput, pipeVars
<1>7. CASE ReceiveInvalid \/ ReceiveStray
  <2>1. inbound # <<>>
    BY <1>7 DEF ReceiveInvalid, ReceiveStray, HandlesDatagram, Handles, NoInput, ListenerInv,
                Control, NoBlockingRead
  <2>2. inbound' = Tail(inbound)
    BY <1>7 DEF ReceiveInvalid, ReceiveStray, HandlesDatagram
  <2>3. UNCHANGED <<outgoingMails, incomingMails, outbound, receivedConfirm, refMsgId,
                    confMail, srvMsgId, armed, listenerPc, pipeVars, peerClosed,
                    sequenceUDPNumber>>
    BY <1>7 DEF ReceiveInvalid, ReceiveStray, HandlesDatagram, Exit1, mailboxVars, loopVars
  <2> QED
    BY <2>1, <2>2, <2>3 DEF NoInput, pipeVars
<1>8. CASE ReceiveConfirm \/ ReceiveRepeated \/ ReceiveFresh
  BY <1>8 DEF ReceiveConfirm, ReceiveRepeated, ReceiveFresh, HandlesDatagram, NoInput,
              pipeVars, mailboxVars
<1> QED
  BY <1>1, <1>2, <1>3, <1>4, <1>5, <1>6, <1>7, <1>8 DEF ListenerNext, ReceiveUdp

(* A step of the network, the server or the FSM leaves the Listener as it  *)
(* is.                                                                     *)
LEMMA OutsideSteps ==
    ASSUME ListenerInv,
           UNCHANGED <<outgoingMails, toSendPipe, sequenceUDPNumber, nameOk, process,
                       pipeVars, peerClosed, loopVars, sendVars, stopVars, srvMsgId>>,
           incomingMails' \in Seq(MailRecord), inbound' \in Seq(Datagram),
           inbound # <<>> => inbound' # <<>>, outbound' \subseteq MailRecord
    PROVE  ListenerInv'
BY DEF ListenerInv, Types, MailBoxTypeOK, PipesTypeOK, ListenerTypeOK, Control,
       NoBlockingRead, AwaitsWhatItRepeats, pipeVars, loopVars, sendVars, stopVars

-----------------------------------------------------------------------------
(* The steps of the client preserve LinkInv.                               *)

(* A datagram is the front of those in the socket; the others stay.        *)
LEMMA Reads ==
    ASSUME LinkInv, inbound # <<>>, inbound' = Tail(inbound),
           UNCHANGED <<heard, said, toClient>>
    PROVE  Carrying' /\ Genuine(Datagram1) /\ Datagram1 \in Datagram
<1>1. inbound \in Seq(Datagram)
  BY DEF LinkInv, ListenerInv, Types, ListenerTypeOK
<1>2. /\ \A i \in 1..Len(inbound') : inbound'[i] = inbound[i + 1] /\ i + 1 \in 1..Len(inbound)
      /\ Head(inbound) = inbound[1] /\ 1 \in 1..Len(inbound) /\ Head(inbound) \in Datagram
  BY <1>1, Taken
<1> QED
  BY <1>2 DEF LinkInv, Carrying, Genuine, Datagram1

LEMMA SilentSteps ==
    ASSUME LinkInv, ListenerInv', NoInput', UNCHANGED <<sequenceUDPNumber, linkVars>>,
           UNCHANGED <<outgoingMails, incomingMails, outbound, receivedConfirm, refMsgId,
                       confMail, srvMsgId, armed>>,
           listenerPc' = "wait" => listenerPc = "wait",
           inbound' \in {inbound, Tail(inbound)},
           inbound' # inbound => inbound # <<>>
    PROVE  LinkInv'
<1>1. Carrying'
  <2>1. CASE inbound' = inbound
    BY <2>1 DEF LinkInv, Carrying, Genuine, linkVars
  <2>2. CASE inbound' # inbound
    BY <2>2, Reads DEF linkVars
  <2> QED
    BY <2>1, <2>2
<1>2. OwnMails' /\ OnTheWire' /\ Awaiting'
  BY DEF LinkInv, OwnMails, Sent, OnTheWire, Awaiting, Stalling, linkVars
<1>3. Hearing' /\ Saying' /\ Giving'
  BY DEF LinkInv, Hearing, Sent, Saying, Giving, linkVars
<1> QED
  BY <1>1, <1>2, <1>3 DEF LinkInv

LEMMA TopSteps ==
    ASSUME LinkInv, ListenerInv', NoInput', UNCHANGED linkVars, LoopTop
    PROVE  LinkInv'
<1>1. /\ UNCHANGED <<mailboxVars, inbound, outbound, receivedConfirm, refMsgId, confMail,
                     srvMsgId>>
      /\ armed' => ~receivedConfirm
  BY DEF LoopTop, Armed, socketVars, sendVars
<1>2. OwnMails' /\ OnTheWire' /\ Awaiting'
  BY <1>1 DEF LinkInv, OwnMails, Sent, OnTheWire, Awaiting, Stalling, linkVars, mailboxVars
<1>3. Hearing' /\ Saying' /\ Giving' /\ Carrying'
  BY <1>1 DEF LinkInv, Hearing, Sent, Saying, Giving, Carrying, Genuine, linkVars, mailboxVars
<1> QED
  BY <1>2, <1>3 DEF LinkInv

(* The front of the queue becomes the mail that awaits its CONFIRM: the    *)
(* one before has been heard.                                              *)
LEMMA SendSteps ==
    ASSUME LinkInv, ListenerInv', NoInput', Protocol = "UDP", UNCHANGED linkVars,
           ListenToSendPipe
    PROVE  LinkInv'
<1> DEFINE m == Head(outgoingMails)
<1>1. /\ outgoingMails \in Seq(MailRecord) /\ outgoingMails # <<>> /\ receivedConfirm
      /\ sequenceUDPNumber \in Int
  BY IdModulusAssumption
  DEF LinkInv, ListenerInv, Control, Types, MailBoxTypeOK, NoBlockingRead, ListenToSendPipe,
      Handles
<1>2. /\ outgoingMails' = Tail(outgoingMails) /\ outbound' = outbound \cup {m}
      /\ receivedConfirm' = FALSE /\ refMsgId' = GetMessageID(m) /\ confMail' = m
      /\ UNCHANGED <<sequenceUDPNumber, incomingMails, inbound, srvMsgId, listenerPc>>
  BY DEF ListenToSendPipe, TakeOutgoingMail, AwaitConfirm
<1>3. /\ Len(outgoingMails') = Len(outgoingMails) - 1 /\ Len(outgoingMails) \in Nat
      /\ Len(outgoingMails) > 0 /\ m = outgoingMails[1]
      /\ \A i \in 1..Len(outgoingMails') :
             outgoingMails'[i] = outgoingMails[i + 1] /\ i + 1 \in 1..Len(outgoingMails)
  BY <1>1, <1>2, Taken
<1>4. Sent' = Sent + 1 /\ Sent \in Nat
  BY <1>1, <1>2, <1>3 DEF Sent, LinkInv, OwnMails
<1>5. m.type # "CONFIRM" /\ m.id = Sent /\ GetMessageID(m) = Sent
  BY <1>3, <1>4 DEF LinkInv, OwnMails, GetMessageID
<1>6. OwnMails'
  <2>1. sequenceUDPNumber' <= Len(SentTypes) /\ Sent' >= 0
    BY <1>2, <1>4 DEF LinkInv, OwnMails
  <2>2. ASSUME NEW i \in 1..Len(outgoingMails')
        PROVE  /\ outgoingMails'[i].type # "CONFIRM"
               /\ outgoingMails'[i].id = Sent' + i - 1
    <3>1. i + 1 \in 1..Len(outgoingMails) /\ outgoingMails'[i] = outgoingMails[i + 1]
      BY <1>3
    <3>2. outgoingMails[i + 1].type # "CONFIRM" /\ outgoingMails[i + 1].id = Sent + (i + 1) - 1
      BY <3>1 DEF LinkInv, OwnMails
    <3>3. i \in Int /\ Sent + (i + 1) - 1 = (Sent + 1) + i - 1
      BY <1>4
    <3> QED
      BY <1>4, <3>1, <3>2, <3>3
  <2> QED
    BY <2>1, <2>2 DEF OwnMails
<1>7. OnTheWire'
  BY <1>1, <1>2, <1>5 DEF LinkInv, OnTheWire, linkVars
<1>8. Awaiting'
  <2>1. CharIsSigned => Sent <= 128
    BY <1>1 DEF LinkInv, Awaiting, Stalling
  <2>2. CharIsSigned => Stalling'
    <3>1. CASE Sent = 128
      BY <1>2, <1>4, <1>5, <3>1 DEF Stalling
    <3>2. CASE Sent # 128
      BY <1>4, <2>1, <3>2 DEF Stalling
    <3> QED
      BY <3>1, <3>2
  <2>3. /\ ~receivedConfirm' => confMail'.type # "CONFIRM" /\ refMsgId' \in 0..(Sent' - 1)
        /\ listenerPc' = "wait" /\ armed' => ~receivedConfirm'
    BY <1>2, <1>4, <1>5
  <2> QED
    BY <2>2, <2>3 DEF Awaiting
<1>9. Hearing'
  BY <1>4 DEF LinkInv, Hearing, linkVars
<1>10. Carrying' /\ Saying' /\ Giving'
  BY <1>2 DEF LinkInv, Saying, Giving, Carrying, Genuine, linkVars
<1> QED
  BY <1>6, <1>7, <1>8, <1>9, <1>10 DEF LinkInv

LEMMA TimeoutSteps ==
    ASSUME LinkInv, ListenerInv', NoInput', UNCHANGED linkVars, EpollTimeout
    PROVE  LinkInv'
<1>1. /\ outbound' = outbound \cup {confMail} /\ listenerPc' = "run"
      /\ UNCHANGED <<mailboxVars, inbound, receivedConfirm, refMsgId, confMail, srvMsgId, armed>>
  BY DEF EpollTimeout
<1>2. ~receivedConfirm /\ confMail.type # "CONFIRM" /\ refMsgId = confMail.id
  BY DEF EpollTimeout, Waiting, LinkInv, Awaiting, ListenerInv, Control, AwaitsWhatItRepeats,
         GetMessageID
<1>3. OnTheWire'
  BY <1>1, <1>2 DEF LinkInv, OnTheWire, linkVars
<1>4. OwnMails' /\ Awaiting'
  BY <1>1 DEF LinkInv, OwnMails, Sent, Awaiting, Stalling, linkVars, mailboxVars
<1>5. Hearing' /\ Saying' /\ Giving' /\ Carrying'
  BY <1>1 DEF LinkInv, Hearing, Sent, Saying, Giving, Carrying, Genuine, linkVars, mailboxVars
<1> QED
  BY <1>3, <1>4, <1>5 DEF LinkInv

LEMMA ConfirmSteps ==
    ASSUME LinkInv, ListenerInv', NoInput', UNCHANGED linkVars, ReceiveConfirm, LowIds
    PROVE  /\ LinkInv'
           /\ \/ UNCHANGED <<receivedConfirm, refMsgId>>
              \/ receivedConfirm' /\ Contains(heard, refMsgId)
<1> DEFINE d == Datagram1
<1>1. /\ inbound # <<>> /\ inbound' = Tail(inbound) /\ d.type = "CONFIRM"
      /\ UNCHANGED <<armed, confMail, outbound, srvMsgId, mailboxVars, listenerPc>>
  BY DEF ReceiveConfirm, HandlesDatagram, Handles, LinkInv, NoInput, ListenerInv, Control,
         NoBlockingRead, loopVars
<1>2. \/ UNCHANGED <<receivedConfirm, refMsgId>>
      \/ receivedConfirm' = TRUE /\ ~receivedConfirm /\ Mail1.ref = refMsgId
  BY DEF ReceiveConfirm, Awaited
<1>3. Carrying' /\ Genuine(d) /\ d \in Datagram
  BY <1>1, Reads DEF linkVars
<1>4. /\ Contains(heard, d.ref) /\ Mail1.ref = AsRead(d.ref)
      /\ ~receivedConfirm /\ AsRead(d.ref) = refMsgId =>
             AsRead(d.ref) = d.ref /\ ~(CharIsSigned /\ refMsgId = 128)
  <2>1. Contains(heard, d.ref)
    BY <1>1, <1>3 DEF Genuine
  <2>2. PICK n \in Nat : n = d.ref /\ n < Sent
    <3>1. PICK i \in 1..Len(heard) : heard[i] = d.ref
      BY <2>1 DEF Contains
    <3> QED
      BY <3>1 DEF LinkInv, Hearing
  <2>3. Sent \in Int /\ Sent <= 65535
    <3>1. sequenceUDPNumber \in Int /\ Len(outgoingMails) \in Nat /\ Len(SentTypes) \in Nat
      BY IdModulusAssumption, SentTypesAssumption
      DEF LinkInv, ListenerInv, Types, MailBoxTypeOK
    <3>2. sequenceUDPNumber <= Len(SentTypes) /\ Len(SentTypes) < IdModulus
          /\ IdModulus \in Int /\ IdModulus <= 65536
      BY SentTypesAssumption, IdModulusAssumption DEF LinkInv, OwnMails
    <3> QED
      BY <3>1, <3>2 DEF Sent
  <2>4. ASSUME ~receivedConfirm, AsRead(n) = refMsgId
        PROVE  AsRead(n) = n /\ ~(CharIsSigned /\ refMsgId = 128)
    <3>1. CASE ~CharIsSigned
      <4>1. Sent <= MostMails
        BY <2>3, <3>1 DEF MostMails
      <4> QED
        BY <2>2, <2>3, <3>1, <4>1, ReadBack
    <3>2. CASE CharIsSigned /\ n < 128
      <4>1. AsRead(n) = n
        BY <3>2, ReadBack DEF MostMails
      <4> QED
        BY <2>4, <3>2, <4>1
    <3>3. CASE CharIsSigned /\ n >= 128
      <4>1. Sent <= 129 /\ refMsgId \in 0..(Sent - 1)
        BY <2>3, <2>4, <3>3 DEF LinkInv, Awaiting, Stalling
      <4>2. n = 128 /\ refMsgId < 129
        BY <2>2, <2>3, <3>3, <4>1
      <4>3. AsRead(128) = 65408
        BY <3>3 DEF AsRead, ReadUInt16, Char, NoId
      <4> QED
        BY <2>4, <4>2, <4>3
    <3> QED
      BY <2>2, <3>1, <3>2, <3>3
  <2>5. Mail1.ref = AsRead(d.ref)
    BY DEF Mail1, WriteUDPMail, Of, Blank
  <2> QED
    BY <2>1, <2>2, <2>4, <2>5
<1>5. OnTheWire'
  BY <1>1, <1>2, <1>4 DEF LinkInv, OnTheWire, linkVars
<1>6. Awaiting'
  <2>1. listenerPc # "wait" /\ Sent' = Sent
    BY <1>1 DEF ReceiveConfirm, HandlesDatagram, Handles, Sent, mailboxVars
  <2>2. CASE UNCHANGED <<receivedConfirm, refMsgId>>
    BY <1>1, <2>1, <2>2 DEF LinkInv, Awaiting, Stalling
  <2>3. CASE receivedConfirm' = TRUE /\ ~receivedConfirm /\ Mail1.ref = refMsgId
    <3>1. CharIsSigned => Sent <= 128
      BY <1>4, <2>3 DEF LinkInv, Awaiting, Stalling
    <3>2. CharIsSigned => Stalling'
      BY <2>1, <3>1 DEF Stalling
    <3> QED
      BY <1>1, <2>1, <2>3, <3>2 DEF Awaiting
  <2> QED
    BY <1>2, <2>2, <2>3
<1>7. OwnMails' /\ Hearing' /\ Saying' /\ Giving'
  BY <1>1 DEF LinkInv, OwnMails, Hearing, Sent, Saying, Giving, linkVars, mailboxVars
<1> QED
  BY <1>2, <1>3, <1>4, <1>5, <1>6, <1>7 DEF LinkInv

(* A mail of the server, read as it was sent.                              *)
LEMMA ServerMail ==
    ASSUME LinkInv, LowIds, ReceiveRepeated \/ ReceiveFresh, UNCHANGED linkVars
    PROVE  /\ inbound # <<>> /\ inbound' = Tail(inbound) /\ Carrying'
           /\ Mail1 \in MailRecord /\ Mail1.type # "CONFIRM"
           /\ Mail1.id \in 0..(Len(said) - 1) /\ GetMessageID(Mail1) = Mail1.id
<1> DEFINE d == Datagram1
<1>1. HandlesDatagram(MessageType \ {"CONFIRM"})
  BY DEF ReceiveRepeated, ReceiveFresh
<1>2. inbound # <<>> /\ inbound' = Tail(inbound) /\ d.type \in MessageType \ {"CONFIRM"}
  BY <1>1 DEF HandlesDatagram, Handles, LinkInv, NoInput, ListenerInv, Control, NoBlockingRead
<1>3. Carrying' /\ Genuine(d)
  BY <1>2, Reads DEF linkVars
<1>4. d.id \in 0..(Len(said) - 1) /\ Len(said) \in Nat
  BY <1>2, <1>3 DEF Genuine, LinkInv, Saying
<1>5. Len(said) <= MostMails
  BY <1>4, ServerTypesAssumption DEF MostMails, LinkInv, Saying, LowIds
<1>6. AsRead(d.id) = d.id
  <2>1. PICK n \in 0..(Len(said) - 1) : n = d.id
    BY <1>4
  <2>2. AsRead(n) = n
    BY <1>4, <1>5, ReadBack
  <2> QED
    BY <2>1, <2>2
<1>7. Mail1 \in MailRecord
  BY <1>1, MailRead DEF LinkInv
<1>8. Mail1.type = d.type
  BY DEF Mail1, WriteUDPMail, Of, Blank
<1>9. Mail1.id = AsRead(d.id)
  BY DEF Mail1, WriteUDPMail, Of, Blank
<1> QED
  BY <1>2, <1>3, <1>4, <1>6, <1>7, <1>8, <1>9 DEF GetMessageID

LEMMA RepeatedSteps ==
    ASSUME LinkInv, ListenerInv', NoInput', UNCHANGED linkVars, ReceiveRepeated, LowIds
    PROVE  LinkInv'
<1>1. /\ UNCHANGED <<armed, confMail, receivedConfirm, refMsgId, srvMsgId, mailboxVars,
                     listenerPc>>
      /\ \/ outbound' = outbound
         \/ outbound' = outbound \cup {ConfirmFor(GetMessageID(Mail1))}
  BY DEF ReceiveRepeated, HandlesDatagram
<1>2. ConfirmFor(GetMessageID(Mail1)).type = "CONFIRM"
  BY DEF ConfirmFor, Of, Blank
<1>3. OnTheWire' /\ OwnMails' /\ Awaiting'
  BY <1>1, <1>2 DEF LinkInv, OnTheWire, OwnMails, Sent, Awaiting, Stalling, linkVars, mailboxVars
<1>4. Carrying'
  BY ServerMail
<1>5. Hearing' /\ Saying' /\ Giving'
  BY <1>1 DEF LinkInv, Hearing, Sent, Saying, Giving, linkVars, mailboxVars
<1> QED
  BY <1>3, <1>4, <1>5 DEF LinkInv

LEMMA FreshSteps ==
    ASSUME LinkInv, ListenerInv', NoInput', UNCHANGED linkVars, ReceiveFresh, LowIds
    PROVE  LinkInv'
<1> DEFINE m == Mail1
<1>1. /\ UNCHANGED <<armed, confMail, receivedConfirm, refMsgId, outgoingMails,
                     sequenceUDPNumber, listenerPc>>
      /\ outbound' = outbound \cup {ConfirmFor(GetMessageID(m))}
      /\ incomingMails' = Append(incomingMails, m) /\ srvMsgId' = GetMessageID(m)
  BY DEF ReceiveFresh, HandlesDatagram, AddMail
<1>2. /\ m \in MailRecord /\ m.type # "CONFIRM" /\ GetMessageID(m) = m.id
      /\ m.id \in 0..(Len(said) - 1) /\ Carrying'
  BY ServerMail
<1>3. ConfirmFor(m.id).type = "CONFIRM"
  BY DEF ConfirmFor, Of, Blank
<1>4. OnTheWire' /\ OwnMails' /\ Awaiting'
  BY <1>1, <1>2, <1>3 DEF LinkInv, OnTheWire, OwnMails, Sent, Awaiting, Stalling, linkVars
<1>5. Hearing' /\ Saying'
  BY <1>1, <1>2 DEF LinkInv, Hearing, Sent, Saying, linkVars
<1>6. Giving'
  <2>1. incomingMails \in Seq(MailRecord)
    BY DEF LinkInv, ListenerInv, Types, MailBoxTypeOK
  <2>2. /\ Len(incomingMails') = Len(incomingMails) + 1 /\ Len(incomingMails) \in Nat
        /\ \A i \in 1..Len(incomingMails) : incomingMails'[i] = incomingMails[i]
        /\ incomingMails'[Len(incomingMails) + 1] = m
    BY <1>1, <1>2, <2>1, Appended
  <2>3. \A i \in 1..Len(incomingMails') :
            i \in 1..Len(incomingMails) \/ i = Len(incomingMails) + 1
    BY <2>2
  <2> QED
    BY <1>2, <2>2, <2>3 DEF LinkInv, Giving, linkVars
<1> QED
  BY <1>2, <1>4, <1>5, <1>6 DEF LinkInv

LEMMA ClientStep ==
    ASSUME LinkInv, LowIds, Client
    PROVE  LinkInv'
<1>1. /\ ListenerInv' /\ ListenerNext /\ UNCHANGED linkVars /\ Protocol = "UDP"
      /\ ListenerInv /\ NoInput
  BY ListenerStep DEF LinkInv, Client, LowIds
<1> QED
  BY <1>1, LinkSteps, SilentSteps, TopSteps, SendSteps, TimeoutSteps, ConfirmSteps,
     RepeatedSteps, FreshSteps

-----------------------------------------------------------------------------
(* The FSM's two ends of the MailBox.                                      *)

LEMMA ProduceStep ==
    ASSUME LinkInv, Produce
    PROVE  /\ LinkInv'
           /\ \E m \in MailRecord :
                  /\ outgoingMails' = Append(outgoingMails, m)
                  /\ GetMessageID(m) = sequenceUDPNumber
<1> DEFINE type == SentTypes[sequenceUDPNumber + 1]
           m == [Of(type) EXCEPT !.id = sequenceUDPNumber]
<1>1. /\ outgoingMails \in Seq(MailRecord) /\ Len(outgoingMails) \in Nat
      /\ sequenceUDPNumber \in 0..(IdModulus - 1) /\ sequenceUDPNumber \in Nat
      /\ toSendPipe \in Nat
  BY IdModulusAssumption DEF LinkInv, ListenerInv, Types, MailBoxTypeOK, PipesTypeOK
<1>2. type \in MessageType \ {"CONFIRM"}
  BY <1>1, SentTypesAssumption DEF Produce
<1>3. Of(type) \in MailRecord /\ Of(type).type = type /\ ~Of(type).bare
  BY <1>2, OfType DEF Of, Blank
<1>4. m \in MailRecord /\ m.type = type /\ m.id = sequenceUDPNumber
  BY <1>1, <1>3 DEF MailRecord
<1>5. GetMessageID(m) = sequenceUDPNumber
  BY <1>2, <1>4 DEF GetMessageID
<1>6. /\ outgoingMails' = Append(outgoingMails, m)
      /\ sequenceUDPNumber' = (sequenceUDPNumber + 1) % IdModulus
      /\ toSendPipe' = toSendPipe + 1
  BY <1>3 DEF Produce, PushMail, NotifyListener
<1>7. sequenceUDPNumber' = sequenceUDPNumber + 1 /\ sequenceUDPNumber' <= Len(SentTypes)
  <2>1. /\ Len(SentTypes) \in Nat /\ Len(SentTypes) < IdModulus /\ IdModulus \in Nat
        /\ sequenceUDPNumber < Len(SentTypes)
    BY SentTypesAssumption, IdModulusAssumption DEF Produce
  <2>2. sequenceUDPNumber + 1 \in 0..(IdModulus - 1)
    BY <1>1, <2>1
  <2>3. (sequenceUDPNumber + 1) % IdModulus = sequenceUDPNumber + 1
    BY <2>1, <2>2
  <2> QED
    BY <1>1, <1>6, <2>1, <2>3
<1>8. /\ outgoingMails' \in Seq(MailRecord)
      /\ Len(outgoingMails') = Len(outgoingMails) + 1
      /\ \A i \in 1..Len(outgoingMails) : outgoingMails'[i] = outgoingMails[i]
      /\ outgoingMails'[Len(outgoingMails) + 1] = m
  BY <1>1, <1>4, <1>6, Appended
<1>9. Sent' = Sent
  BY <1>1, <1>7, <1>8 DEF Sent
<1>10. OwnMails'
  <2>1. ASSUME NEW i \in 1..Len(outgoingMails')
        PROVE  /\ outgoingMails'[i].type # "CONFIRM"
               /\ outgoingMails'[i].id = Sent + i - 1
    <3>1. CASE i = Len(outgoingMails) + 1
      <4>1. Sent + i - 1 = sequenceUDPNumber
        BY <1>1, <3>1 DEF Sent
      <4> QED
        BY <1>2, <1>4, <1>8, <3>1, <4>1
    <3>2. CASE i \in 1..Len(outgoingMails)
      BY <1>8, <3>2 DEF LinkInv, OwnMails
    <3> QED
      BY <1>8, <3>1, <3>2
  <2> QED
    BY <1>7, <1>9, <2>1 DEF LinkInv, OwnMails
<1>11. ListenerInv'
  <2>1. UNCHANGED <<incomingMails, nameOk, process, listenerVars>>
    BY DEF Produce
  <2>2. MailBoxTypeOK'
    BY <1>1, <1>6, <1>8, <2>1, IdModulusAssumption
    DEF LinkInv, ListenerInv, Types, MailBoxTypeOK, PipesTypeOK, listenerVars, pipeVars
  <2>3. outgoingMails' # <<>>
    BY <1>1, <1>8
  <2>4. Control'
    BY <1>1, <1>6, <1>8, <2>1, <2>3
    DEF LinkInv, ListenerInv, Control, NoBlockingRead, AwaitsWhatItRepeats, listenerVars,
        pipeVars, socketVars, loopVars, sendVars
  <2>5. ListenerTypeOK'
    BY <2>1 DEF LinkInv, ListenerInv, Types, ListenerTypeOK, listenerVars, socketVars,
                loopVars, sendVars, stopVars
  <2> QED
    BY <2>2, <2>4, <2>5 DEF ListenerInv, Types
<1>12. NoInput' /\ OnTheWire' /\ Awaiting' /\ Hearing'
  BY <1>9 DEF Produce, LinkInv, NoInput, OnTheWire, Awaiting, Stalling, Hearing,
              listenerVars, pipeVars, socketVars, loopVars, sendVars, linkVars
<1>13. Carrying' /\ Saying' /\ Giving'
  BY DEF Produce, LinkInv, Carrying, Genuine, Saying, Giving, listenerVars, socketVars, linkVars
<1> QED
  BY <1>4, <1>5, <1>6, <1>10, <1>11, <1>12, <1>13 DEF LinkInv

(* What a step of the others leaves alone.                                 *)
LEMMA Apart ==
    ASSUME LinkInv, UNCHANGED <<outgoingMails, sequenceUDPNumber, pipeVars, peerClosed,
                                loopVars, sendVars>>
    PROVE  NoInput' /\ OwnMails' /\ Awaiting'
BY DEF LinkInv, NoInput, OwnMails, Sent, Awaiting, Stalling, pipeVars, loopVars, sendVars

LEMMA ConsumeStep ==
    ASSUME LinkInv, Consume
    PROVE  LinkInv'
<1>1. /\ incomingMails \in Seq(MailRecord) /\ incomingMails # <<>>
      /\ incomingMails' = Tail(incomingMails)
      /\ handed' = Append(handed, GetMessageID(Head(incomingMails)))
  BY DEF Consume, PopMail, LinkInv, ListenerInv, Types, MailBoxTypeOK
<1>2. /\ incomingMails' \in Seq(MailRecord) /\ Len(incomingMails) > 0
      /\ Head(incomingMails) = incomingMails[1] /\ 1 \in 1..Len(incomingMails)
      /\ \A i \in 1..Len(incomingMails') :
             incomingMails'[i] = incomingMails[i + 1] /\ i + 1 \in 1..Len(incomingMails)
  BY <1>1, Taken
<1>3. GetMessageID(Head(incomingMails)) \in Nat
  BY <1>2 DEF LinkInv, Giving, GetMessageID
<1>4. Giving'
  <2>1. handed' \in Seq(Nat)
    BY <1>1, <1>3, Appended DEF LinkInv, Giving
  <2> QED
    BY <1>2, <2>1 DEF LinkInv, Giving
<1>5. ListenerInv'
  <2>1. inbound' \in Seq(Datagram) /\ outbound' \subseteq MailRecord
    BY DEF Consume, LinkInv, ListenerInv, Types, ListenerTypeOK, listenerVars, socketVars
  <2> QED
    BY <1>2, <2>1, OutsideSteps DEF LinkInv, Consume, listenerVars, socketVars
<1>6. NoInput' /\ OwnMails' /\ Awaiting'
  BY Apart DEF Consume, listenerVars, socketVars
<1>7. OnTheWire' /\ Hearing' /\ Carrying' /\ Saying'
  BY DEF Consume, LinkInv, OnTheWire, Hearing, Sent, Carrying, Genuine, Saying, listenerVars,
         socketVars, sendVars
<1> QED
  BY <1>4, <1>5, <1>6, <1>7 DEF LinkInv

-----------------------------------------------------------------------------
(* The network and the server.                                             *)

LEMMA WireFields ==
    ASSUME NEW type \in MessageType, NEW id \in Int, NEW ref \in Int
    PROVE  /\ Wire(type, id, ref) \in Datagram
           /\ Wire(type, id, ref).type = type /\ Wire(type, id, ref).id = id
           /\ Wire(type, id, ref).ref = ref
BY DEF Wire, Datagram, WireType

(* What they leave alone, and what they may do to the datagrams.           *)
LEMMA FarSteps ==
    ASSUME LinkInv, UNCHANGED unchangedByNetwork, inbound' \in Seq(Datagram),
           inbound # <<>> => inbound' # <<>>, outbound' \subseteq outbound
    PROVE  ListenerInv' /\ NoInput' /\ OwnMails' /\ Awaiting'
<1>1. NoInput' /\ OwnMails' /\ Awaiting'
  BY Apart DEF unchangedByNetwork, mailboxVars
<1>2. incomingMails' \in Seq(MailRecord) /\ outbound' \subseteq MailRecord
  BY DEF LinkInv, ListenerInv, Types, MailBoxTypeOK, ListenerTypeOK, unchangedByNetwork,
         mailboxVars
<1>3. ListenerInv'
  BY <1>2, OutsideSteps DEF LinkInv, unchangedByNetwork, mailboxVars
<1> QED
  BY <1>1, <1>3

LEMMA InboundType == LinkInv => inbound \in Seq(Datagram)
BY DEF LinkInv, ListenerInv, Types, ListenerTypeOK

LEMMA LoseStep ==
    ASSUME LinkInv, LoseToServer
    PROVE  LinkInv'
<1>1. /\ outbound' \subseteq outbound
      /\ UNCHANGED <<unchangedByNetwork, inbound, linkVars>>
  BY DEF LoseToServer
<1>2. ListenerInv' /\ NoInput' /\ OwnMails' /\ Awaiting'
  BY <1>1, InboundType, FarSteps
<1>3. OnTheWire' /\ Hearing' /\ Carrying' /\ Saying' /\ Giving'
  BY <1>1 DEF LinkInv, OnTheWire, Hearing, Sent, Carrying, Genuine, Saying, Giving,
              unchangedByNetwork, mailboxVars, sendVars, linkVars
<1> QED
  BY <1>2, <1>3 DEF LinkInv

LEMMA DeliverStep ==
    ASSUME LinkInv, NEW d, DeliverToClient(d)
    PROVE  LinkInv'
<1>1. /\ d \in toClient /\ d \in Datagram /\ inbound' = Append(inbound, d)
      /\ toClient' \subseteq toClient
      /\ UNCHANGED <<unchangedByNetwork, outbound, heard, said, confirmed, handed>>
  BY DEF DeliverToClient, Rest, LinkInv, Carrying
<1>2. /\ inbound' \in Seq(Datagram) /\ Len(inbound') = Len(inbound) + 1
      /\ Len(inbound) \in Nat
      /\ \A i \in 1..Len(inbound) : inbound'[i] = inbound[i]
      /\ inbound'[Len(inbound) + 1] = d
  BY <1>1, InboundType, Appended
<1>3. inbound' # <<>>
  BY <1>2
<1>4. ListenerInv' /\ NoInput' /\ OwnMails' /\ Awaiting'
  BY <1>1, <1>2, <1>3, FarSteps
<1>5. Carrying'
  <2>1. \A i \in 1..Len(inbound') : i \in 1..Len(inbound) \/ i = Len(inbound) + 1
    BY <1>2
  <2>2. \A e : Genuine(e) => Genuine(e)'
    BY <1>1 DEF Genuine
  <2> QED
    BY <1>1, <1>2, <2>1 DEF LinkInv, Carrying, Genuine
<1>6. OnTheWire' /\ Hearing' /\ Saying' /\ Giving'
  BY <1>1 DEF LinkInv, OnTheWire, Hearing, Sent, Saying, Giving, unchangedByNetwork,
              mailboxVars, sendVars
<1> QED
  BY <1>4, <1>5, <1>6 DEF LinkInv

(* The server hears a mail for the first time only if the client awaits    *)
(* its CONFIRM.                                                            *)
LEMMA HearStep ==
    ASSUME LinkInv, ServerHears
    PROVE  /\ LinkInv'
           /\ heard' # heard =>
                  /\ heard' = Append(heard, refMsgId)
                  /\ ~receivedConfirm /\ ~Contains(heard, refMsgId)
<1>1. PICK m \in outbound :
          /\ outbound' \in Rest(outbound, m)
          /\ m.type # "CONFIRM"
          /\ heard' = IF Contains(heard, m.id) THEN heard ELSE Append(heard, m.id)
          /\ CarriedOrLost(Wire("CONFIRM", NoId, m.id))
          /\ UNCHANGED <<unchangedByNetwork, inbound, said, confirmed, handed>>
  BY DEF ServerHears
<1>2. /\ Contains(heard, m.id) \/ (~receivedConfirm /\ m.id = refMsgId)
      /\ outbound' \subseteq outbound
  BY <1>1 DEF LinkInv, OnTheWire, Rest
<1>3. heard \in Seq(Nat) /\ Sent \in Int /\ m.id \in Nat
  <2>1. heard \in Seq(Nat)
    BY DEF LinkInv, Hearing
  <2>2. Sent \in Int
    BY IdModulusAssumption DEF LinkInv, ListenerInv, Types, MailBoxTypeOK, Sent
  <2>3. CASE Contains(heard, m.id)
    <3>1. PICK i \in 1..Len(heard) : heard[i] = m.id
      BY <2>3 DEF Contains
    <3>2. heard[i] \in Nat
      BY <2>1, <3>1
    <3> QED
      BY <2>1, <2>2, <3>1, <3>2
  <2>4. CASE ~receivedConfirm /\ m.id = refMsgId
    <3>1. refMsgId \in 0..(Sent - 1)
      BY <2>4 DEF LinkInv, Awaiting
    <3>2. refMsgId \in Nat
      BY <2>2, <3>1
    <3> QED
      BY <2>1, <2>2, <2>4, <3>2
  <2> QED
    BY <1>2, <2>3, <2>4
<1>4. Hearing' /\ Contains(heard', m.id) /\ \A id : Contains(heard, id) => Contains(heard', id)
  <2>1. CASE Contains(heard, m.id)
    BY <1>1, <2>1 DEF LinkInv, Hearing, Sent, unchangedByNetwork, mailboxVars
  <2>2. CASE ~Contains(heard, m.id)
    <3>1. /\ heard' \in Seq(Nat) /\ Len(heard') = Len(heard) + 1 /\ Len(heard) \in Nat
          /\ \A i \in 1..Len(heard) : heard'[i] = heard[i]
          /\ heard'[Len(heard) + 1] = m.id
      BY <1>1, <1>3, <2>2, Appended
    <3>2. m.id < Sent
      <4>1. m.id = refMsgId /\ refMsgId \in 0..(Sent - 1)
        BY <1>2, <2>2 DEF LinkInv, Awaiting
      <4> QED
        BY <1>3, <4>1
    <3>3. Sent' = Sent
      BY <1>1 DEF Sent, unchangedByNetwork, mailboxVars
    <3>4. \A i \in 1..Len(heard') : i \in 1..Len(heard) \/ i = Len(heard) + 1
      BY <3>1
    <3>5. Hearing'
      BY <3>1, <3>2, <3>3, <3>4 DEF LinkInv, Hearing
    <3>6. Len(heard) + 1 \in 1..Len(heard') /\ 1..Len(heard) \subseteq 1..Len(heard')
      BY <3>1
    <3> QED
      BY <3>1, <3>5, <3>6 DEF Contains
  <2> QED
    BY <2>1, <2>2
<1>5. OnTheWire'
  BY <1>1, <1>2, <1>4 DEF LinkInv, OnTheWire, unchangedByNetwork, sendVars
<1>6. Carrying'
  <2>1. \A e : Genuine(e) => Genuine(e)'
    BY <1>1, <1>4 DEF Genuine
  <2>2. LET w == Wire("CONFIRM", NoId, m.id)
        IN  w \in Datagram /\ w.type = "CONFIRM" /\ w.ref = m.id
    BY <1>3, NoIdType, WireFields DEF MessageType
  <2>3. toClient' \subseteq toClient \cup {Wire("CONFIRM", NoId, m.id)}
    BY <1>1 DEF CarriedOrLost
  <2> QED
    BY <1>1, <1>4, <2>1, <2>2, <2>3 DEF LinkInv, Carrying, Genuine
<1>7. ListenerInv' /\ NoInput' /\ OwnMails' /\ Awaiting'
  BY <1>1, <1>2, InboundType, FarSteps
<1>8. Saying' /\ Giving'
  BY <1>1 DEF LinkInv, Saying, Giving, unchangedByNetwork, mailboxVars
<1> QED
  BY <1>1, <1>2, <1>4, <1>5, <1>6, <1>7, <1>8 DEF LinkInv

LEMMA ConfirmedStep ==
    ASSUME LinkInv, NEW id \in ServerId, ServerConfirmed(id)
    PROVE  LinkInv'
<1>1. /\ outbound' \subseteq outbound /\ confirmed' = confirmed \cup {id}
      /\ UNCHANGED <<unchangedByNetwork, inbound, toClient, heard, said, handed>>
  BY DEF ServerConfirmed, Rest
<1>2. ListenerInv' /\ NoInput' /\ OwnMails' /\ Awaiting'
  BY <1>1, InboundType, FarSteps
<1>3. id \in Nat
  BY ServerTypesAssumption DEF ServerId
<1>4. OnTheWire' /\ Hearing' /\ Carrying' /\ Saying' /\ Giving'
  BY <1>1, <1>3 DEF LinkInv, OnTheWire, Hearing, Sent, Carrying, Genuine, Saying, Giving,
              unchangedByNetwork, mailboxVars, sendVars
<1> QED
  BY <1>2, <1>4 DEF LinkInv

LEMMA SaysStep ==
    ASSUME LinkInv, ServerSays
    PROVE  LinkInv'
<1> DEFINE id == Len(said)
           type == ServerTypes[id + 1]
<1>1. PICK ref \in RefFor(type) :
          /\ said' = Append(said, Wire(type, id, ref))
          /\ CarriedOrLost(Wire(type, id, ref))
  BY DEF ServerSays
<1>2. /\ id < Len(ServerTypes)
      /\ UNCHANGED <<unchangedByNetwork, inbound, outbound, heard, confirmed, handed>>
  BY DEF ServerSays
<1>3. said \in Seq(Datagram) /\ id \in Nat
  BY DEF LinkInv, Saying
<1>4. type \in MessageType \ {"CONFIRM"}
  BY <1>2, <1>3, ServerTypesAssumption
<1>5. ref \in Int
  <2>1. CASE type = "REPLY"
    <3>1. PICK i \in Requests : ref = heard[i]
      BY <2>1 DEF RefFor
    <3>2. i \in 1..Len(heard) /\ heard \in Seq(Nat)
      BY <3>1 DEF Requests, LinkInv, Hearing
    <3> QED
      BY <3>1, <3>2
  <2>2. CASE type # "REPLY"
    BY <2>2, NoIdType DEF RefFor
  <2> QED
    BY <2>1, <2>2
<1>6. PICK w \in Datagram : w = Wire(type, id, ref) /\ w.type = type /\ w.id = id
  BY <1>3, <1>4, <1>5, WireFields
<1>7. /\ said' \in Seq(Datagram) /\ Len(said') = id + 1
      /\ \A i \in 1..id : said'[i] = said[i]
      /\ said'[id + 1] = w
  BY <1>1, <1>3, <1>6, Appended
<1>8. Saying'
  <2>1. \A i \in 1..Len(said') : i \in 1..id \/ i = id + 1
    BY <1>3, <1>7
  <2>2. ASSUME NEW i \in 1..Len(said')
        PROVE  said'[i].type \in MessageType \ {"CONFIRM"} /\ said'[i].id = i - 1
    <3>1. CASE i \in 1..id
      BY <1>7, <3>1 DEF LinkInv, Saying
    <3>2. CASE i = id + 1
      <4>1. i - 1 = id
        BY <1>3, <3>2
      <4> QED
        BY <1>4, <1>6, <1>7, <3>2, <4>1
    <3> QED
      BY <2>1, <3>1, <3>2
  <2>3. Len(said') <= Len(ServerTypes) /\ srvMsgId' < Len(said')
    <3>1. srvMsgId \in Int /\ srvMsgId < Len(said) /\ Len(ServerTypes) \in Nat
      BY ServerTypesAssumption DEF LinkInv, Saying, ListenerInv, Types, ListenerTypeOK
    <3> QED
      BY <1>2, <1>3, <1>7, <3>1 DEF unchangedByNetwork
  <2> QED
    BY <1>2, <1>7, <2>2, <2>3 DEF LinkInv, Saying
<1>9. Carrying'
  <2>1. \A e : Genuine(e) => Genuine(e)'
    BY <1>2, <1>3, <1>7 DEF Genuine
  <2>2. Genuine(w)'
    <3>1. id \in 0..(Len(said') - 1)
      BY <1>3, <1>7
    <3>2. w.type # "CONFIRM" /\ w.type \in MessageType /\ w.id = id
      BY <1>4, <1>6
    <3> QED
      BY <3>1, <3>2 DEF Genuine
  <2>3. toClient' \subseteq toClient \cup {w}
    BY <1>1, <1>6 DEF CarriedOrLost
  <2> QED
    BY <1>2, <1>6, <2>1, <2>2, <2>3 DEF LinkInv, Carrying
<1>10. ListenerInv' /\ NoInput' /\ OwnMails' /\ Awaiting'
  BY <1>2, InboundType, FarSteps
<1>11. OnTheWire' /\ Hearing' /\ Giving'
  BY <1>2 DEF LinkInv, OnTheWire, Hearing, Sent, Giving, unchangedByNetwork, mailboxVars,
              sendVars
<1> QED
  BY <1>8, <1>9, <1>10, <1>11 DEF LinkInv

LEMMA RepeatsStep ==
    ASSUME LinkInv, NEW id \in ServerId, ServerRepeats(id)
    PROVE  LinkInv'
<1>1. /\ id \in 0..(Len(said) - 1) /\ toClient' = toClient \cup {said[id + 1]}
      /\ UNCHANGED <<unchangedByNetwork, inbound, outbound, heard, said, confirmed, handed>>
  BY DEF ServerRepeats, Unconfirmed
<1>2. Genuine(said[id + 1]) /\ said[id + 1] \in Datagram
  <2>1. said \in Seq(Datagram) /\ id + 1 \in 1..Len(said) /\ (id + 1) - 1 = id
    BY <1>1 DEF LinkInv, Saying
  <2> QED
    BY <1>1, <2>1 DEF LinkInv, Saying, Genuine
<1>3. Carrying'
  BY <1>1, <1>2 DEF LinkInv, Carrying, Genuine
<1>4. ListenerInv' /\ NoInput' /\ OwnMails' /\ Awaiting'
  BY <1>1, InboundType, FarSteps
<1>5. OnTheWire' /\ Hearing' /\ Saying' /\ Giving'
  BY <1>1 DEF LinkInv, OnTheWire, Hearing, Sent, Saying, Giving, unchangedByNetwork,
              mailboxVars, sendVars
<1> QED
  BY <1>3, <1>4, <1>5 DEF LinkInv

LEMMA StutterStep ==
    ASSUME LinkInv, UNCHANGED vars
    PROVE  LinkInv'
<1>1. ListenerInv' /\ NoInput' /\ OwnMails' /\ Awaiting'
  BY InboundType, FarSteps
  DEF vars, unchangedByNetwork, listenerVars, socketVars, linkVars
<1>2. OnTheWire' /\ Hearing' /\ Carrying' /\ Saying' /\ Giving'
  BY DEF LinkInv, OnTheWire, Hearing, Sent, Carrying, Genuine, Saying, Giving, vars,
         listenerVars, socketVars, mailboxVars, sendVars, linkVars
<1> QED
  BY <1>1, <1>2 DEF LinkInv

LEMMA LinkStep == LowIds /\ LinkInv /\ [Next]_vars => LinkInv'
BY ProduceStep, ConsumeStep, ClientStep, LoseStep, DeliverStep, HearStep, ConfirmedStep,
   SaysStep, RepeatsStep, StutterStep
DEF Next, Network, Server

LEMMA InitLinkInv == Init => LinkInv
<1> SUFFICES ASSUME Init PROVE LinkInv
  OBVIOUS
<1>1. ListenerInv
  BY ListenerInitInv DEF Init
<1>2. NoInput /\ OwnMails /\ OnTheWire /\ Awaiting /\ Hearing
  BY SentTypesAssumption DEF Init, MailBoxInit, PipesInit, ListenerInit, NoInput, OwnMails,
     Sent, OnTheWire, Awaiting, Stalling, Hearing
<1>3. Carrying /\ Saying /\ Giving
  BY ServerTypesAssumption DEF Init, MailBoxInit, ListenerInit, Carrying, Saying, Giving, NoId
<1> QED
  BY <1>1, <1>2, <1>3 DEF LinkInv

(* The inductive invariant of the link.                                    *)
THEOREM LinkInvHolds ==
    ASSUME LowIds
    PROVE  Spec => []LinkInv
<1>1. LinkInv /\ [Next]_vars => LinkInv'
  BY LinkStep
<1> QED
  BY <1>1, InitLinkInv, PTL DEF Spec

(* Where char has a sign, readUInt16 never yields the identifier 128: the  *)
(* mail that has it, the 129th, is the last that listenToSendPipe sends,   *)
(* and it is never confirmed, whatever the server confirms.                *)
THEOREM SignedCharStalls ==
    ASSUME LowIds, CharIsSigned
    PROVE  Spec => [](Sent <= 129 /\ (Sent = 129 => ~receivedConfirm /\ refMsgId = 128))
<1>1. LinkInv => Sent <= 129 /\ (Sent = 129 => ~receivedConfirm /\ refMsgId = 128)
  <2> SUFFICES ASSUME LinkInv
               PROVE  Sent <= 129 /\ (Sent = 129 => ~receivedConfirm /\ refMsgId = 128)
    OBVIOUS
  <2>1. Sent \in Int
    BY IdModulusAssumption DEF LinkInv, ListenerInv, Types, MailBoxTypeOK, Sent
  <2>2. Stalling
    BY DEF LinkInv, Awaiting
  <2> QED
    BY <2>1, <2>2 DEF Stalling
<1> QED
  BY <1>1, LinkInvHolds, PTL

(* Every variable of the client, the network and the server keeps its      *)
(* type.                                                                   *)
THEOREM LinkTypesHold ==
    ASSUME LowIds
    PROVE  Spec => []LinkTypeOK
<1>1. LinkInv => LinkTypeOK
  BY DEF LinkInv, LinkTypeOK, ListenerInv, Types, Carrying, Hearing, Saying, Giving
<1> QED
  BY <1>1, LinkInvHolds, PTL

-----------------------------------------------------------------------------
(* The link implements ReliableFifo.                                       *)

LEMMA IdsType ==
    ASSUME NEW q \in Seq(MailRecord)
    PROVE  /\ Ids(q) \in Seq(Int) /\ Len(Ids(q)) = Len(q) /\ Len(q) \in Nat
           /\ \A i \in 1..Len(q) : Ids(q)[i] = GetMessageID(q[i])
<1>1. \A i \in 1..Len(q) : GetMessageID(q[i]) \in Int
  BY IdType
<1> QED
  BY <1>1 DEF Ids

LEMMA PendingType ==
    ASSUME LinkInv
    PROVE  /\ Pending \in Seq(Int) /\ refMsgId \in Int
           /\ outgoingMails \in Seq(MailRecord) /\ Ids(outgoingMails) \in Seq(Int)
           /\ Unheard \in Seq(Int)
<1>1. refMsgId \in Int /\ outgoingMails \in Seq(MailRecord)
  BY DEF LinkInv, ListenerInv, Types, ListenerTypeOK, MailBoxTypeOK
<1>2. Pending \in Seq(Int)
  BY <1>1 DEF Pending
<1>3. Ids(outgoingMails) \in Seq(Int)
  BY <1>1, IdsType
<1> QED
  BY <1>1, <1>2, <1>3, ConcatProperties DEF Unheard

(* A mail put behind a queue, and one taken from its front.                *)
LEMMA IdsAppend ==
    ASSUME NEW q \in Seq(MailRecord), NEW m \in MailRecord
    PROVE  Ids(Append(q, m)) = Append(Ids(q), GetMessageID(m))
<1> DEFINE a == Append(q, m)
           b == Append(Ids(q), GetMessageID(m))
<1>1. /\ a \in Seq(MailRecord) /\ Len(a) = Len(q) + 1 /\ a[Len(q) + 1] = m
      /\ \A i \in 1..Len(q) : a[i] = q[i]
  BY Appended
<1>2. GetMessageID(m) \in Int /\ Ids(q) \in Seq(Int) /\ Len(Ids(q)) = Len(q) /\ Len(q) \in Nat
  BY IdType, IdsType
<1>3. /\ b \in Seq(Int) /\ Len(b) = Len(q) + 1 /\ b[Len(q) + 1] = GetMessageID(m)
      /\ \A i \in 1..Len(q) : b[i] = Ids(q)[i]
  BY <1>2, Appended
<1>4. Ids(a) \in Seq(Int) /\ Len(Ids(a)) = Len(a)
  BY <1>1, IdsType
<1>5. ASSUME NEW i \in 1..Len(a) PROVE Ids(a)[i] = b[i]
  <2>1. Ids(a)[i] = GetMessageID(a[i])
    BY <1>1, IdsType
  <2>2. CASE i \in 1..Len(q)
    BY <1>1, <1>3, <2>1, <2>2, IdsType
  <2>3. CASE i = Len(q) + 1
    BY <1>1, <1>3, <2>1, <2>3
  <2> QED
    BY <1>1, <1>2, <2>2, <2>3
<1> HIDE DEF a, b
<1>6. Ids(a) = b
  BY <1>1, <1>3, <1>4, <1>5, SeqEqual
<1> QED
  BY <1>6 DEF a, b

LEMMA IdsTail ==
    ASSUME NEW q \in Seq(MailRecord), q # <<>>
    PROVE  Ids(q) = <<GetMessageID(Head(q))>> \o Ids(Tail(q))
<1> DEFINE e == GetMessageID(Head(q))
           r == Ids(Tail(q))
           b == <<e>> \o r
<1>1. /\ Tail(q) \in Seq(MailRecord) /\ Len(Tail(q)) = Len(q) - 1 /\ Len(q) \in Nat
      /\ Len(q) > 0 /\ Head(q) = q[1] /\ Head(q) \in MailRecord
      /\ \A i \in 1..Len(Tail(q)) : Tail(q)[i] = q[i + 1]
  BY Taken
<1>2. e \in Int /\ r \in Seq(Int) /\ Len(r) = Len(q) - 1
  BY <1>1, IdType, IdsType
<1>3. <<e>> \in Seq(Int) /\ Len(<<e>>) = 1 /\ <<e>>[1] = e
  BY <1>2
<1>4. /\ b \in Seq(Int) /\ Len(b) = 1 + Len(r)
      /\ \A i \in 1..(1 + Len(r)) : b[i] = IF i <= 1 THEN <<e>>[i] ELSE r[i - 1]
  BY <1>2, <1>3, ConcatProperties
<1>5. ASSUME NEW i \in 1..Len(q) PROVE Ids(q)[i] = b[i]
  <2>1. Ids(q)[i] = GetMessageID(q[i])
    BY IdsType
  <2>2. CASE i = 1
    BY <1>1, <1>2, <1>3, <1>4, <2>1, <2>2
  <2>3. CASE i # 1
    <3>1. i - 1 \in 1..Len(Tail(q)) /\ (i - 1) + 1 = i /\ ~(i <= 1) /\ i \in 1..(1 + Len(r))
      BY <1>1, <1>2, <2>3
    <3>2. r[i - 1] = GetMessageID(Tail(q)[i - 1])
      BY <1>1, <3>1, IdsType
    <3>3. Tail(q)[i - 1] = q[i]
      BY <1>1, <3>1
    <3> QED
      BY <1>4, <2>1, <3>1, <3>2, <3>3
  <2> QED
    BY <2>2, <2>3
<1>6. Ids(q) \in Seq(Int) /\ Len(Ids(q)) = Len(b)
  BY <1>1, <1>2, <1>4, IdsType
<1> HIDE DEF b
<1>7. Ids(q) = b
  BY <1>4, <1>5, <1>6, SeqEqual, IdsType
<1> QED
  BY <1>7 DEF b

(* What a queue of one and the rest is.                                    *)
LEMMA FrontAndRest ==
    ASSUME NEW S, NEW e \in S, NEW q \in Seq(S)
    PROVE  /\ <<e>> \o q # <<>> /\ Head(<<e>> \o q) = e /\ Tail(<<e>> \o q) = q
           /\ <<e>> \o q \in Seq(S) /\ Len(<<e>> \o q) = Len(q) + 1
<1>1. <<e>> \in Seq(S) /\ Len(<<e>>) = 1 /\ <<e>>[1] = e /\ Len(q) \in Nat
  OBVIOUS
<1>2. /\ <<e>> \o q \in Seq(S) /\ Len(<<e>> \o q) = Len(q) + 1
      /\ \A i \in 1..(Len(q) + 1) : (<<e>> \o q)[i] = IF i <= 1 THEN e ELSE q[i - 1]
  BY <1>1, ConcatProperties
<1>3. <<e>> \o q # <<>>
  BY <1>1, <1>2
<1>4. Head(<<e>> \o q) = e
  BY <1>1, <1>2, <1>3, Taken
<1>5. /\ Tail(<<e>> \o q) \in Seq(S) /\ Len(Tail(<<e>> \o q)) = Len(q)
      /\ \A i \in 1..Len(q) : Tail(<<e>> \o q)[i] = (<<e>> \o q)[i + 1]
  BY <1>1, <1>2, <1>3, Taken
<1>6. \A i \in 1..Len(q) : (<<e>> \o q)[i + 1] = q[i]
  BY <1>1, <1>2
<1> QED
  BY <1>2, <1>3, <1>4, <1>5, <1>6, SeqEqual

(* sendMail appends to the queue.                                          *)
LEMMA FifoSends ==
    ASSUME LinkInv, Produce
    PROVE  \E id \in 0..(IdModulus - 1) : Fifo!Send(id)
<1> DEFINE id == sequenceUDPNumber
           queued == Ids(outgoingMails)
<1>1. id \in 0..(IdModulus - 1) /\ id \in Int /\ outgoingMails \in Seq(MailRecord)
  BY IdModulusAssumption DEF LinkInv, ListenerInv, Types, MailBoxTypeOK
<1>2. PICK m \in MailRecord :
          outgoingMails' = Append(outgoingMails, m) /\ GetMessageID(m) = id
  BY ProduceStep
<1>3. UNCHANGED <<heard, receivedConfirm, refMsgId>>
  BY DEF Produce, listenerVars, sendVars, linkVars
<1>4. Unheard' = Pending \o Append(queued, id)
  <2>1. Pending' = Pending
    BY <1>3 DEF Pending
  <2>2. Ids(outgoingMails') = Append(queued, id)
    BY <1>1, <1>2, IdsAppend
  <2> QED
    BY <2>1, <2>2 DEF Unheard
<1>5. Unheard' = Append(Unheard, id)
  <2>1. <<id>> \in Seq(Int) /\ queued \in Seq(Int) /\ Pending \in Seq(Int)
    BY <1>1, PendingType
  <2>2. Append(queued, id) = queued \o <<id>>
    BY <1>1, <2>1, AppendIsConcat
  <2>3. Pending \o (queued \o <<id>>) = (Pending \o queued) \o <<id>>
    BY <2>1, ConcatAssociative
  <2>4. Append(Unheard, id) = Unheard \o <<id>>
    BY <1>1, PendingType, AppendIsConcat
  <2> QED
    BY <1>4, <2>2, <2>3, <2>4 DEF Unheard
<1> QED
  BY <1>1, <1>3, <1>5 DEF Fifo!Send

(* listenToSendPipe only moves the front of the queue to what is awaited.  *)
LEMMA FifoTransmits ==
    ASSUME LinkInv, Protocol = "UDP", UNCHANGED linkVars, ListenToSendPipe
    PROVE  UNCHANGED <<Unheard, heard>>
<1> DEFINE id == GetMessageID(Head(outgoingMails))
<1>1. /\ outgoingMails \in Seq(MailRecord) /\ outgoingMails # <<>> /\ receivedConfirm
      /\ sequenceUDPNumber \in Int /\ heard' = heard
  BY IdModulusAssumption
  DEF LinkInv, ListenerInv, Control, Types, MailBoxTypeOK, NoBlockingRead, ListenToSendPipe,
      Handles, linkVars
<1>2. outgoingMails' = Tail(outgoingMails) /\ ~receivedConfirm' /\ refMsgId' = id
  BY DEF ListenToSendPipe, TakeOutgoingMail, AwaitConfirm
<1>3. ~Contains(heard, id)
  <2>1. /\ Len(outgoingMails) \in Nat /\ 1 \in 1..Len(outgoingMails)
        /\ Head(outgoingMails) = outgoingMails[1]
    BY <1>1, Taken
  <2>2. Sent \in Int
    BY <1>1, <2>1 DEF Sent
  <2>3. id = Sent
    BY <2>1, <2>2 DEF LinkInv, OwnMails, GetMessageID
  <2>4. ASSUME NEW i \in 1..Len(heard) PROVE heard[i] # Sent
    BY <2>2 DEF LinkInv, Hearing
  <2> QED
    BY <2>3, <2>4 DEF Contains
<1>4. Pending = <<>> /\ Pending' = <<id>>
  BY <1>1, <1>2, <1>3 DEF Pending
<1>5. Ids(outgoingMails) = <<id>> \o Ids(outgoingMails')
  BY <1>1, <1>2, IdsTail
<1>6. Unheard = Ids(outgoingMails)
  BY <1>4, PendingType, ConcatEmptySeq DEF Unheard
<1>7. Unheard' = <<id>> \o Ids(outgoingMails')
  BY <1>4 DEF Unheard
<1> QED
  BY <1>1, <1>5, <1>6, <1>7

(* What is heard for the first time is the front of what was unheard.      *)
LEMMA FifoDelivers ==
    ASSUME LinkInv, ServerHears, heard' # heard
    PROVE  Fifo!Deliver
<1>1. /\ heard' = Append(heard, refMsgId)
      /\ ~receivedConfirm /\ ~Contains(heard, refMsgId)
  BY HearStep
<1>2. UNCHANGED <<outgoingMails, receivedConfirm, refMsgId>>
  BY DEF ServerHears, unchangedByNetwork, mailboxVars, sendVars
<1>3. Contains(heard', refMsgId)
  <2>1. heard \in Seq(Nat) /\ refMsgId \in Nat
    <3>1. refMsgId \in 0..(Sent - 1) /\ heard \in Seq(Nat)
      BY <1>1 DEF LinkInv, Awaiting, Hearing
    <3> QED
      BY <3>1
  <2>2. Len(heard) + 1 \in 1..Len(heard') /\ heard'[Len(heard) + 1] = refMsgId
    BY <1>1, <2>1, Appended
  <2> QED
    BY <2>2 DEF Contains
<1>4. Unheard = <<refMsgId>> \o Ids(outgoingMails) /\ Unheard' = <<>> \o Ids(outgoingMails)
  BY <1>1, <1>2, <1>3 DEF Unheard, Pending
<1>5. Ids(outgoingMails) \in Seq(Int) /\ refMsgId \in Int
  BY PendingType
<1>6. Unheard' = Ids(outgoingMails)
  BY <1>4, <1>5, ConcatEmptySeq
<1>7. Unheard # <<>> /\ Head(Unheard) = refMsgId /\ Tail(Unheard) = Unheard'
  BY <1>4, <1>5, <1>6, FrontAndRest
<1> QED
  BY <1>1, <1>7 DEF Fifo!Deliver

LEMMA FifoUnchanged ==
    ASSUME UNCHANGED <<outgoingMails, receivedConfirm, refMsgId, heard>>
    PROVE  UNCHANGED <<Unheard, heard>>
BY DEF Unheard, Pending

(* The Listener never drops nor reorders what is unheard.                  *)
LEMMA FifoClient ==
    ASSUME LinkInv, LowIds, Client
    PROVE  UNCHANGED <<Unheard, heard>>
<1>1. /\ ListenerInv' /\ ListenerNext /\ UNCHANGED linkVars /\ Protocol = "UDP"
      /\ ListenerInv /\ NoInput
  BY ListenerStep DEF LinkInv, Client, LowIds
<1>2. heard' = heard /\ NoInput'
  BY <1>1, LinkSteps DEF linkVars
<1>3. CASE LoopTop \/ EpollTimeout \/ ReceiveRepeated \/ ReceiveFresh
  BY <1>2, <1>3, FifoUnchanged
  DEF LoopTop, EpollTimeout, ReceiveRepeated, ReceiveFresh, HandlesDatagram, mailboxVars,
      sendVars
<1>4. CASE ReceiveConfirm
  <2>1. \/ UNCHANGED <<receivedConfirm, refMsgId>>
        \/ receivedConfirm' /\ Contains(heard, refMsgId)
    BY <1>1, <1>2, <1>4, ConfirmSteps
  <2>2. outgoingMails' = outgoingMails
    BY <1>4 DEF ReceiveConfirm, mailboxVars
  <2>3. CASE UNCHANGED <<receivedConfirm, refMsgId>>
    BY <1>2, <2>2, <2>3, FifoUnchanged
  <2>4. CASE receivedConfirm' /\ Contains(heard, refMsgId)
    BY <1>2, <2>2, <2>4 DEF Unheard, Pending
  <2> QED
    BY <2>1, <2>3, <2>4
<1> QED
  BY <1>1, <1>2, <1>3, <1>4, LinkSteps, FifoTransmits, FifoUnchanged

LEMMA FifoStep ==
    ASSUME LowIds, LinkInv, [Next]_vars
    PROVE  [Fifo!Next]_<<Unheard, heard>>
<1>1. CASE Produce
  BY <1>1, FifoSends DEF Fifo!Next
<1>2. CASE Client
  BY <1>2, FifoClient
<1>3. CASE ServerHears
  <2>1. CASE heard' # heard
    BY <1>3, <2>1, FifoDelivers DEF Fifo!Next
  <2>2. CASE heard' = heard
    BY <1>3, <2>2, FifoUnchanged DEF ServerHears, unchangedByNetwork, mailboxVars, sendVars
  <2> QED
    BY <2>1, <2>2
<1>4. CASE \/ Consume \/ Network \/ ServerSays
           \/ \E id \in ServerId : ServerConfirmed(id) \/ ServerRepeats(id)
  BY <1>4, FifoUnchanged
  DEF Consume, Network, LoseToServer, DeliverToClient, ServerSays, ServerConfirmed,
      ServerRepeats, unchangedByNetwork, mailboxVars, listenerVars, sendVars, linkVars
<1>5. CASE UNCHANGED vars
  BY <1>5, FifoUnchanged DEF vars, mailboxVars, listenerVars, sendVars, linkVars
<1> QED
  BY <1>1, <1>2, <1>3, <1>4, <1>5 DEF Next, Server

(* The outgoing queue, stop-and-wait, the retries and the network between  *)
(* them hand the client's mails to the server once and in their order.     *)
THEOREM LinkIsReliableFifo ==
    ASSUME LowIds
    PROVE  Spec => IsReliableFifo
<1>1. Init => Fifo!Init
  BY DEF Init, MailBoxInit, ListenerInit, Fifo!Init, Unheard, Pending, Ids
<1>2. LinkInv /\ [Next]_vars => [Fifo!Next]_<<Unheard, heard>>
  BY FifoStep
<1> QED
  BY <1>1, <1>2, LinkInvHolds, PTL DEF Spec, IsReliableFifo, Fifo!Spec

-----------------------------------------------------------------------------
(* The server's mails.                                                     *)

(* A CONFIRM, under way or arrived, is for a mail already given.           *)
ConfirmsGiven ==
    /\ \A m \in outbound : m.type = "CONFIRM" => m.ref <= srvMsgId
    /\ \A id \in confirmed : id <= srvMsgId

(* The server is at most one mail ahead.                                   *)
GivenInv == NothingSkipped /\ ConfirmsGiven /\ srvMsgId >= NoId /\ Len(said) <= srvMsgId + 2

LEMMA Counting ==
    ASSUME NEW n \in Nat
    PROVE  Append([i \in 1..n |-> i - 1], n) = [i \in 1..(n + 1) |-> i - 1]
<1> DEFINE s == [i \in 1..n |-> i - 1]
           t == [i \in 1..(n + 1) |-> i - 1]
<1>1. s \in Seq(Int) /\ Len(s) = n /\ t \in Seq(Int) /\ Len(t) = n + 1
  OBVIOUS
<1>2. /\ Append(s, n) \in Seq(Int) /\ Len(Append(s, n)) = n + 1
      /\ \A i \in 1..n : Append(s, n)[i] = s[i]
      /\ Append(s, n)[n + 1] = n
  BY <1>1, Appended
<1>3. \A i \in 1..(n + 1) : Append(s, n)[i] = t[i]
  <2>1. ASSUME NEW i \in 1..n PROVE Append(s, n)[i] = t[i]
    BY <1>2
  <2>2. t[n + 1] = n
    OBVIOUS
  <2> QED
    BY <1>2, <2>1, <2>2
<1> HIDE DEF s, t
<1>4. Append(s, n) = t
  BY <1>1, <1>2, <1>3, SeqEqual
<1> QED
  BY <1>4 DEF s, t

LEMMA GivenType ==
    ASSUME LinkInv
    PROVE  /\ handed \in Seq(Int) /\ incomingMails \in Seq(MailRecord)
           /\ Ids(incomingMails) \in Seq(Int) /\ Given \in Seq(Int)
           /\ srvMsgId \in Int /\ said \in Seq(Datagram) /\ Len(said) \in Nat
<1>1. handed \in Seq(Int)
  BY SeqMonotonic DEF LinkInv, Giving
<1>2. incomingMails \in Seq(MailRecord) /\ srvMsgId \in Int
  BY DEF LinkInv, ListenerInv, Types, MailBoxTypeOK, ListenerTypeOK
<1>3. Ids(incomingMails) \in Seq(Int)
  BY <1>2, IdsType
<1>4. said \in Seq(Datagram) /\ Len(said) \in Nat
  BY DEF LinkInv, Saying
<1> QED
  BY <1>1, <1>2, <1>3, <1>4, ConcatProperties DEF Given

(* The FSM takes the front of its queue: nothing is given, or lost.        *)
LEMMA GivenConsume ==
    ASSUME LinkInv, GivenInv, Consume
    PROVE  GivenInv'
<1> DEFINE id == GetMessageID(Head(incomingMails))
           rest == Ids(Tail(incomingMails))
<1>1. /\ incomingMails # <<>> /\ incomingMails' = Tail(incomingMails)
      /\ handed' = Append(handed, id)
      /\ UNCHANGED <<outbound, srvMsgId, said, confirmed>>
  BY DEF Consume, PopMail, listenerVars, socketVars
<1>2. /\ Head(incomingMails) \in MailRecord /\ Tail(incomingMails) \in Seq(MailRecord)
      /\ id \in Int /\ rest \in Seq(Int)
  BY <1>1, GivenType, Taken, IdType, IdsType
<1>3. Ids(incomingMails) = <<id>> \o rest /\ <<id>> \in Seq(Int)
  BY <1>1, <1>2, GivenType, IdsTail
<1>4. handed' = handed \o <<id>>
  BY <1>1, <1>2, GivenType, AppendIsConcat
<1>5. (handed \o <<id>>) \o rest = handed \o (<<id>> \o rest)
  <2>1. handed \in Seq(Int) /\ <<id>> \in Seq(Int) /\ rest \in Seq(Int)
    BY <1>2, <1>3, GivenType, Zenon
  <2> HIDE DEF id, rest
  <2> QED
    BY <2>1, ConcatAssociative
<1>6. Given' = Given
  BY <1>1, <1>3, <1>4, <1>5 DEF Given
<1> QED
  BY <1>1, <1>6 DEF GivenInv, NothingSkipped, ConfirmsGiven

(* The mail that listenSocket hands to the FSM is the next.                *)
LEMMA GivenFresh ==
    ASSUME LinkInv, LowIds, GivenInv, ReceiveFresh, UNCHANGED linkVars
    PROVE  GivenInv'
<1> DEFINE m == Mail1
<1>1. /\ m \in MailRecord /\ GetMessageID(m) = m.id /\ m.id \in 0..(Len(said) - 1)
  BY ServerMail
<1>2. /\ ~(m.id <= srvMsgId) /\ srvMsgId' = m.id
      /\ outbound' = outbound \cup {ConfirmFor(m.id)}
      /\ incomingMails' = Append(incomingMails, m)
      /\ UNCHANGED <<handed, said, confirmed>>
  BY <1>1 DEF ReceiveFresh, Repeated, AddMail, linkVars
<1>3. m.id = srvMsgId + 1 /\ srvMsgId \in Int /\ srvMsgId + 1 \in Nat
  BY <1>1, <1>2, GivenType DEF GivenInv, NoId
<1>4. Given' = Append(Given, srvMsgId + 1)
  <2>1. Ids(incomingMails') = Append(Ids(incomingMails), srvMsgId + 1)
    BY <1>1, <1>2, <1>3, GivenType, IdsAppend
  <2>2. <<srvMsgId + 1>> \in Seq(Int)
    BY <1>3
  <2>3. Append(Ids(incomingMails), srvMsgId + 1) = Ids(incomingMails) \o <<srvMsgId + 1>>
    BY <1>3, GivenType, AppendIsConcat
  <2>4. handed \o (Ids(incomingMails) \o <<srvMsgId + 1>>)
            = (handed \o Ids(incomingMails)) \o <<srvMsgId + 1>>
    BY <2>2, GivenType, ConcatAssociative
  <2>5. Append(Given, srvMsgId + 1) = Given \o <<srvMsgId + 1>>
    BY <1>3, GivenType, AppendIsConcat
  <2> QED
    BY <1>2, <2>1, <2>3, <2>4, <2>5 DEF Given
<1>5. NothingSkipped'
  <2>1. Append([i \in 1..(srvMsgId + 1) |-> i - 1], srvMsgId + 1)
            = [i \in 1..((srvMsgId + 1) + 1) |-> i - 1]
    BY <1>3, Counting
  <2> QED
    BY <1>2, <1>3, <1>4, <2>1 DEF GivenInv, NothingSkipped
<1>6. ConfirmsGiven'
  <2>1. ConfirmFor(m.id).ref = srvMsgId'
    BY <1>2 DEF ConfirmFor, Of, Blank
  <2>2. srvMsgId < srvMsgId' /\ srvMsgId' \in Int
    BY <1>2, <1>3
  <2>3. ASSUME NEW c \in outbound', c.type = "CONFIRM" PROVE c.ref <= srvMsgId'
    <3>1. CASE c \in outbound
      <4>1. c.ref \in Int /\ c.ref <= srvMsgId
        BY <2>3, <3>1 DEF GivenInv, ConfirmsGiven, LinkInv, ListenerInv, Types, ListenerTypeOK,
                          MailRecord
      <4> QED
        BY <1>3, <2>2, <4>1
    <3>2. CASE c = ConfirmFor(m.id)
      BY <2>1, <2>2, <3>2
    <3> QED
      BY <1>2, <2>3, <3>1, <3>2
  <2>4. ASSUME NEW id \in confirmed' PROVE id <= srvMsgId'
    <3>1. id \in Int /\ id <= srvMsgId
      BY <1>2, <2>4 DEF GivenInv, ConfirmsGiven, LinkInv, Saying
    <3> QED
      BY <1>3, <2>2, <3>1
  <2> QED
    BY <2>3, <2>4 DEF ConfirmsGiven
<1>7. srvMsgId' >= NoId /\ Len(said') <= srvMsgId' + 2
  BY <1>2, <1>3, GivenType DEF GivenInv, NoId
<1> QED
  BY <1>5, <1>6, <1>7 DEF GivenInv

(* What else the Listener sends is no CONFIRM, or one it has sent before.  *)
LEMMA GivenSays ==
    ASSUME LinkInv, GivenInv, UNCHANGED <<incomingMails, srvMsgId, linkVars>>,
           NEW m, m.type = "CONFIRM" => m.ref <= srvMsgId,
           outbound' = outbound \cup {m}
    PROVE  GivenInv'
BY DEF GivenInv, NothingSkipped, Given, ConfirmsGiven, linkVars

LEMMA GivenUnchanged ==
    ASSUME GivenInv, outbound' \subseteq outbound,
           UNCHANGED <<incomingMails, srvMsgId, handed, said, confirmed>>
    PROVE  GivenInv'
BY DEF GivenInv, NothingSkipped, Given, ConfirmsGiven

LEMMA GivenClient ==
    ASSUME LinkInv, LowIds, GivenInv, Client
    PROVE  GivenInv'
<1>1. ListenerNext /\ UNCHANGED linkVars /\ Protocol = "UDP" /\ ListenerInv /\ NoInput
  BY DEF LinkInv, Client, LowIds
<1>2. UNCHANGED <<handed, said, confirmed>>
  BY <1>1 DEF linkVars
<1>3. CASE LoopTop \/ ReceiveConfirm
  BY <1>2, <1>3, GivenUnchanged
  DEF LoopTop, ReceiveConfirm, HandlesDatagram, mailboxVars, socketVars
<1>4. CASE ListenToSendPipe
  <2>1. /\ UNCHANGED <<incomingMails, srvMsgId>>
        /\ outbound' = outbound \cup {Head(outgoingMails)}
    BY <1>4 DEF ListenToSendPipe
  <2>2. Head(outgoingMails).type # "CONFIRM"
    <3>1. outgoingMails # <<>> /\ outgoingMails \in Seq(MailRecord)
      BY <1>4 DEF LinkInv, ListenerInv, Control, Types, MailBoxTypeOK, NoBlockingRead,
                  ListenToSendPipe, Handles
    <3> QED
      BY <3>1, Taken DEF LinkInv, OwnMails
  <2> QED
    BY <1>1, <2>1, <2>2, GivenSays
<1>5. CASE EpollTimeout
  <2>1. /\ UNCHANGED <<incomingMails, srvMsgId>>
        /\ outbound' = outbound \cup {confMail}
    BY <1>5 DEF EpollTimeout, mailboxVars
  <2>2. confMail.type # "CONFIRM"
    BY <1>5 DEF EpollTimeout, Waiting, LinkInv, Awaiting
  <2> QED
    BY <1>1, <2>1, <2>2, GivenSays
<1>6. CASE ReceiveRepeated
  <2>1. /\ UNCHANGED <<incomingMails, srvMsgId>> /\ GetMessageID(Mail1) <= srvMsgId
        /\ \/ outbound' = outbound
           \/ outbound' = outbound \cup {ConfirmFor(GetMessageID(Mail1))}
    BY <1>6 DEF ReceiveRepeated, Repeated, mailboxVars
  <2>2. ConfirmFor(GetMessageID(Mail1)).ref = GetMessageID(Mail1)
    BY DEF ConfirmFor, Of, Blank
  <2> QED
    BY <1>1, <1>2, <2>1, <2>2, GivenSays, GivenUnchanged
<1>7. CASE ReceiveFresh
  BY <1>1, <1>7, GivenFresh
<1> QED
  BY <1>1, <1>2, <1>3, <1>4, <1>5, <1>6, <1>7, LinkSteps, GivenUnchanged

(* A server that leaves none unconfirmed when it says the next knows that  *)
(* the last has been given.                                                *)
LEMMA GivenServerSays ==
    ASSUME LinkInv, GivenInv, ServerWindow = 1, ServerSays
    PROVE  GivenInv'
<1>1. /\ Cardinality(Unconfirmed) < 1
      /\ UNCHANGED <<unchangedByNetwork, inbound, outbound, heard, confirmed, handed>>
      /\ \E w : said' = Append(said, w)
  BY DEF ServerSays
<1>2. Unconfirmed = {}
  <2>1. Unconfirmed \in SUBSET (0..(Len(said) - 1)) /\ Len(said) - 1 \in Int
    BY GivenType DEF Unconfirmed
  <2>2. IsFiniteSet(Unconfirmed)
    <3>1. IsFiniteSet(0..(Len(said) - 1))
      BY <2>1, FS_Interval
    <3> QED
      BY <2>1, <3>1, FS_Subset
  <2>3. Cardinality(Unconfirmed) = 0
    BY <1>1, <2>2, FS_CardinalityType
  <2> QED
    BY <2>2, <2>3, FS_EmptySet
<1>3. Len(said) <= srvMsgId + 1
  <2>1. CASE Len(said) = 0
    BY <2>1, GivenType DEF GivenInv, NoId
  <2>2. CASE Len(said) # 0
    <3>1. Len(said) - 1 \in 0..(Len(said) - 1)
      BY <2>2, GivenType
    <3>2. Len(said) - 1 \in confirmed
      BY <1>2, <3>1 DEF Unconfirmed
    <3>3. Len(said) - 1 <= srvMsgId
      BY <3>2 DEF GivenInv, ConfirmsGiven
    <3> QED
      BY <3>3, GivenType
  <2> QED
    BY <2>1, <2>2
<1>4. Len(said') = Len(said) + 1
  BY <1>1, GivenType
<1>5. UNCHANGED <<incomingMails, srvMsgId>>
  BY <1>1 DEF unchangedByNetwork, mailboxVars
<1>6. Len(said') <= srvMsgId' + 2
  BY <1>3, <1>4, <1>5, GivenType
<1> QED
  BY <1>1, <1>5, <1>6 DEF GivenInv, NothingSkipped, Given, ConfirmsGiven

LEMMA GivenStep ==
    ASSUME LowIds, ServerWindow = 1, LinkInv, GivenInv, [Next]_vars
    PROVE  GivenInv'
<1>1. CASE Produce \/ Network \/ ServerHears \/ \E id \in ServerId : ServerRepeats(id)
  <2>1. outbound' \subseteq outbound
    BY <1>1 DEF Produce, Network, LoseToServer, DeliverToClient, ServerHears, ServerRepeats,
                Rest, listenerVars, socketVars
  <2>2. UNCHANGED <<incomingMails, srvMsgId, handed, said, confirmed>>
    BY <1>1 DEF Produce, Network, LoseToServer, DeliverToClient, ServerHears, ServerRepeats,
                unchangedByNetwork, mailboxVars, listenerVars, linkVars
  <2> QED
    BY <2>1, <2>2, GivenUnchanged
<1>2. CASE \E id \in ServerId : ServerConfirmed(id)
  <2>1. PICK id \in ServerId : ServerConfirmed(id)
    BY <1>2
  <2>2. ConfirmFor(id).type = "CONFIRM" /\ ConfirmFor(id).ref = id
    BY DEF ConfirmFor, Of, Blank
  <2>3. id <= srvMsgId
    BY <2>1, <2>2 DEF ServerConfirmed, GivenInv, ConfirmsGiven
  <2>4. /\ outbound' \subseteq outbound /\ confirmed' = confirmed \cup {id}
        /\ UNCHANGED <<incomingMails, srvMsgId, handed, said>>
    BY <2>1 DEF ServerConfirmed, Rest, unchangedByNetwork, mailboxVars
  <2> QED
    BY <2>3, <2>4 DEF GivenInv, NothingSkipped, Given, ConfirmsGiven
<1>3. CASE UNCHANGED vars
  BY <1>3, GivenUnchanged DEF vars, mailboxVars, listenerVars, socketVars, linkVars
<1> QED
  BY <1>1, <1>2, <1>3, GivenConsume, GivenClient, GivenServerSays DEF Next, Server

LEMMA InitGiven == Init => GivenInv
<1> SUFFICES ASSUME Init PROVE GivenInv
  OBVIOUS
<1>1. /\ handed = <<>> /\ incomingMails = <<>> /\ srvMsgId = -1 /\ said = <<>>
      /\ confirmed = {} /\ outbound = {}
  BY DEF Init, MailBoxInit, ListenerInit, NoId
<1>2. Given = <<>>
  BY <1>1 DEF Given, Ids
<1>3. [i \in 1..(srvMsgId + 1) |-> i - 1] = <<>>
  BY <1>1
<1> QED
  BY <1>1, <1>2, <1>3 DEF GivenInv, NothingSkipped, ConfirmsGiven, NoId

LEMMA SpecGiven ==
    ASSUME LowIds, ServerWindow = 1
    PROVE  Spec => [](LinkInv /\ GivenInv)
<1>1. LinkInv /\ [Next]_vars => LinkInv'
  BY LinkStep
<1>2. LinkInv /\ GivenInv /\ [Next]_vars => GivenInv'
  BY GivenStep
<1> QED
  BY <1>1, <1>2, InitLinkInv, InitGiven, PTL DEF Spec

(* The FSM is given every mail of a server that waits for each CONFIRM,    *)
(* once and in order, although listenSocket remembers one identifier only. *)
THEOREM NothingSkippedHolds ==
    ASSUME LowIds, ServerWindow = 1
    PROVE  Spec => []NothingSkipped
<1>1. GivenInv => NothingSkipped
  BY DEF GivenInv
<1> QED
  BY <1>1, SpecGiven, PTL

(* And what such a server knows to be confirmed, the FSM has been given.   *)
THEOREM ConfirmedIsGivenHolds ==
    ASSUME LowIds, ServerWindow = 1
    PROVE  Spec => []ConfirmedIsGiven
<1>1. LinkInv /\ GivenInv => ConfirmedIsGiven
  <2> SUFFICES ASSUME LinkInv, GivenInv, NEW id \in confirmed PROVE Contains(Given, id)
    BY DEF ConfirmedIsGiven
  <2>1. id \in Nat /\ id <= srvMsgId /\ srvMsgId \in Int
    BY GivenType DEF LinkInv, Saying, GivenInv, ConfirmsGiven
  <2>2. Given = [i \in 1..(srvMsgId + 1) |-> i - 1]
    BY DEF GivenInv, NothingSkipped
  <2>3. id + 1 \in 1..(srvMsgId + 1)
    BY <2>1
  <2>4. Given[id + 1] = id
    BY <2>1, <2>2, <2>3
  <2>5. Len(Given) = srvMsgId + 1
    BY <2>1, <2>2
  <2> QED
    BY <2>3, <2>4, <2>5 DEF Contains
<1> QED
  BY <1>1, SpecGiven, PTL
=============================================================================
