--------------------------- MODULE ListenerProofs ---------------------------
(***************************************************************************)
(* The invariant of the Listener thread, for every protocol, number of     *)
(* retries and modulus of the identifiers.  It speaks only of the MailBox  *)
(* and the Listener, so that the compositions can use it: each shows that  *)
(* its other processes preserve it as well.                                *)
(***************************************************************************)
EXTENDS Listener, MailProofs

Types == MailBoxTypeOK /\ ListenerTypeOK

(* A byte in the ToSendPipe stands for a mail that is in the queue; while  *)
(* the thread waits it has no descriptor to handle, and watches the pipe   *)
(* only if nothing awaits a CONFIRM.                                       *)
Control ==
    /\ NoBlockingRead
    /\ AwaitsWhatItRepeats
    /\ toSendPipe <= Len(outgoingMails)
    /\ listenerPc = "wait" => batch = {} /\ (toSendRegistered => receivedConfirm)
    /\ peerClosed => Protocol = "TCP"

ListenerInv == Types /\ Control

-----------------------------------------------------------------------------
(* Queues of mails.                                                        *)

LEMMA AddMailType ==
    ASSUME MailBoxTypeOK, NEW m \in MailRecord, AddMail(m)
    PROVE  incomingMails' \in Seq(MailRecord)
BY DEF AddMail, MailBoxTypeOK

LEMMA FrontType ==
    ASSUME NEW S, NEW s \in Seq(S), s # <<>>
    PROVE  Head(s) \in S /\ Tail(s) \in Seq(S) /\ Len(s) > 0 /\ Len(Tail(s)) = Len(s) - 1
OBVIOUS

-----------------------------------------------------------------------------
LEMMA ListenerInitInv == MailBoxInit /\ ListenerInit => ListenerInv
<1> SUFFICES ASSUME MailBoxInit, ListenerInit PROVE ListenerInv
  OBVIOUS
<1>1. MailBoxTypeOK
  BY IdModulusAssumption DEF MailBoxInit, PipesInit, MailBoxTypeOK, PipesTypeOK, ProcessState
<1>2. ListenerTypeOK
  <2>1. retries \in 0..Retries
    BY RetriesAssumption DEF ListenerInit
  <2>2. refMsgId \in Int /\ refAuthId \in Int /\ srvMsgId \in Int
    BY NoIdType DEF ListenerInit
  <2>3. confMail \in MailRecord
    BY BlankType DEF ListenerInit
  <2>4. inbound \in Seq(Datagram) /\ chunk \in Seq(Line)
    BY DEF ListenerInit
  <2> QED
    BY <2>1, <2>2, <2>3, <2>4 DEF ListenerInit, ListenerTypeOK, ListenerPc
<1>3. Control
  BY DEF MailBoxInit, PipesInit, ListenerInit, Control, NoBlockingRead, AwaitsWhatItRepeats
<1> QED
  BY <1>1, <1>2, <1>3 DEF ListenerInv, Types

-----------------------------------------------------------------------------
(* listenSocket over UDP has a datagram to read, and makes a mail of it.   *)
LEMMA DatagramRead ==
    ASSUME ListenerInv, NEW types, HandlesDatagram(types)
    PROVE  Datagram1 \in Datagram /\ inbound' \in Seq(Datagram)
<1>1. inbound # <<>> /\ inbound \in Seq(Datagram)
  BY DEF ListenerInv, Types, Control, NoBlockingRead, HandlesDatagram, Handles, ListenerTypeOK
<1> QED
  BY <1>1, FrontType DEF HandlesDatagram, Datagram1

LEMMA MailRead ==
    ASSUME ListenerInv, NEW types \in SUBSET MessageType, HandlesDatagram(types)
    PROVE  Mail1 \in MailRecord /\ GetMessageID(Mail1) \in Int
<1>1. Datagram1 \in Datagram /\ Datagram1.type \in MessageType
  BY DatagramRead DEF HandlesDatagram
<1> QED
  BY <1>1, WriteUDPMailType, IdType DEF Mail1

LEMMA ListenerTypes == ListenerInv /\ ListenerNext => Types'
<1> SUFFICES ASSUME ListenerInv, ListenerNext PROVE Types'
  OBVIOUS
<1> USE DEF ListenerInv, Types, mailboxVars, pipeVars, socketVars, sendVars, stopVars,
            listenerVars, loopVars
<1>1. CASE LoopTop
  BY <1>1, OversleepsAssumption DEF LoopTop, WatchesToSend, Armed, AtLoopTop, MailBoxTypeOK,
     PipesTypeOK, ListenerTypeOK, ListenerPc, ProcessState, FdType
<1>2. CASE LoopExit
  BY <1>2, OversleepsAssumption DEF LoopExit, AtLoopTop, MailBoxTypeOK,
     PipesTypeOK, ListenerTypeOK, ListenerPc, ProcessState, FdType
<1>3. CASE EpollReady
  BY <1>3, OversleepsAssumption DEF EpollReady, Waiting, Ready,
     MailBoxTypeOK, PipesTypeOK, ListenerTypeOK, ListenerPc, ProcessState,
     FdType
<1>4. CASE EpollTimeout
  <2>1. confMail \in MailRecord /\ retries + 1 \in 0..Retries
    BY <1>4, RetriesAssumption DEF EpollTimeout, MayRetry, ListenerTypeOK
  <2>2. outbound' \subseteq MailRecord
    BY <1>4, <2>1 DEF EpollTimeout, ListenerTypeOK
  <2>3. MailBoxTypeOK'
    BY <1>4 DEF EpollTimeout, MailBoxTypeOK, PipesTypeOK
  <2>4. ListenerTypeOK'
    BY <1>4, <2>1, <2>2 DEF EpollTimeout, ListenerTypeOK, ListenerPc
  <2> QED
    BY <2>3, <2>4
<1>5. CASE EpollGiveUp
  BY <1>5, OversleepsAssumption DEF EpollGiveUp, Exit1, MailBoxTypeOK,
     PipesTypeOK, ListenerTypeOK, ListenerPc, ProcessState, FdType
<1>6. CASE ListenStdin
  BY <1>6, OversleepsAssumption DEF ListenStdin, Handles, MailBoxTypeOK,
     PipesTypeOK, ListenerTypeOK, ListenerPc, ProcessState, FdType
<1>7. CASE ListenStdinLine
  <2>1. Head(chunk) \in Line /\ Tail(chunk) \in Seq(Line)
    BY <1>7, FrontType DEF ListenStdinLine, AtLine, Control, NoBlockingRead, ListenerTypeOK
  <2>2. incomingMails' \in Seq(MailRecord)
    BY <1>7, <2>1, LineMailsType, AddMailType DEF ListenStdinLine, MailBoxTypeOK
  <2>3. nameOk' \in BOOLEAN
    BY <1>7 DEF ListenStdinLine, NameAfter, MailBoxTypeOK
  <2>4. MailBoxTypeOK'
    BY <1>7, <2>2, <2>3 DEF ListenStdinLine, MailBoxTypeOK, PipesTypeOK
  <2>5. ListenerTypeOK'
    BY <1>7, <2>1 DEF ListenStdinLine, NextLine, ListenerTypeOK, ListenerPc
  <2> QED
    BY <2>4, <2>5
<1>8. CASE ListenStdinThrows
  BY <1>8, OversleepsAssumption DEF ListenStdinThrows, Exit1, MailBoxTypeOK,
     PipesTypeOK, ListenerTypeOK, ListenerPc, ProcessState, FdType
<1>9. CASE ListenSignal
  <2>1. [Of("ERR") EXCEPT !.sigint = TRUE] \in MailRecord
    <3>1. Of("ERR") \in MailRecord
      BY OfType DEF MessageType
    <3> QED
      BY <3>1 DEF MailRecord
  <2>2. incomingMails' \in Seq(MailRecord)
    BY <1>9, <2>1, AddMailType DEF ListenSignal
  <2>3. signalPipe' \in Nat
    BY <1>9 DEF ListenSignal, Handles, Control, NoBlockingRead, MailBoxTypeOK, PipesTypeOK
  <2>4. MailBoxTypeOK'
    BY <1>9, <2>2, <2>3 DEF ListenSignal, MailBoxTypeOK, PipesTypeOK
  <2>5. ListenerTypeOK'
    BY <1>9 DEF ListenSignal, Handles, ListenerTypeOK, ListenerPc
  <2> QED
    BY <2>4, <2>5
<1>10. CASE ListenSignalThrows
  <2>1. signalPipe' \in Nat
    BY <1>10 DEF ListenSignalThrows, Handles, Control, NoBlockingRead, MailBoxTypeOK,
                 PipesTypeOK
  <2>2. MailBoxTypeOK'
    BY <1>10, <2>1 DEF ListenSignalThrows, Exit1, MailBoxTypeOK, PipesTypeOK, ProcessState
  <2>3. ListenerTypeOK'
    BY <1>10 DEF ListenSignalThrows, Handles, ListenerTypeOK, ListenerPc
  <2> QED
    BY <2>2, <2>3
<1>11. CASE ListenToSendPipe
  <2>1. toSendPipe > 0 /\ outgoingMails # <<>>
    BY <1>11 DEF ListenToSendPipe, Handles, Control, NoBlockingRead
  <2>2. Head(outgoingMails) \in MailRecord /\ outgoingMails' \in Seq(MailRecord)
    BY <1>11, <2>1, FrontType DEF ListenToSendPipe, TakeOutgoingMail, MailBoxTypeOK
  <2>3. toSendPipe' \in Nat
    BY <1>11, <2>1 DEF ListenToSendPipe, TakeOutgoingMail, MailBoxTypeOK, PipesTypeOK
  <2>4. MailBoxTypeOK'
    BY <1>11, <2>2, <2>3 DEF ListenToSendPipe, MailBoxTypeOK, PipesTypeOK
  <2>5. refMsgId' \in Int /\ refAuthId' \in Int /\ receivedConfirm' \in BOOLEAN
    BY <1>11, <2>2, IdType DEF ListenToSendPipe, AwaitConfirm, ListenerTypeOK
  <2>6. confMail' \in MailRecord /\ outbound' \subseteq MailRecord
    BY <1>11, <2>2 DEF ListenToSendPipe, AwaitConfirm, ListenerTypeOK
  <2>7. sentBye' \in BOOLEAN /\ keepRunning' \in BOOLEAN
    BY <1>11 DEF ListenToSendPipe, ListenerTypeOK
  <2>8. ListenerTypeOK'
    BY <1>11, <2>5, <2>6, <2>7 DEF ListenToSendPipe, Handles, ListenerTypeOK, ListenerPc
  <2> QED
    BY <2>4, <2>8
<1>12. CASE ListenToSendPipeBroken
  <2>1. toSendPipe > 0 /\ outgoingMails # <<>>
    BY <1>12 DEF ListenToSendPipeBroken, Handles, Control, NoBlockingRead
  <2>2. outgoingMails' \in Seq(MailRecord) /\ toSendPipe' \in Nat
    BY <1>12, <2>1, FrontType
    DEF ListenToSendPipeBroken, TakeOutgoingMail, MailBoxTypeOK, PipesTypeOK
  <2>3. MailBoxTypeOK'
    BY <1>12, <2>2 DEF ListenToSendPipeBroken, MailBoxTypeOK, PipesTypeOK, ProcessState
  <2>4. ListenerTypeOK'
    BY <1>12 DEF ListenToSendPipeBroken, Handles, ListenerTypeOK, ListenerPc
  <2> QED
    BY <2>3, <2>4
<1>13. CASE ReceiveInvalid
  <2>1. inbound' \in Seq(Datagram)
    BY <1>13, DatagramRead DEF ReceiveInvalid
  <2>2. MailBoxTypeOK'
    BY <1>13 DEF ReceiveInvalid, HandlesDatagram, Exit1, MailBoxTypeOK, PipesTypeOK,
                  ProcessState
  <2>3. ListenerTypeOK'
    BY <1>13, <2>1 DEF ReceiveInvalid, HandlesDatagram, Handles, ListenerTypeOK, ListenerPc
  <2> QED
    BY <2>2, <2>3
<1>14. CASE ReceiveConfirm
  <2>1. inbound' \in Seq(Datagram)
    BY <1>14, DatagramRead DEF ReceiveConfirm
  <2>2. /\ receivedConfirm' \in BOOLEAN /\ retries' \in 0..Retries /\ refMsgId' \in Int
    <3>1. 0 \in 0..Retries
      BY RetriesAssumption
    <3> QED
      BY <1>14, <3>1, NoIdType DEF ReceiveConfirm, ListenerTypeOK
  <2>3. MailBoxTypeOK'
    BY <1>14 DEF ReceiveConfirm, HandlesDatagram, MailBoxTypeOK, PipesTypeOK
  <2>4. ListenerTypeOK'
    BY <1>14, <2>1, <2>2
    DEF ReceiveConfirm, HandlesDatagram, Handles, ListenerTypeOK, ListenerPc
  <2> QED
    BY <2>3, <2>4
<1>15. CASE ReceiveRepeated
  <2>1. inbound' \in Seq(Datagram)
    BY <1>15, DatagramRead DEF ReceiveRepeated
  <2>2. outbound' \subseteq MailRecord
    <3>1. CASE ConfirmsAgain(Mail1)
      <4>1. GetMessageID(Mail1) \in Int
        BY <1>15, MailRead DEF ReceiveRepeated
      <4> QED
        BY <1>15, <3>1, <4>1, ConfirmForType DEF ReceiveRepeated, ListenerTypeOK
    <3>2. CASE ~ConfirmsAgain(Mail1)
      BY <1>15, <3>2 DEF ReceiveRepeated, ListenerTypeOK
    <3> QED
      BY <3>1, <3>2
  <2>3. MailBoxTypeOK'
    BY <1>15 DEF ReceiveRepeated, HandlesDatagram, MailBoxTypeOK, PipesTypeOK
  <2>4. ListenerTypeOK'
    BY <1>15, <2>1, <2>2
    DEF ReceiveRepeated, HandlesDatagram, Handles, ListenerTypeOK, ListenerPc
  <2> QED
    BY <2>3, <2>4
<1>16. CASE ReceiveStray
  <2>1. inbound' \in Seq(Datagram)
    BY <1>16, DatagramRead DEF ReceiveStray
  <2>2. MailBoxTypeOK'
    BY <1>16 DEF ReceiveStray, HandlesDatagram, MailBoxTypeOK, PipesTypeOK
  <2>3. ListenerTypeOK'
    BY <1>16, <2>1 DEF ReceiveStray, HandlesDatagram, Handles, ListenerTypeOK, ListenerPc
  <2> QED
    BY <2>2, <2>3
<1>17. CASE ReceiveFresh
  <2>1. inbound' \in Seq(Datagram)
    BY <1>17, DatagramRead DEF ReceiveFresh
  <2>2. Mail1 \in MailRecord /\ GetMessageID(Mail1) \in Int
    BY <1>17, MailRead DEF ReceiveFresh
  <2>3. outbound' \subseteq MailRecord /\ srvMsgId' \in Int
    BY <1>17, <2>2, ConfirmForType DEF ReceiveFresh, ListenerTypeOK
  <2>4. incomingMails' \in Seq(MailRecord)
    BY <1>17, <2>2, AddMailType DEF ReceiveFresh
  <2>5. MailBoxTypeOK'
    BY <1>17, <2>4 DEF ReceiveFresh, HandlesDatagram, MailBoxTypeOK, PipesTypeOK
  <2>6. ListenerTypeOK'
    BY <1>17, <2>1, <2>3
    DEF ReceiveFresh, HandlesDatagram, Handles, ListenerTypeOK, ListenerPc
  <2> QED
    BY <2>5, <2>6
<1>18. CASE ReceiveText
  <2>1. PICK n \in 1..Len(inbound) : HandlesText(n)
    BY <1>18 DEF ReceiveText
  <2>2. Datagram1 \in Datagram /\ inbound' \in Seq(Datagram)
    BY <2>1 DEF HandlesText, Datagram1, ListenerTypeOK
  <2>3. incomingMails' \in Seq(MailRecord)
    BY <1>18, <2>2, WriteTCPMailType, AddMailType DEF ReceiveText
  <2>4. MailBoxTypeOK'
    BY <1>18, <2>1, <2>3 DEF ReceiveText, HandlesText, MailBoxTypeOK, PipesTypeOK
  <2>5. ListenerTypeOK'
    BY <1>18, <2>1, <2>2 DEF ReceiveText, HandlesText, Handles, ListenerTypeOK, ListenerPc
  <2> QED
    BY <2>4, <2>5
<1>19. CASE ReceiveInvalidText
  <2>1. PICK n \in 1..Len(inbound) : HandlesText(n)
    BY <1>19 DEF ReceiveInvalidText
  <2>2. inbound' \in Seq(Datagram)
    BY <2>1 DEF HandlesText, ListenerTypeOK
  <2>3. MailBoxTypeOK'
    BY <1>19, <2>1 DEF ReceiveInvalidText, HandlesText, Exit1, MailBoxTypeOK, PipesTypeOK,
                       ProcessState
  <2>4. ListenerTypeOK'
    BY <1>19, <2>1, <2>2
    DEF ReceiveInvalidText, HandlesText, Handles, ListenerTypeOK, ListenerPc
  <2> QED
    BY <2>3, <2>4
<1>20. CASE ReceiveEof
  <2>1. EofMail \in MailRecord
    <3>1. Of("UNKNOWN") \in MailRecord
      BY OfType DEF MessageType
    <3> QED
      BY <3>1 DEF EofMail, MailRecord
  <2>2. incomingMails' \in Seq(MailRecord)
    BY <1>20, <2>1, AddMailType DEF ReceiveEof, MailBoxTypeOK
  <2>3. MailBoxTypeOK'
    BY <1>20, <2>2 DEF ReceiveEof, HandlesText, MailBoxTypeOK, PipesTypeOK
  <2>4. ListenerTypeOK'
    BY <1>20 DEF ReceiveEof, HandlesText, Handles, ListenerTypeOK, ListenerPc
  <2> QED
    BY <2>3, <2>4
<1>21. CASE ReceiveReset
  BY <1>21 DEF ReceiveReset, Handles, Exit1, MailBoxTypeOK, PipesTypeOK, ListenerTypeOK,
               ProcessState, pipeVars, socketVars, sendVars, stopVars
<1> QED
  BY <1>1, <1>2, <1>3, <1>4, <1>5, <1>6, <1>7, <1>8, <1>9, <1>10, <1>11,
     <1>12, <1>13, <1>14, <1>15, <1>16, <1>17, <1>18, <1>19, <1>20, <1>21
  DEF ListenerNext, ReceiveUdp, ReceiveTcp

-----------------------------------------------------------------------------
LEMMA ListenerControl == ListenerInv /\ ListenerNext => Control'
<1> SUFFICES ASSUME ListenerInv, ListenerNext PROVE Control'
  OBVIOUS
<1> USE DEF ListenerInv, Types, Control, NoBlockingRead, MailBoxTypeOK, PipesTypeOK,
            mailboxVars, pipeVars, socketVars, sendVars, stopVars, listenerVars, loopVars
<1>1. CASE LoopTop
  BY <1>1 DEF LoopTop, WatchesToSend, AtLoopTop, AwaitsWhatItRepeats
<1>2. CASE LoopExit
  BY <1>2 DEF LoopExit, AtLoopTop, AwaitsWhatItRepeats
<1>3. CASE EpollReady
  BY <1>3 DEF EpollReady, Waiting, Ready, AwaitsWhatItRepeats
<1>4. CASE EpollTimeout
  BY <1>4 DEF EpollTimeout, Waiting, AwaitsWhatItRepeats
<1>5. CASE EpollGiveUp
  BY <1>5 DEF EpollGiveUp, Exit1, AwaitsWhatItRepeats
<1>6. CASE ListenStdin
  BY <1>6 DEF ListenStdin, Handles, AwaitsWhatItRepeats
<1>7. CASE ListenStdinLine
  <2>1. chunk # <<>> /\ chunk \in Seq(Line)
    BY <1>7 DEF ListenStdinLine, AtLine, ListenerTypeOK
  <2>2. listenerPc' = "stdin" => Tail(chunk) # <<>>
    <3>1. SUFFICES ASSUME listenerPc' = "stdin" PROVE Len(Tail(chunk)) # 0
      OBVIOUS
    <3>2. Len(chunk) # 1
      BY <1>7, <3>1 DEF ListenStdinLine, NextLine
    <3>3. Len(chunk) \in Nat /\ Len(Tail(chunk)) = Len(chunk) - 1
      BY <2>1, FrontType
    <3> QED
      BY <3>2, <3>3
  <2>3. listenerPc' # "wait"
    BY <1>7 DEF ListenStdinLine, NextLine
  <2> QED
    BY <1>7, <2>2, <2>3 DEF ListenStdinLine, NextLine, AwaitsWhatItRepeats
<1>8. CASE ListenStdinThrows
  BY <1>8 DEF ListenStdinThrows, Exit1, AwaitsWhatItRepeats
<1>9. CASE ListenSignal
  BY <1>9 DEF ListenSignal, Handles, AddMail, AwaitsWhatItRepeats
<1>10. CASE ListenSignalThrows
  BY <1>10 DEF ListenSignalThrows, Handles, Exit1, AwaitsWhatItRepeats
<1>11. CASE ListenToSendPipe
  <2>1. outgoingMails # <<>> /\ toSendPipe > 0
    BY <1>11 DEF ListenToSendPipe, Handles
  <2>2. Len(outgoingMails') = Len(outgoingMails) - 1 /\ toSendPipe' = toSendPipe - 1
    BY <1>11, <2>1, FrontType DEF ListenToSendPipe, TakeOutgoingMail
  <2>3. (toSendPipe <= Len(outgoingMails))'
    BY <2>2
  <2>4. "ToSendPipe" \notin batch' /\ listenerPc' = "run"
    BY <1>11 DEF ListenToSendPipe, Handles
  <2>5. AwaitsWhatItRepeats'
    BY <1>11 DEF ListenToSendPipe, AwaitConfirm, AwaitsWhatItRepeats
  <2>6. NoBlockingRead'
    BY <1>11, <2>4 DEF ListenToSendPipe, Handles
  <2>7. (peerClosed => Protocol = "TCP")'
    BY <1>11 DEF ListenToSendPipe
  <2> QED
    BY <2>3, <2>4, <2>5, <2>6, <2>7
<1>12. CASE ListenToSendPipeBroken
  BY <1>12 DEF ListenToSendPipeBroken, Handles, TakeOutgoingMail,
     AwaitsWhatItRepeats
<1>13. CASE ReceiveInvalid
  BY <1>13 DEF ReceiveInvalid, HandlesDatagram, Handles, Exit1,
     AwaitsWhatItRepeats
<1>14. CASE ReceiveConfirm
  BY <1>14 DEF ReceiveConfirm, HandlesDatagram, Handles, AwaitsWhatItRepeats
<1>15. CASE ReceiveRepeated
  BY <1>15 DEF ReceiveRepeated, HandlesDatagram, Handles,
     AwaitsWhatItRepeats
<1>16. CASE ReceiveStray
  BY <1>16 DEF ReceiveStray, HandlesDatagram, Handles, AwaitsWhatItRepeats
<1>17. CASE ReceiveFresh
  BY <1>17 DEF ReceiveFresh, HandlesDatagram, Handles, AddMail,
     AwaitsWhatItRepeats
<1>18. CASE ReceiveText
  BY <1>18 DEF ReceiveText, HandlesText, Handles, AddMail,
     AwaitsWhatItRepeats
<1>19. CASE ReceiveInvalidText
  BY <1>19 DEF ReceiveInvalidText, HandlesText, Handles, Exit1,
     AwaitsWhatItRepeats
<1>20. CASE ReceiveEof
  BY <1>20 DEF ReceiveEof, HandlesText, Handles, AddMail,
     AwaitsWhatItRepeats
<1>21. CASE ReceiveReset
  BY <1>21 DEF ReceiveReset, Handles, Exit1, AwaitsWhatItRepeats
<1> QED
  BY <1>1, <1>2, <1>3, <1>4, <1>5, <1>6, <1>7, <1>8, <1>9, <1>10, <1>11,
     <1>12, <1>13, <1>14, <1>15, <1>16, <1>17, <1>18, <1>19, <1>20, <1>21
  DEF ListenerNext, ReceiveUdp, ReceiveTcp

LEMMA ListenerStep == ListenerInv /\ ListenerNext => ListenerInv'
BY ListenerTypes, ListenerControl DEF ListenerInv
=============================================================================
