-------------------------- MODULE ChatClientProofs --------------------------
(***************************************************************************)
(* Theorems about the whole client, for every protocol, number of retries  *)
(* and modulus, every input of the user and the peer, and every bound: the *)
(* hand-over between the threads, how a conversation ends, and what the    *)
(* two sides of it are told, and in which order.                           *)
(***************************************************************************)
EXTENDS ChatClient, ListenerProofs

EnvTypeOK ==
    /\ mainPc \in MainPc
    /\ lines \in 0..MaxLines /\ arrivals \in 0..MaxArrivals /\ signals \in 0..MaxSignals

(* The Listener's invariant, with the typing of the other threads and what *)
(* holds between the queue and the pipe.                                   *)
Inv == ListenerInv /\ FsmTypeOK /\ StdinTypeOK /\ EnvTypeOK /\ NotifyMatchesOutgoing

-----------------------------------------------------------------------------
LEMMA InitInv == Init => Inv
<1> SUFFICES ASSUME Init PROVE Inv
  OBVIOUS
<1>1. ListenerInv
  BY ListenerInitInv DEF Init
<1>2. FsmTypeOK
  BY BlankType DEF Init, FsmInit, FsmTypeOK, State, FsmPc
<1>3. StdinTypeOK /\ EnvTypeOK
  BY BoundsAssumption DEF Init, StdinInit, StdinTypeOK, EnvTypeOK, MainPc
<1>4. NotifyMatchesOutgoing
  BY DEF Init, MailBoxInit, PipesInit, FsmInit, NotifyMatchesOutgoing
<1> QED
  BY <1>1, <1>2, <1>3, <1>4 DEF Inv

-----------------------------------------------------------------------------
(* What an action of the FSM does to the variables of the other threads    *)
(* is nothing; to the MailBox it is a pop, a push or a byte.               *)

LEMMA WaitMailTypes ==
    ASSUME Inv, WaitMail
    PROVE  Received \in MailRecord /\ incomingMails' \in Seq(MailRecord)
BY FrontType
DEF Inv, ListenerInv, Types, MailBoxTypeOK, WaitMail, PopMail, Received

(* The ListenerInv of a MailBox from which a mail was popped.              *)
LEMMA PopKeepsListenerInv ==
    ASSUME Inv, incomingMails' \in Seq(MailRecord), process' \in ProcessState,
           UNCHANGED <<outgoingMails, toSendPipe, sequenceUDPNumber, nameOk, listenerVars>>
    PROVE  ListenerInv'
BY DEF Inv, ListenerInv, Types, MailBoxTypeOK, PipesTypeOK, ListenerTypeOK, Control,
       NoBlockingRead, AwaitsWhatItRepeats, listenerVars, pipeVars, socketVars, loopVars,
       sendVars, stopVars

LEMMA FsmReceives ==
    ASSUME Inv, UNCHANGED listenerVars,
           \/ FsmForward \/ FsmBye \/ (\E validName \in ValidNames : FsmErr(validName))
           \/ FsmSilent \/ FsmUndecodable
    PROVE  ListenerInv' /\ FsmTypeOK' /\ NotifyMatchesOutgoing'
<1>1. WaitMail
  BY DEF FsmForward, FsmBye, FsmErr, FsmSilent, FsmUndecodable
<1>2. Received \in MailRecord /\ incomingMails' \in Seq(MailRecord)
  BY <1>1, WaitMailTypes
<1>3. UNCHANGED <<outgoingMails, toSendPipe, sequenceUDPNumber, nameOk>>
  BY DEF FsmForward, FsmBye, FsmErr, FsmSilent, FsmUndecodable
<1>4. process' \in ProcessState
  BY DEF FsmForward, FsmBye, FsmErr, FsmSilent, FsmUndecodable, ProcessState, Inv,
         ListenerInv, Types, MailBoxTypeOK
<1>5. ListenerInv'
  BY <1>2, <1>3, <1>4, PopKeepsListenerInv
<1>6. Of("BYE") \in MailRecord /\ Of("ERR") \in MailRecord
  BY OfType DEF MessageType
<1>7. [Received EXCEPT !.type = "ERR"] \in MailRecord
  BY <1>2 DEF MailRecord, MessageType
<1>8. mail' \in MailRecord
  BY <1>2, <1>6, <1>7
  DEF FsmForward, FsmBye, FsmErr, FsmSilent, FsmUndecodable, fsmVars, Inv, FsmTypeOK
<1>9. state' \in State /\ fsmPc' \in FsmPc
  BY DEF FsmForward, FsmBye, FsmErr, FsmSilent, FsmUndecodable, fsmVars, Inv, FsmTypeOK,
         State, FsmPc, SilentState
<1>10. fsmPc = "wait" /\ fsmPc' # "notify"
  BY <1>1 DEF WaitMail, FsmForward, FsmBye, FsmErr, FsmSilent, FsmUndecodable, fsmVars
<1>11. NotifyMatchesOutgoing'
  BY <1>3, <1>10 DEF Inv, NotifyMatchesOutgoing
<1> QED
  BY <1>5, <1>8, <1>9, <1>11 DEF FsmTypeOK

LEMMA FsmErrorStep ==
    ASSUME Inv, UNCHANGED listenerVars, FsmError
    PROVE  ListenerInv' /\ FsmTypeOK' /\ NotifyMatchesOutgoing'
<1>1. ListenerInv'
  BY PopKeepsListenerInv DEF FsmError, mailboxVars, Inv, ListenerInv, Types, MailBoxTypeOK
<1>2. Of("BYE") \in MailRecord
  BY OfType DEF MessageType
<1>3. FsmTypeOK'
  BY <1>2 DEF FsmError, Inv, FsmTypeOK, FsmPc
<1>4. NotifyMatchesOutgoing'
  BY DEF FsmError, mailboxVars, Inv, NotifyMatchesOutgoing
<1> QED
  BY <1>1, <1>3, <1>4

LEMMA FsmPushStep ==
    ASSUME Inv, UNCHANGED listenerVars, FsmPush
    PROVE  ListenerInv' /\ FsmTypeOK' /\ NotifyMatchesOutgoing'
<1>1. PICK m \in MailRecord : outgoingMails' = Append(outgoingMails, m)
  <2>1. mail \in MailRecord
    BY DEF Inv, FsmTypeOK
  <2>2. sequenceUDPNumber \in Int
    BY IdModulusAssumption DEF Inv, ListenerInv, Types, MailBoxTypeOK
  <2>3. [mail EXCEPT !.id = sequenceUDPNumber] \in MailRecord
    BY <2>1, <2>2 DEF MailRecord
  <2> QED
    BY <2>1, <2>3 DEF FsmPush, PushMail
<1>2. /\ outgoingMails' \in Seq(MailRecord) /\ outgoingMails' # <<>>
      /\ Len(outgoingMails') = Len(outgoingMails) + 1
  BY <1>1 DEF Inv, ListenerInv, Types, MailBoxTypeOK
<1>3. sequenceUDPNumber' \in 0..(IdModulus - 1)
  BY IdModulusAssumption DEF FsmPush, PushMail, Inv, ListenerInv, Types, MailBoxTypeOK
<1>4. MailBoxTypeOK'
  BY <1>2, <1>3
  DEF FsmPush, Inv, ListenerInv, Types, MailBoxTypeOK, PipesTypeOK, listenerVars, pipeVars
<1>5. ListenerTypeOK'
  BY DEF Inv, ListenerInv, Types, ListenerTypeOK, listenerVars, socketVars, loopVars,
         sendVars, stopVars
<1>6. (toSendPipe <= Len(outgoingMails))'
  BY <1>2 DEF FsmPush, Inv, ListenerInv, Types, Control, MailBoxTypeOK, PipesTypeOK
<1>7. Control'
  BY <1>2, <1>6
  DEF FsmPush, Inv, ListenerInv, Control, NoBlockingRead, AwaitsWhatItRepeats,
      listenerVars, pipeVars, socketVars, loopVars, sendVars
<1>8. FsmTypeOK' /\ NotifyMatchesOutgoing'
  BY <1>2 DEF FsmPush, Inv, FsmTypeOK, FsmPc, NotifyMatchesOutgoing, ListenerInv, Types,
              MailBoxTypeOK, PipesTypeOK
<1> QED
  BY <1>4, <1>5, <1>7, <1>8 DEF ListenerInv, Types

LEMMA FsmNotifyStep ==
    ASSUME Inv, UNCHANGED listenerVars, FsmNotify
    PROVE  ListenerInv' /\ FsmTypeOK' /\ NotifyMatchesOutgoing'
<1>1. toSendPipe' = toSendPipe + 1 /\ toSendPipe \in Nat /\ Len(outgoingMails) \in Nat
  BY DEF FsmNotify, NotifyListener, Inv, ListenerInv, Types, MailBoxTypeOK, PipesTypeOK
<1>2. Len(outgoingMails) = toSendPipe + 1
  BY DEF FsmNotify, Inv, NotifyMatchesOutgoing
<1>3. MailBoxTypeOK'
  BY <1>1
  DEF FsmNotify, Inv, ListenerInv, Types, MailBoxTypeOK, PipesTypeOK, listenerVars, pipeVars
<1>4. ListenerTypeOK'
  BY DEF Inv, ListenerInv, Types, ListenerTypeOK, listenerVars, socketVars, loopVars,
         sendVars, stopVars
<1>5. Control'
  BY <1>1, <1>2
  DEF FsmNotify, Inv, ListenerInv, Control, NoBlockingRead, AwaitsWhatItRepeats,
      listenerVars, pipeVars, socketVars, loopVars, sendVars
<1>6. FsmTypeOK'
  BY DEF FsmNotify, AfterSend, Inv, FsmTypeOK, State, FsmPc
<1>7. NotifyMatchesOutgoing'
  BY <1>1, <1>2 DEF FsmNotify, NotifyMatchesOutgoing
<1> QED
  BY <1>3, <1>4, <1>5, <1>6, <1>7 DEF ListenerInv, Types

LEMMA FsmStep == Inv /\ Fsm => Inv'
<1> SUFFICES ASSUME Inv, Fsm PROVE Inv'
  OBVIOUS
<1>1. StdinTypeOK' /\ EnvTypeOK'
  BY DEF Inv, Fsm, stdinVars, envVars, StdinTypeOK, EnvTypeOK
<1>2. ListenerInv' /\ FsmTypeOK' /\ NotifyMatchesOutgoing'
  BY FsmReceives, FsmErrorStep, FsmPushStep, FsmNotifyStep DEF Fsm, FsmNext
<1> QED
  BY <1>1, <1>2 DEF Inv

-----------------------------------------------------------------------------
(* The Listener takes a byte and a mail together, or neither.              *)
LEMMA ListenerThreadStep == Inv /\ ListenerThread => Inv'
<1> SUFFICES ASSUME Inv, ListenerThread PROVE Inv'
  OBVIOUS
<1>1. ListenerInv'
  BY ListenerStep DEF Inv, ListenerThread
<1>2. FsmTypeOK' /\ StdinTypeOK' /\ EnvTypeOK'
  BY DEF Inv, ListenerThread, fsmVars, stdinVars, envVars, FsmTypeOK, StdinTypeOK, EnvTypeOK
<1>3. /\ NotifyMatchesOutgoing /\ fsmPc' = fsmPc /\ NoBlockingRead
      /\ outgoingMails \in Seq(MailRecord) /\ toSendPipe \in Nat
  BY DEF Inv, ListenerThread, fsmVars, ListenerInv, Control, Types, MailBoxTypeOK, PipesTypeOK
<1>4. CASE ListenToSendPipe \/ ListenToSendPipeBroken
  <2>1. outgoingMails # <<>> /\ TakeOutgoingMail
    BY <1>3, <1>4
    DEF ListenToSendPipe, ListenToSendPipeBroken, Handles, NoBlockingRead
  <2>2. Len(outgoingMails') = Len(outgoingMails) - 1 /\ toSendPipe' = toSendPipe - 1
    BY <1>3, <2>1, FrontType DEF TakeOutgoingMail
  <2>3. NotifyMatchesOutgoing'
    BY <1>3, <2>2 DEF NotifyMatchesOutgoing
  <2> QED
    BY <1>1, <1>2, <2>3 DEF Inv
<1>5. CASE UNCHANGED <<outgoingMails, toSendPipe>>
  BY <1>1, <1>2, <1>3, <1>5 DEF Inv, NotifyMatchesOutgoing
<1>6. \/ ListenToSendPipe \/ ListenToSendPipeBroken
      \/ UNCHANGED <<outgoingMails, toSendPipe>>
  <2>1. CASE LoopTop \/ LoopExit \/ EpollReady \/ EpollTimeout \/ EpollGiveUp
    BY <2>1 DEF LoopTop, LoopExit, EpollReady, EpollTimeout, EpollGiveUp, Exit1, mailboxVars
  <2>2. CASE \/ ListenStdin \/ ListenStdinLine \/ ListenStdinThrows
             \/ ListenSignal \/ ListenSignalThrows
    BY <2>2 DEF ListenStdin, ListenStdinLine, ListenStdinThrows, ListenSignal,
                ListenSignalThrows, Exit1, mailboxVars
  <2>3. CASE ReceiveUdp
    BY <2>3 DEF ReceiveUdp, ReceiveInvalid, ReceiveConfirm, ReceiveRepeated, ReceiveStray,
                ReceiveFresh, Exit1, mailboxVars
  <2>4. CASE ReceiveTcp
    BY <2>4 DEF ReceiveTcp, ReceiveText, ReceiveInvalidText, ReceiveEof, ReceiveReset,
                Exit1
  <2> QED
    BY <2>1, <2>2, <2>3, <2>4 DEF ListenerThread, ListenerNext
<1> QED
  BY <1>4, <1>5, <1>6

-----------------------------------------------------------------------------
(* The other steps leave the queues alone and add to what there is to      *)
(* read.                                                                   *)

LEMMA StdinLineStep ==
    ASSUME Inv, NEW line \in Line, StdinLine(line),
           UNCHANGED <<socketVars, loopVars, sendVars, stopVars, srvMsgId>>
    PROVE  ListenerInv' /\ StdinTypeOK'
<1>1. stdinPipe' \in Seq(Line) /\ stdinPipe' # <<>>
  BY DEF StdinLine, Inv, ListenerInv, Types, MailBoxTypeOK, PipesTypeOK
<1>2. Types'
  BY <1>1 DEF StdinLine, Inv, ListenerInv, Types, MailBoxTypeOK, PipesTypeOK,
              ListenerTypeOK, mailboxVars, socketVars, loopVars, sendVars, stopVars
<1>3. Control'
  BY <1>1 DEF StdinLine, Inv, ListenerInv, Control, NoBlockingRead, AwaitsWhatItRepeats,
              mailboxVars, socketVars, loopVars, sendVars
<1>4. StdinTypeOK'
  BY DEF StdinLine, NextTurn, Inv, StdinTypeOK
<1> QED
  BY <1>2, <1>3, <1>4 DEF ListenerInv

LEMMA StdinStepStep == Inv /\ StdinStep => Inv'
<1> SUFFICES ASSUME Inv, StdinStep PROVE Inv'
  OBVIOUS
<1>1. UNCHANGED <<mailboxVars, fsmVars, listenerVars, stdinKeep, mainPc, envVars>>
  BY DEF StdinStep, StdinTimeout, listenerVars
<1>2. ListenerInv'
  BY <1>1 DEF Inv, ListenerInv, Types, MailBoxTypeOK, PipesTypeOK, ListenerTypeOK, Control,
       NoBlockingRead, AwaitsWhatItRepeats, mailboxVars, listenerVars, pipeVars, socketVars,
       loopVars, sendVars, stopVars
<1>3. StdinTypeOK'
  BY <1>1 DEF StdinStep, StdinTimeout, NextTurn, Inv, StdinTypeOK
<1> QED
  BY <1>1, <1>2, <1>3
  DEF Inv, FsmTypeOK, EnvTypeOK, NotifyMatchesOutgoing, fsmVars, envVars, mailboxVars

LEMMA PrintRacesStep == Inv /\ PrintRaces => Inv'
<1> SUFFICES ASSUME Inv, PrintRaces PROVE Inv'
  OBVIOUS
<1>1. incomingMails' \in Seq(MailRecord) /\ process' \in ProcessState
  BY DEF PrintRaces, Inv, ListenerInv, Types, MailBoxTypeOK, ProcessState
<1>2. ListenerInv'
  BY <1>1, PopKeepsListenerInv DEF PrintRaces
<1> QED
  BY <1>2
  DEF PrintRaces, Inv, FsmTypeOK, StdinTypeOK, EnvTypeOK, NotifyMatchesOutgoing, fsmVars,
      stdinVars, envVars

LEMMA MainStep == Inv /\ Main => Inv'
<1> SUFFICES ASSUME Inv, Main PROVE Inv'
  OBVIOUS
<1>1. /\ UNCHANGED <<incomingMails, outgoingMails, toSendPipe, sequenceUDPNumber, nameOk>>
      /\ UNCHANGED <<fsmVars, pipeVars, socketVars, loopVars, sendVars, sentBye, srvMsgId>>
      /\ UNCHANGED <<stdinPc, envVars>>
  BY DEF Main, MainStopStdin, MainStopListener, MainExit, mailboxVars, listenerVars,
         stopVars, stdinVars
<1>2. /\ process' \in ProcessState /\ keepRunning' \in BOOLEAN
      /\ stdinKeep' \in BOOLEAN /\ mainPc' \in MainPc
  BY DEF Main, MainStopStdin, MainStopListener, MainExit, mailboxVars, listenerVars,
         stopVars, stdinVars, MainPc, ProcessState, Inv, ListenerInv, Types, MailBoxTypeOK,
         ListenerTypeOK, StdinTypeOK, EnvTypeOK
<1>3. Types'
  BY <1>1, <1>2 DEF Inv, ListenerInv, Types, MailBoxTypeOK, PipesTypeOK, ListenerTypeOK,
       pipeVars, socketVars, loopVars, sendVars
<1>4. Control'
  BY <1>1 DEF Inv, ListenerInv, Control, NoBlockingRead, AwaitsWhatItRepeats, pipeVars,
       socketVars, loopVars, sendVars
<1> QED
  BY <1>1, <1>2, <1>3, <1>4
  DEF Inv, ListenerInv, FsmTypeOK, StdinTypeOK, EnvTypeOK, NotifyMatchesOutgoing, fsmVars,
      envVars

LEMMA EnvironmentStep == Inv /\ Environment => Inv'
<1> SUFFICES ASSUME Inv, Environment PROVE Inv'
  OBVIOUS
<1>1. FsmTypeOK' /\ NotifyMatchesOutgoing' /\ UNCHANGED <<mailboxVars, fsmVars, mainPc>>
  BY DEF Environment, UserTypes, StdinLine, UserEof, StdinEof, Sigint, Arrive, PeerClose,
         Inv, FsmTypeOK, NotifyMatchesOutgoing, fsmVars, mailboxVars
<1>2. EnvTypeOK'
  BY BoundsAssumption
  DEF Environment, UserTypes, UserEof, Sigint, Arrive, PeerClose, envVars, Inv, EnvTypeOK
<1>3. CASE UserTypes
  <2>1. PICK line \in Lines : StdinLine(line)
    BY <1>3 DEF UserTypes
  <2>2. line \in Line
    BY LinesAssumption
  <2>3. ListenerInv' /\ StdinTypeOK'
    BY <1>3, <2>1, <2>2, StdinLineStep DEF UserTypes
  <2> QED
    BY <1>1, <1>2, <2>3 DEF Inv
<1>4. CASE UserEof \/ Sigint
  <2>1. /\ UNCHANGED <<mailboxVars, stdinPipe, socketVars, batch, chunk, armed,
                       toSendRegistered, sendVars, stopVars, srvMsgId>>
        /\ signalPipe' = signalPipe + 1
    BY <1>4 DEF UserEof, StdinEof, Sigint, loopVars
  <2>2. /\ overslept' \in BOOLEAN
        /\ \/ listenerPc' = listenerPc
           \/ listenerPc = "wait" /\ listenerPc' = "run"
    <3>1. overslept \in BOOLEAN /\ \A b \in Oversleeps : b \in BOOLEAN
      BY OversleepsAssumption DEF Inv, ListenerInv, Types, ListenerTypeOK
    <3>2. CASE UserEof
      BY <3>1, <3>2 DEF UserEof, loopVars
    <3>3. CASE Sigint
      BY <3>1, <3>3 DEF Sigint
    <3> QED
      BY <1>4, <3>2, <3>3
  <2>3. StdinTypeOK'
    BY <1>4 DEF UserEof, StdinEof, Sigint, Inv, StdinTypeOK
  <2>4. Types'
    BY <2>1, <2>2 DEF Inv, ListenerInv, Types, MailBoxTypeOK, PipesTypeOK, ListenerTypeOK,
         ListenerPc, mailboxVars, socketVars, sendVars, stopVars
  <2>5. Control'
    BY <2>1, <2>2 DEF Inv, ListenerInv, Types, MailBoxTypeOK, PipesTypeOK, Control,
         NoBlockingRead, AwaitsWhatItRepeats, mailboxVars, socketVars, sendVars
  <2> QED
    BY <1>1, <1>2, <2>3, <2>4, <2>5 DEF Inv, ListenerInv
<1>5. CASE Arrive \/ PeerClose
  <2>1. /\ UNCHANGED <<mailboxVars, pipeVars, outbound, loopVars, sendVars, stopVars,
                       srvMsgId, stdinVars>>
        /\ inbound' \in Seq(Datagram) /\ (inbound # <<>> => inbound' # <<>>)
    BY <1>5, DatagramsAssumption
    DEF Arrive, PeerClose, Inv, ListenerInv, Types, ListenerTypeOK
  <2>2. /\ peerClosed' \in BOOLEAN /\ (peerClosed => peerClosed')
        /\ peerClosed' => Protocol = "TCP"
    <3>1. CASE Arrive
      BY <3>1 DEF Arrive, Inv, ListenerInv, Types, ListenerTypeOK, Control
    <3>2. CASE PeerClose
      BY <3>2 DEF PeerClose
    <3> QED
      BY <1>5, <3>1, <3>2
  <2>3. Types' /\ StdinTypeOK'
    BY <2>1, <2>2 DEF Inv, ListenerInv, Types, MailBoxTypeOK, PipesTypeOK, ListenerTypeOK,
         StdinTypeOK, mailboxVars, pipeVars, loopVars, sendVars, stopVars, stdinVars
  <2>4. Control'
    BY <2>1, <2>2 DEF Inv, ListenerInv, Control, NoBlockingRead, AwaitsWhatItRepeats,
         mailboxVars, pipeVars, loopVars, sendVars
  <2> QED
    BY <1>1, <1>2, <2>3, <2>4 DEF Inv, ListenerInv
<1> QED
  BY <1>3, <1>4, <1>5 DEF Environment

-----------------------------------------------------------------------------
LEMMA InvStep == Inv /\ [Next]_vars => Inv'
<1> SUFFICES ASSUME Inv, [Next]_vars PROVE Inv'
  OBVIOUS
<1>1. CASE Next
  BY <1>1, FsmStep, ListenerThreadStep, PrintRacesStep, StdinStepStep, MainStep,
     EnvironmentStep DEF Next
<1>2. CASE UNCHANGED vars
  BY <1>2
  DEF vars, mailboxVars, fsmVars, listenerVars, stdinVars, envVars, pipeVars, socketVars,
      loopVars, sendVars, stopVars, Inv, ListenerInv, Types, MailBoxTypeOK, PipesTypeOK,
      ListenerTypeOK, Control, NoBlockingRead, AwaitsWhatItRepeats, FsmTypeOK, StdinTypeOK,
      EnvTypeOK, NotifyMatchesOutgoing
<1> QED
  BY <1>1, <1>2

(* Inv is inductive.                                                       *)
THEOREM SpecInv == Spec => []Inv
BY InitInv, InvStep, PTL DEF Spec

(* Every variable keeps its type.                                          *)
THEOREM TypesHold == Spec => []TypeOK
<1>1. Inv => TypeOK
  BY DEF Inv, ListenerInv, Types, EnvTypeOK, TypeOK
<1> QED
  BY <1>1, SpecInv, PTL

(* No read of runListener blocks, and getOutgoingMail never finds the      *)
(* queue empty, although epoll's answer may be old by then.                *)
THEOREM ReadsDoNotBlock == Spec => []NoBlockingRead
<1>1. Inv => NoBlockingRead
  BY DEF Inv, ListenerInv, Control
<1> QED
  BY <1>1, SpecInv, PTL

(* The bytes in the ToSendPipe and the mails in the queue agree but for    *)
(* the one that sendMail is at.                                            *)
THEOREM BytesMatchMails == Spec => []NotifyMatchesOutgoing
<1>1. Inv => NotifyMatchesOutgoing
  BY DEF Inv
<1> QED
  BY <1>1, SpecInv, PTL

(* The CONFIRM that the Listener waits for is that of the mail it repeats. *)
THEOREM ConfirmMatchesMail == Spec => []AwaitsWhatItRepeats
<1>1. Inv => AwaitsWhatItRepeats
  BY DEF Inv, ListenerInv, Control
<1> QED
  BY <1>1, SpecInv, PTL

-----------------------------------------------------------------------------
(* Only listenToSendPipe assigns confMail.                                 *)
LEMMA ConfMailStep ==
    ASSUME Inv, Next, confMail' # confMail
    PROVE  receivedConfirm
<1>1. ListenerNext
  BY DEF Next, Fsm, ListenerThread, PrintRaces, StdinStep, Main, MainStopStdin,
         MainStopListener, MainExit, Environment, UserTypes, UserEof, Sigint, Arrive, PeerClose, listenerVars,
         sendVars
<1>2. ListenToSendPipe
  <2>1. CASE LoopTop \/ LoopExit \/ EpollReady \/ EpollTimeout \/ EpollGiveUp
    BY <2>1 DEF LoopTop, LoopExit, EpollReady, EpollTimeout, EpollGiveUp, sendVars,
                listenerVars
  <2>2. CASE \/ ListenStdin \/ ListenStdinLine \/ ListenStdinThrows
             \/ ListenSignal \/ ListenSignalThrows \/ ListenToSendPipeBroken
    BY <2>2 DEF ListenStdin, ListenStdinLine, ListenStdinThrows, ListenSignal,
                ListenSignalThrows, ListenToSendPipeBroken, sendVars, listenerVars
  <2>3. CASE ReceiveUdp
    BY <2>3 DEF ReceiveUdp, ReceiveInvalid, ReceiveConfirm, ReceiveRepeated, ReceiveStray,
                ReceiveFresh, HandlesDatagram
  <2>4. CASE ReceiveTcp
    BY <2>4 DEF ReceiveTcp, ReceiveText, ReceiveInvalidText, ReceiveEof, ReceiveReset, HandlesText,
                sendVars
  <2> QED
    BY <1>1, <2>1, <2>2, <2>3, <2>4 DEF ListenerNext
<1> QED
  BY <1>2 DEF ListenToSendPipe, Handles, Inv, ListenerInv, Control, NoBlockingRead

(* A mail is replaced as the one to repeat only after its CONFIRM.         *)
THEOREM StopAndWait == Spec => OneUnconfirmed
<1>1. Inv /\ [Next]_vars => [confMail' # confMail => receivedConfirm]_listenerVars
  BY ConfMailStep DEF vars, listenerVars, sendVars
<1> QED
  BY <1>1, SpecInv, PTL DEF Spec, OneUnconfirmed

-----------------------------------------------------------------------------
(* How a conversation ends: BYE is the last thing the client says, and it  *)
(* exits with 0 only after saying it.                                      *)

(* Where the FSM is once a BYE, or an ERR, is in the outgoing queue.       *)
SaidBye ==
    \/ fsmPc = "notify" /\ mail.type = "BYE"
    \/ fsmPc = "wait" /\ state = "END"

SaidErr ==
    \/ fsmPc = "notify" /\ mail.type = "ERR"
    \/ state = "ERROR"

ByeIsLast ==
    \A i \in 1..Len(outgoingMails) :
        outgoingMails[i].type = "BYE" => i = Len(outgoingMails) /\ SaidBye

ErrThenBye ==
    \A i \in 1..Len(outgoingMails) :
        outgoingMails[i].type = "ERR" =>
            \/ i = Len(outgoingMails) /\ SaidErr
            \/ i + 1 = Len(outgoingMails) /\ outgoingMails[i + 1].type = "BYE"

(* The mail whose byte is to be written is the last of the queue.          *)
NotifiesLast ==
    fsmPc = "notify" =>
        /\ outgoingMails # <<>>
        /\ outgoingMails[Len(outgoingMails)].type = mail.type

(* From ERROR the FSM sends BYE; in END it does nothing.                   *)
ErrorAndEnd ==
    /\ state = "ERROR" =>
           fsmPc = "wait" \/ (fsmPc \in {"push", "notify"} /\ mail.type = "BYE")
    /\ state = "END" => fsmPc = "wait"

NothingAfterBye == sentBye => outgoingMails = <<>> /\ fsmPc = "wait" /\ state = "END"

Said == ByeIsLast /\ ErrThenBye /\ NotifiesLast /\ ErrorAndEnd /\ NothingAfterBye

(* The Listener leaves its loop only when BYE is out and confirmed.        *)
Left ==
    /\ listenerPc = "exited" => sentBye /\ receivedConfirm
    /\ sentBye => \E m \in outbound : m.type = "BYE"
    /\ process = "exit0" => listenerPc = "exited"

-----------------------------------------------------------------------------
(* Sequences.                                                              *)

LEMMA AppendElements ==
    ASSUME NEW S, NEW s \in Seq(S), NEW e \in S
    PROVE  /\ Append(s, e) \in Seq(S) /\ Len(Append(s, e)) = Len(s) + 1
           /\ \A i \in 1..Len(s) : Append(s, e)[i] = s[i]
           /\ Append(s, e)[Len(s) + 1] = e
OBVIOUS

LEMMA TailElements ==
    ASSUME NEW S, NEW s \in Seq(S), s # <<>>
    PROVE  /\ Len(Tail(s)) = Len(s) - 1 /\ Len(s) \in Nat /\ Len(s) > 0
           /\ \A i \in 1..Len(Tail(s)) : Tail(s)[i] = s[i + 1] /\ i + 1 \in 1..Len(s)
           /\ Head(s) = s[1]
OBVIOUS

-----------------------------------------------------------------------------
(* The FSM.                                                                *)

(* While it waits for a mail it has said neither ERR nor BYE.              *)
LEMMA NothingSaid ==
    ASSUME Inv, Said, WaitMail
    PROVE  /\ ~sentBye
           /\ \A i \in 1..Len(outgoingMails) : outgoingMails[i].type \notin {"ERR", "BYE"}
<1>1. fsmPc = "wait" /\ state \notin {"ERROR", "END"}
  BY DEF WaitMail, Chatting
<1>2. ~SaidBye /\ ~SaidErr
  BY <1>1 DEF SaidBye, SaidErr
<1>3. \A i \in 1..Len(outgoingMails) : outgoingMails[i].type # "BYE"
  BY <1>2 DEF Said, ByeIsLast
<1>4. ASSUME NEW i \in 1..Len(outgoingMails), outgoingMails[i].type = "ERR" PROVE FALSE
  <2>1. i + 1 = Len(outgoingMails) /\ outgoingMails[i + 1].type = "BYE"
    BY <1>2, <1>4 DEF Said, ErrThenBye
  <2>2. Len(outgoingMails) \in Nat
    BY DEF Inv, ListenerInv, Types, MailBoxTypeOK
  <2>3. i + 1 \in 1..Len(outgoingMails)
    BY <2>1, <2>2
  <2> QED
    BY <1>3, <2>1, <2>3
<1>5. ~sentBye
  BY <1>1 DEF Said, NothingAfterBye
<1> QED
  BY <1>3, <1>4, <1>5

LEMMA SaidReceives ==
    ASSUME Inv, Said, UNCHANGED sentBye,
           \/ FsmForward \/ FsmBye \/ (\E validName \in BOOLEAN : FsmErr(validName))
           \/ FsmSilent \/ FsmUndecodable
    PROVE  Said'
<1>1. WaitMail
  BY DEF FsmForward, FsmBye, FsmErr, FsmSilent, FsmUndecodable
<1>2. /\ outgoingMails' = outgoingMails /\ ~sentBye'
      /\ \A i \in 1..Len(outgoingMails') : outgoingMails'[i].type \notin {"ERR", "BYE"}
  BY <1>1, NothingSaid DEF FsmForward, FsmBye, FsmErr, FsmSilent, FsmUndecodable
<1>3. fsmPc' # "notify" /\ state' # "ERROR"
  BY <1>1 DEF WaitMail, Chatting, FsmForward, FsmBye, FsmErr, FsmSilent, FsmUndecodable,
              SilentState, fsmVars
<1>4. state' = "END" => fsmPc' = "wait"
  BY <1>1 DEF WaitMail, Chatting, FsmForward, FsmBye, FsmErr, FsmSilent, FsmUndecodable,
              fsmVars
<1> QED
  BY <1>2, <1>3, <1>4
  DEF Said, ByeIsLast, ErrThenBye, NotifiesLast, ErrorAndEnd, NothingAfterBye

LEMMA SaidError ==
    ASSUME Inv, Said, UNCHANGED sentBye, FsmError
    PROVE  Said'
<1>1. outgoingMails' = outgoingMails /\ state' = "ERROR" /\ fsmPc' = "push"
  BY DEF FsmError, mailboxVars
<1>2. mail'.type = "BYE"
  BY DEF FsmError, Of, Blank
<1>3. ~SaidBye /\ ~sentBye
  BY DEF FsmError, SaidBye, Said, NothingAfterBye
<1>4. ByeIsLast' /\ ErrThenBye'
  BY <1>1, <1>3 DEF Said, ByeIsLast, ErrThenBye, SaidErr
<1> QED
  BY <1>1, <1>2, <1>3, <1>4 DEF Said, NotifiesLast, ErrorAndEnd, NothingAfterBye

LEMMA SaidPush ==
    ASSUME Inv, Said, UNCHANGED sentBye, FsmPush
    PROVE  Said'
<1>1. fsmPc = "push" /\ fsmPc' = "notify" /\ state' = state /\ mail' = mail
  BY DEF FsmPush
<1>2. PICK m \in MailRecord : m.type = mail.type /\ outgoingMails' = Append(outgoingMails, m)
  <2>1. mail \in MailRecord /\ sequenceUDPNumber \in Int
    BY IdModulusAssumption DEF Inv, FsmTypeOK, ListenerInv, Types, MailBoxTypeOK
  <2>2. /\ [mail EXCEPT !.id = sequenceUDPNumber] \in MailRecord
        /\ [mail EXCEPT !.id = sequenceUDPNumber].type = mail.type
    BY <2>1 DEF MailRecord
  <2> QED
    BY <2>1, <2>2 DEF FsmPush, PushMail
<1>3. outgoingMails \in Seq(MailRecord) /\ Len(outgoingMails) \in Nat
  BY DEF Inv, ListenerInv, Types, MailBoxTypeOK
<1>4. /\ Len(outgoingMails') = Len(outgoingMails) + 1 /\ outgoingMails' # <<>>
      /\ \A i \in 1..Len(outgoingMails) : outgoingMails'[i] = outgoingMails[i]
      /\ outgoingMails'[Len(outgoingMails')].type = mail.type
  BY <1>2, <1>3, AppendElements
<1>5. \A i \in 1..Len(outgoingMails) : outgoingMails[i].type # "BYE"
  BY <1>1 DEF Said, ByeIsLast, SaidBye
<1>6. ByeIsLast'
  BY <1>1, <1>3, <1>4, <1>5 DEF ByeIsLast, SaidBye
<1>7. ErrThenBye'
  <2> SUFFICES ASSUME NEW i \in 1..Len(outgoingMails'), outgoingMails'[i].type = "ERR"
               PROVE  \/ i = Len(outgoingMails') /\ SaidErr'
                      \/ /\ i + 1 = Len(outgoingMails')
                         /\ outgoingMails'[i + 1].type = "BYE"
    BY DEF ErrThenBye
  <2>1. CASE i = Len(outgoingMails')
    BY <1>1, <1>4, <2>1 DEF SaidErr
  <2>2. CASE i # Len(outgoingMails')
    <3>1. i \in 1..Len(outgoingMails) /\ outgoingMails[i].type = "ERR"
      BY <1>3, <1>4, <2>2
    <3>2. ~(i + 1 = Len(outgoingMails) /\ outgoingMails[i + 1].type = "BYE")
      BY <1>3, <1>5, <3>1
    <3>3. i = Len(outgoingMails) /\ SaidErr
      BY <3>1, <3>2 DEF Said, ErrThenBye
    <3>4. mail.type = "BYE"
      BY <1>1, <3>3 DEF SaidErr, Said, ErrorAndEnd
    <3> QED
      BY <1>4, <3>3, <3>4
  <2> QED
    BY <2>1, <2>2
<1>8. NotifiesLast' /\ ErrorAndEnd' /\ NothingAfterBye'
  BY <1>1, <1>4 DEF Said, NotifiesLast, ErrorAndEnd, NothingAfterBye
<1> QED
  BY <1>6, <1>7, <1>8 DEF Said

LEMMA SaidNotify ==
    ASSUME Inv, Said, UNCHANGED sentBye, FsmNotify
    PROVE  Said'
<1>1. /\ fsmPc = "notify" /\ fsmPc' = "wait" /\ outgoingMails' = outgoingMails
      /\ state' = AfterSend(state, mail)
  BY DEF FsmNotify
<1>2. mail.type = "BYE" => state' = "END"
  BY <1>1 DEF AfterSend
<1>3. mail.type = "ERR" => state' = "ERROR"
  BY <1>1 DEF AfterSend
<1>4. ByeIsLast'
  BY <1>1, <1>2 DEF Said, ByeIsLast, SaidBye
<1>5. state = "ERROR" => mail.type = "BYE"
  BY <1>1 DEF Said, ErrorAndEnd
<1>6. outgoingMails[Len(outgoingMails)].type = mail.type
  BY <1>1 DEF Said, NotifiesLast
<1>7. ErrThenBye'
  BY <1>1, <1>3, <1>5, <1>6 DEF Said, ErrThenBye, SaidErr
<1> QED
  BY <1>1, <1>4, <1>7 DEF Said, NotifiesLast, ErrorAndEnd, NothingAfterBye

LEMMA SaidFsm ==
    ASSUME Inv, Said, Fsm
    PROVE  Said'
<1>1. UNCHANGED sentBye
  BY DEF Fsm, listenerVars, stopVars
<1>2. nameOk \in BOOLEAN
  BY DEF Inv, ListenerInv, Types, MailBoxTypeOK
<1>3. ValidNames \subseteq BOOLEAN
  BY <1>2 DEF ValidNames
<1> QED
  BY <1>1, <1>3, SaidReceives, SaidError, SaidPush, SaidNotify DEF Fsm, FsmNext

-----------------------------------------------------------------------------
(* The Listener and the rest.                                              *)

(* Only listenToSendPipe takes from the outgoing queue.                    *)
LEMMA QueueSteps ==
    ASSUME ListenerNext
    PROVE  \/ ListenToSendPipe \/ ListenToSendPipeBroken
           \/ UNCHANGED <<outgoingMails, sentBye>>
<1>1. CASE LoopTop \/ LoopExit \/ EpollReady \/ EpollTimeout \/ EpollGiveUp
  BY <1>1 DEF LoopTop, LoopExit, EpollReady, EpollTimeout, EpollGiveUp, Exit1, mailboxVars,
              stopVars, listenerVars
<1>2. CASE \/ ListenStdin \/ ListenStdinLine \/ ListenStdinThrows
           \/ ListenSignal \/ ListenSignalThrows
  BY <1>2 DEF ListenStdin, ListenStdinLine, ListenStdinThrows, ListenSignal,
              ListenSignalThrows, Exit1, mailboxVars, stopVars, listenerVars
<1>3. CASE ReceiveUdp
  BY <1>3 DEF ReceiveUdp, ReceiveInvalid, ReceiveConfirm, ReceiveRepeated, ReceiveStray,
              ReceiveFresh, HandlesDatagram, Exit1, mailboxVars, stopVars
<1>4. CASE ReceiveTcp
  BY <1>4 DEF ReceiveTcp, ReceiveText, ReceiveInvalidText, ReceiveEof, ReceiveReset, HandlesText,
              Exit1, stopVars
<1> QED
  BY <1>1, <1>2, <1>3, <1>4 DEF ListenerNext

(* What it takes is not the mail whose byte is still to be written, and    *)
(* when that is a BYE there is nothing behind it.                          *)
LEMMA SaidTake ==
    ASSUME Inv, Said, UNCHANGED fsmVars, ListenToSendPipe \/ ListenToSendPipeBroken
    PROVE  Said'
<1>1. /\ outgoingMails \in Seq(MailRecord) /\ toSendPipe \in Nat
      /\ NotifyMatchesOutgoing /\ NoBlockingRead
  BY DEF Inv, ListenerInv, Control, Types, MailBoxTypeOK, PipesTypeOK
<1>2. outgoingMails # <<>> /\ toSendPipe > 0 /\ outgoingMails' = Tail(outgoingMails)
  BY <1>1
  DEF ListenToSendPipe, ListenToSendPipeBroken, Handles, NoBlockingRead, TakeOutgoingMail
<1>3. /\ Len(outgoingMails') = Len(outgoingMails) - 1 /\ Len(outgoingMails) \in Nat
      /\ Len(outgoingMails) > 0 /\ Head(outgoingMails) = outgoingMails[1]
      /\ \A i \in 1..Len(outgoingMails') :
             outgoingMails'[i] = outgoingMails[i + 1] /\ i + 1 \in 1..Len(outgoingMails)
  BY <1>1, <1>2, TailElements
<1>4. fsmPc' = fsmPc /\ mail' = mail /\ state' = state
  BY DEF fsmVars
<1>5. ByeIsLast'
  BY <1>3, <1>4 DEF Said, ByeIsLast, SaidBye
<1>6. ErrThenBye'
  <2> SUFFICES ASSUME NEW i \in 1..Len(outgoingMails'), outgoingMails'[i].type = "ERR"
               PROVE  \/ i = Len(outgoingMails') /\ SaidErr'
                      \/ /\ i + 1 = Len(outgoingMails')
                         /\ outgoingMails'[i + 1].type = "BYE"
    BY DEF ErrThenBye
  <2>1. i + 1 \in 1..Len(outgoingMails) /\ outgoingMails[i + 1].type = "ERR"
    BY <1>3
  <2>2. CASE i + 1 = Len(outgoingMails) /\ SaidErr
    BY <1>3, <1>4, <2>2 DEF SaidErr
  <2>3. CASE (i + 1) + 1 = Len(outgoingMails) /\ outgoingMails[(i + 1) + 1].type = "BYE"
    <3>1. i + 1 = Len(outgoingMails') /\ i + 1 \in 1..Len(outgoingMails')
      BY <1>3, <2>3
    <3> QED
      BY <1>3, <2>3, <3>1
  <2> QED
    BY <2>1, <2>2, <2>3 DEF Said, ErrThenBye
<1>7. fsmPc = "notify" => Len(outgoingMails) > 1
  BY <1>1, <1>2 DEF NotifyMatchesOutgoing
<1>8. NotifiesLast'
  <2> SUFFICES ASSUME fsmPc = "notify"
               PROVE  /\ outgoingMails' # <<>>
                      /\ outgoingMails'[Len(outgoingMails')].type = mail.type
    BY <1>4 DEF NotifiesLast
  <2>1. Len(outgoingMails') \in 1..Len(outgoingMails')
    BY <1>3, <1>7
  <2>2. outgoingMails'[Len(outgoingMails')] = outgoingMails[Len(outgoingMails)]
    BY <1>3, <2>1
  <2>3. outgoingMails' # <<>>
    BY <2>1
  <2> QED
    BY <2>2, <2>3 DEF Said, NotifiesLast
<1>9. NothingAfterBye'
  <2> SUFFICES ASSUME sentBye'
               PROVE  outgoingMails' = <<>> /\ fsmPc = "wait" /\ state = "END"
    BY <1>4 DEF NothingAfterBye
  <2>1. ~sentBye
    BY <1>2 DEF Said, NothingAfterBye
  <2>2. outgoingMails[1].type = "BYE"
    BY <1>3, <2>1 DEF ListenToSendPipe, ListenToSendPipeBroken, stopVars
  <2>3. Len(outgoingMails) = 1 /\ SaidBye
    BY <1>3, <2>2 DEF Said, ByeIsLast
  <2>4. fsmPc = "wait" /\ state = "END"
    BY <1>7, <2>3 DEF SaidBye
  <2>5. outgoingMails' = <<>>
    BY <1>1, <1>2, <2>3
  <2> QED
    BY <2>4, <2>5
<1> QED
  BY <1>4, <1>5, <1>6, <1>8, <1>9 DEF Said, ErrorAndEnd

LEMMA SaidUnchanged ==
    ASSUME Said, UNCHANGED <<outgoingMails, sentBye, fsmVars>>
    PROVE  Said'
BY DEF Said, ByeIsLast, SaidBye, ErrThenBye, SaidErr, NotifiesLast, ErrorAndEnd,
       NothingAfterBye, fsmVars

LEMMA SaidStep == Inv /\ Said /\ [Next]_vars => Said'
<1> SUFFICES ASSUME Inv, Said, [Next]_vars PROVE Said'
  OBVIOUS
<1>1. CASE Fsm
  BY <1>1, SaidFsm
<1>2. CASE ListenerThread
  BY <1>2, QueueSteps, SaidTake, SaidUnchanged DEF ListenerThread
<1>3. CASE PrintRaces \/ StdinStep \/ Main
  BY <1>3, SaidUnchanged
  DEF PrintRaces, StdinStep, StdinTimeout, Main, MainStopStdin, MainStopListener, MainExit,
      mailboxVars, listenerVars, stopVars
<1>4. CASE Environment
  BY <1>4, SaidUnchanged
  DEF Environment, UserTypes, StdinLine, UserEof, StdinEof, Sigint, Arrive, PeerClose,
      mailboxVars, stopVars
<1>5. CASE UNCHANGED vars
  BY <1>5, SaidUnchanged DEF vars, mailboxVars, listenerVars, stopVars
<1> QED
  BY <1>1, <1>2, <1>3, <1>4, <1>5 DEF Next

-----------------------------------------------------------------------------
(* Leaving.                                                                *)

(* A step of the Listener is one of a thread that runs; it ends the thread *)
(* only as LoopExit, and sets sentBye only with the BYE it sends.          *)
LEMMA ListenerLeaves ==
    ASSUME ListenerNext
    PROVE  /\ process = "running" /\ listenerPc # "exited" /\ process' # "exit0"
           /\ listenerPc' = "exited" => LoopExit
           /\ outbound \subseteq outbound'
           /\ sentBye' => sentBye \/ \E m \in outbound' : m.type = "BYE"
<1>1. CASE LoopTop \/ LoopExit
  BY <1>1 DEF LoopTop, LoopExit, AtLoopTop, mailboxVars, socketVars, stopVars
<1>2. CASE EpollReady \/ EpollTimeout \/ EpollGiveUp
  BY <1>2 DEF EpollReady, EpollTimeout, EpollGiveUp, Waiting, Exit1, mailboxVars,
              listenerVars, loopVars, socketVars, stopVars
<1>3. CASE ListenStdin \/ ListenSignal \/ ListenSignalThrows
  BY <1>3 DEF ListenStdin, ListenSignal, ListenSignalThrows, Handles, Exit1, mailboxVars,
              socketVars, stopVars
<1>4. CASE ListenStdinLine \/ ListenStdinThrows
  BY <1>4 DEF ListenStdinLine, ListenStdinThrows, AtLine, NextLine, Exit1, listenerVars,
              loopVars, socketVars, stopVars
<1>5. CASE ListenToSendPipe \/ ListenToSendPipeBroken
  <2>1. /\ process = "running" /\ listenerPc = "run" /\ listenerPc' = listenerPc
        /\ process' \in {process, "killed"} /\ outbound \subseteq outbound'
    BY <1>5 DEF ListenToSendPipe, ListenToSendPipeBroken, Handles, socketVars
  <2>2. ASSUME sentBye', ~sentBye PROVE \E m \in outbound' : m.type = "BYE"
    <3>1. Head(outgoingMails).type = "BYE" /\ Head(outgoingMails) \in outbound'
      BY <1>5, <2>2 DEF ListenToSendPipe, ListenToSendPipeBroken, stopVars
    <3> QED
      BY <3>1
  <2> QED
    BY <2>1, <2>2
<1>6. CASE ReceiveUdp
  BY <1>6 DEF ReceiveUdp, ReceiveInvalid, ReceiveConfirm, ReceiveRepeated, ReceiveStray,
              ReceiveFresh, HandlesDatagram, Handles, Exit1, mailboxVars, stopVars
<1>7. CASE ReceiveTcp
  BY <1>7 DEF ReceiveTcp, ReceiveText, ReceiveInvalidText, ReceiveEof, ReceiveReset, HandlesText,
              Handles, Exit1, socketVars, stopVars
<1> QED
  BY <1>1, <1>2, <1>3, <1>4, <1>5, <1>6, <1>7 DEF ListenerNext

LEMMA LeftStep == Inv /\ Left /\ [Next]_vars => Left'
<1> SUFFICES ASSUME Inv, Left, [Next]_vars PROVE Left'
  OBVIOUS
<1>1. CASE Fsm
  <2>1. UNCHANGED <<listenerPc, sentBye, receivedConfirm, outbound>>
    BY <1>1 DEF Fsm, listenerVars, loopVars, stopVars, sendVars, socketVars
  <2>2. process' # "exit0" \/ process' = process
    BY <1>1 DEF Fsm, FsmNext, FsmForward, FsmBye, FsmErr, FsmSilent, FsmUndecodable,
                FsmError, FsmPush, FsmNotify, PushMail, NotifyListener, mailboxVars
  <2> QED
    BY <2>1, <2>2 DEF Left
<1>2. CASE ListenerThread
  <2>1. ListenerNext
    BY <1>2 DEF ListenerThread
  <2>2. listenerPc' = "exited" => sentBye' /\ receivedConfirm'
    BY <2>1, ListenerLeaves
    DEF LoopExit, LoopCondition, stopVars, sendVars
  <2>3. outbound \subseteq outbound'
    BY <2>1, ListenerLeaves
  <2> QED
    BY <2>1, <2>2, <2>3, ListenerLeaves DEF Left
<1>3. CASE PrintRaces \/ Main
  BY <1>3 DEF PrintRaces, Main, MainStopStdin, MainStopListener, MainExit, mailboxVars, listenerVars,
              loopVars, stopVars, sendVars, socketVars, Left
<1>4. CASE StdinStep \/ Environment
  <2>1. UNCHANGED <<sentBye, receivedConfirm, outbound, process>>
    BY <1>4
    DEF StdinStep, StdinTimeout, Environment, UserTypes, StdinLine, UserEof, StdinEof,
        Sigint, Arrive, PeerClose, mailboxVars, stopVars, sendVars, socketVars
  <2>2. \/ listenerPc' = listenerPc
        \/ listenerPc' # "exited" /\ process = "running"
    BY <1>4
    DEF StdinStep, StdinTimeout, Environment, UserTypes, StdinLine, UserEof, StdinEof,
        Sigint, Arrive, PeerClose, loopVars
  <2> QED
    BY <2>1, <2>2 DEF Left
<1>5. CASE UNCHANGED vars
  BY <1>5 DEF vars, mailboxVars, listenerVars, loopVars, stopVars, sendVars, socketVars, Left
<1> QED
  BY <1>1, <1>2, <1>3, <1>4, <1>5 DEF Next

-----------------------------------------------------------------------------
LEMMA InitSaid == Init => Said /\ Left
BY DEF Init, MailBoxInit, FsmInit, ListenerInit, Said, ByeIsLast, ErrThenBye, NotifiesLast,
       ErrorAndEnd, NothingAfterBye, Left

LEMMA SpecSaid == Spec => [](Inv /\ Said /\ Left)
BY InitInv, InitSaid, InvStep, SaidStep, LeftStep, PTL DEF Spec

LEMMA SaidCloses ==
    ASSUME Inv, Said
    PROVE  ClosingSequence
<1>1. outgoingMails \in Seq(MailRecord) /\ Len(outgoingMails) \in Nat /\ mail \in MailRecord
  BY DEF Inv, ListenerInv, Types, MailBoxTypeOK, FsmTypeOK
<1>2. CASE fsmPc # "push"
  <2>1. Outgoing = outgoingMails
    BY <1>1, <1>2 DEF Outgoing
  <2>2. ASSUME NEW i \in 1..Len(outgoingMails), NEW j \in 1..(i - 1)
        PROVE  /\ outgoingMails[j].type # "BYE"
               /\ outgoingMails[j].type = "ERR" => outgoingMails[i].type = "BYE"
    <3>1. j \in 1..Len(outgoingMails) /\ j # Len(outgoingMails)
          /\ (j + 1 = Len(outgoingMails) => i = j + 1)
      BY <1>1
    <3> QED
      BY <3>1 DEF Said, ByeIsLast, ErrThenBye
  <2>3. sentBye => outgoingMails = <<>>
    BY DEF Said, NothingAfterBye
  <2> QED
    BY <2>1, <2>2, <2>3 DEF ClosingSequence
<1>3. CASE fsmPc = "push"
  <2>1. Outgoing = Append(outgoingMails, mail)
    BY <1>1, <1>3 DEF Outgoing
  <2>2. /\ Len(Outgoing) = Len(outgoingMails) + 1 /\ Outgoing[Len(outgoingMails) + 1] = mail
        /\ \A i \in 1..Len(outgoingMails) : Outgoing[i] = outgoingMails[i]
    BY <1>1, <2>1, AppendElements
  <2>3. \A i \in 1..Len(outgoingMails) : outgoingMails[i].type # "BYE"
    BY <1>3 DEF Said, ByeIsLast, SaidBye
  <2>4. ASSUME NEW i \in 1..Len(Outgoing), NEW j \in 1..(i - 1)
        PROVE  /\ Outgoing[j].type # "BYE"
               /\ Outgoing[j].type = "ERR" => Outgoing[i].type = "BYE"
    <3>1. j \in 1..Len(outgoingMails) /\ Outgoing[j] = outgoingMails[j]
      BY <1>1, <2>2
    <3>2. Outgoing[j].type # "BYE"
      BY <2>3, <3>1
    <3>3. ASSUME outgoingMails[j].type = "ERR" PROVE Outgoing[i].type = "BYE"
      <4>1. ~(j + 1 = Len(outgoingMails) /\ outgoingMails[j + 1].type = "BYE")
        BY <1>1, <2>3, <3>1
      <4>2. j = Len(outgoingMails) /\ SaidErr
        BY <3>1, <3>3, <4>1 DEF Said, ErrThenBye
      <4>3. i = Len(outgoingMails) + 1
        BY <1>1, <2>2, <4>2
      <4>4. mail.type = "BYE"
        BY <1>3, <4>2 DEF SaidErr, Said, ErrorAndEnd
      <4> QED
        BY <2>2, <4>3, <4>4
    <3> QED
      BY <3>1, <3>2, <3>3
  <2>5. ~sentBye
    BY <1>3 DEF Said, NothingAfterBye
  <2> QED
    BY <2>4, <2>5 DEF ClosingSequence
<1> QED
  BY <1>2, <1>3

(* However the steps of the FSM and of listenToSendPipe interleave: behind *)
(* a BYE the FSM queues nothing, behind an ERR only BYE, and when BYE is   *)
(* sent there is nothing left.                                             *)
THEOREM ClosingHolds == Spec => []ClosingSequence
BY SpecSaid, SaidCloses, PTL

(* runMain returns 0 only after BYE was sent and, over UDP, confirmed, and *)
(* nothing is left in the queue or the ToSendPipe.                         *)
THEOREM CleanExitHolds == Spec => []CleanExit
<1>1. Inv /\ Said /\ Left => CleanExit
  <2> SUFFICES ASSUME Inv, Said, Left, process = "exit0"
               PROVE  /\ sentBye /\ receivedConfirm
                      /\ Outgoing = <<>> /\ toSendPipe = 0
                      /\ \E m \in outbound : m.type = "BYE"
    BY DEF CleanExit
  <2>1. sentBye /\ receivedConfirm /\ \E m \in outbound : m.type = "BYE"
    BY DEF Left
  <2>2. outgoingMails = <<>> /\ fsmPc = "wait"
    BY <2>1 DEF Said, NothingAfterBye
  <2>3. toSendPipe = 0
    BY <2>2 DEF Inv, NotifyMatchesOutgoing, ListenerInv, Types, MailBoxTypeOK, PipesTypeOK
  <2>4. Outgoing = <<>>
    BY <2>2 DEF Outgoing
  <2> QED
    BY <2>1, <2>3, <2>4
<1> QED
  BY <1>1, SpecSaid, PTL

-----------------------------------------------------------------------------
(* What is said, and in which order: the server hears AUTH before any      *)
(* chat, and over UDP the FSM is given the server's mails in their order.  *)

Chats(m) == m.type \in {"JOIN", "MSG"}

AuthSent == \E m \in outbound : m.type = "AUTH"

(* A timeout repeats what has been on the wire before.                     *)
RepeatsWhatIsSent == confMail = Blank \/ confMail \in outbound

(* The FSM makes no CONFIRM.                                               *)
NoOwnConfirm ==
    /\ \A i \in 1..Len(outgoingMails) : outgoingMails[i].type # "CONFIRM"
    /\ fsmPc = "push" => mail.type # "CONFIRM"

(* Beyond START the AUTH is on the wire, or in front of all chat in the    *)
(* queue.                                                                  *)
AuthQueued == \E i \in 1..Len(outgoingMails) : outgoingMails[i].type = "AUTH"

AuthInFront(i) == \E j \in 1..(i - 1) : outgoingMails[j].type = "AUTH"

AuthFirst ==
    process = "running" =>
        /\ state \in {"AUTH", "OPEN"} => AuthSent \/ AuthQueued
        /\ \A i \in 1..Len(outgoingMails) :
               Chats(outgoingMails[i]) => AuthSent \/ AuthInFront(i)

ChatIsOpen == fsmPc \in {"push", "notify"} /\ Chats(mail) => state = "OPEN"

Spoken == RepeatsWhatIsSent /\ NoOwnConfirm /\ AuthFirst /\ ChatIsOpen /\ ChatAfterAuth

(* What is in the queue of the FSM is older than what it will be given.    *)
Listened ==
    Protocol = "UDP" =>
        /\ srvMsgId >= NoId
        /\ \A i \in 1..Len(incomingMails) : incomingMails[i].id <= srvMsgId
        /\ ServerMailsInOrder

-----------------------------------------------------------------------------
(* The Listener.                                                           *)

(* Only four of its steps change what is said.                             *)
LEMMA SpeakingSteps ==
    ASSUME ListenerNext
    PROVE  \/ ListenToSendPipe \/ ListenToSendPipeBroken \/ EpollTimeout
           \/ ReceiveRepeated \/ ReceiveFresh
           \/ UNCHANGED <<outgoingMails, outbound, confMail, srvMsgId>>
<1>1. CASE LoopTop \/ LoopExit \/ EpollReady \/ EpollGiveUp
  BY <1>1 DEF LoopTop, LoopExit, EpollReady, EpollGiveUp, Exit1, mailboxVars, socketVars,
              sendVars, listenerVars
<1>2. CASE \/ ListenStdin \/ ListenStdinLine \/ ListenStdinThrows
           \/ ListenSignal \/ ListenSignalThrows
  BY <1>2 DEF ListenStdin, ListenStdinLine, ListenStdinThrows, ListenSignal,
              ListenSignalThrows, Exit1, mailboxVars, socketVars, sendVars, listenerVars
<1>3. CASE ReceiveInvalid \/ ReceiveConfirm \/ ReceiveStray
  BY <1>3 DEF ReceiveInvalid, ReceiveConfirm, ReceiveStray, HandlesDatagram, Exit1, mailboxVars
<1>4. CASE ReceiveTcp
  BY <1>4 DEF ReceiveTcp, ReceiveText, ReceiveInvalidText, ReceiveEof, ReceiveReset,
              HandlesText, Exit1, sendVars, socketVars
<1> QED
  BY <1>1, <1>2, <1>3, <1>4 DEF ListenerNext, ReceiveUdp

(* CONFIRMs, and repetitions, are no chat.                                 *)
LEMMA SpokenConfirms ==
    ASSUME Spoken, UNCHANGED <<outgoingMails, fsmVars>>, process = "running",
           NEW S, \A m \in S : m \in outbound \/ m.type \in {"CONFIRM", "UNKNOWN"},
           outbound' = outbound \cup S, confMail' = confMail
    PROVE  Spoken'
<1>1. AuthSent => AuthSent'
  BY DEF AuthSent
<1>2. AuthFirst'
  BY <1>1 DEF Spoken, AuthFirst, AuthQueued, AuthInFront, fsmVars
<1>3. ChatAfterAuth'
  BY <1>1 DEF Spoken, ChatAfterAuth, AuthSent
<1> QED
  BY <1>2, <1>3 DEF Spoken, RepeatsWhatIsSent, NoOwnConfirm, ChatIsOpen, fsmVars

LEMMA SpokenReceives ==
    ASSUME Spoken, UNCHANGED fsmVars, process = "running", ReceiveRepeated \/ ReceiveFresh
    PROVE  Spoken'
<1>1. \A id : ConfirmFor(id).type = "CONFIRM"
  BY DEF ConfirmFor, Of, Blank
<1>2. UNCHANGED <<outgoingMails, confMail>>
  BY DEF ReceiveRepeated, ReceiveFresh, HandlesDatagram, mailboxVars
<1>3. \/ outbound' = outbound \cup {}
      \/ outbound' = outbound \cup {ConfirmFor(GetMessageID(Mail1))}
  BY DEF ReceiveRepeated, ReceiveFresh
<1> QED
  BY <1>1, <1>2, <1>3, SpokenConfirms

LEMMA SpokenTimeout ==
    ASSUME Spoken, UNCHANGED fsmVars, process = "running", EpollTimeout
    PROVE  Spoken'
<1>1. Blank.type = "UNKNOWN"
  BY DEF Blank
<1>2. \A m \in {confMail} : m \in outbound \/ m.type \in {"CONFIRM", "UNKNOWN"}
  BY <1>1 DEF Spoken, RepeatsWhatIsSent
<1>3. /\ UNCHANGED <<outgoingMails, confMail>>
      /\ outbound' = outbound \cup {confMail}
  BY DEF EpollTimeout, mailboxVars
<1> QED
  BY <1>2, <1>3, SpokenConfirms

(* The front of the queue goes out: chat only with AUTH before it.         *)
LEMMA SpokenSend ==
    ASSUME Inv, Spoken, UNCHANGED fsmVars, ListenToSendPipe
    PROVE  Spoken'
<1> DEFINE m == Head(outgoingMails)
<1>1. /\ outgoingMails \in Seq(MailRecord) /\ outgoingMails # <<>>
      /\ outgoingMails' = Tail(outgoingMails) /\ process = "running"
  BY DEF Inv, ListenerInv, Control, Types, MailBoxTypeOK, NoBlockingRead, ListenToSendPipe,
         Handles, TakeOutgoingMail
<1>2. /\ Len(outgoingMails') = Len(outgoingMails) - 1 /\ Len(outgoingMails) \in Nat
      /\ Len(outgoingMails) > 0 /\ m = outgoingMails[1]
      /\ \A i \in 1..Len(outgoingMails') :
             outgoingMails'[i] = outgoingMails[i + 1] /\ i + 1 \in 1..Len(outgoingMails)
  BY <1>1, TailElements
<1>3. outbound' = outbound \cup {m} /\ confMail' \in {confMail, m}
  BY DEF ListenToSendPipe, AwaitConfirm
<1>4. AuthSent \/ m.type = "AUTH" => AuthSent'
  BY <1>3 DEF AuthSent
<1>5. Chats(m) => AuthSent
  BY <1>1, <1>2 DEF Spoken, AuthFirst, AuthInFront
<1>6. RepeatsWhatIsSent' /\ NoOwnConfirm' /\ ChatIsOpen'
  BY <1>2, <1>3 DEF Spoken, RepeatsWhatIsSent, NoOwnConfirm, ChatIsOpen, fsmVars
<1>7. ChatAfterAuth'
  BY <1>3, <1>4, <1>5 DEF Spoken, ChatAfterAuth, AuthSent, Chats
<1>8. ASSUME NEW i \in 1..Len(outgoingMails), outgoingMails[i].type = "AUTH", ~AuthSent'
      PROVE  i - 1 \in 1..Len(outgoingMails') /\ outgoingMails'[i - 1].type = "AUTH"
  <2>1. i # 1
    BY <1>2, <1>4, <1>8
  <2>2. i - 1 \in 1..Len(outgoingMails') /\ (i - 1) + 1 = i
    BY <1>2, <2>1
  <2> QED
    BY <1>2, <1>8, <2>2
<1>9. AuthQueued => AuthSent' \/ AuthQueued'
  BY <1>8 DEF AuthQueued
<1>10. ASSUME NEW i \in 1..Len(outgoingMails'), Chats(outgoingMails'[i])
       PROVE  AuthSent' \/ AuthInFront(i)'
  <2>1. i + 1 \in 1..Len(outgoingMails) /\ Chats(outgoingMails[i + 1])
    BY <1>2, <1>10
  <2>2. CASE AuthSent
    BY <1>4, <2>2
  <2>3. CASE \E j \in 1..((i + 1) - 1) : outgoingMails[j].type = "AUTH"
    <3>1. PICK j \in 1..((i + 1) - 1) : outgoingMails[j].type = "AUTH"
      BY <2>3
    <3>2. j \in 1..Len(outgoingMails) /\ j - 1 < i
      BY <1>2, <3>1
    <3> QED
      BY <1>8, <3>1, <3>2 DEF AuthInFront
  <2> QED
    BY <1>1, <2>1, <2>2, <2>3 DEF Spoken, AuthFirst, AuthInFront
<1>11. AuthFirst'
  BY <1>1, <1>4, <1>9, <1>10 DEF Spoken, AuthFirst, fsmVars
<1> QED
  BY <1>6, <1>7, <1>11 DEF Spoken

(* A broken connection ends the process.                                   *)
LEMMA SpokenBroken ==
    ASSUME Inv, Spoken, UNCHANGED fsmVars, ListenToSendPipeBroken
    PROVE  Spoken'
<1>1. /\ outgoingMails \in Seq(MailRecord) /\ outgoingMails # <<>>
      /\ outgoingMails' = Tail(outgoingMails) /\ process' = "killed"
  BY DEF Inv, ListenerInv, Control, Types, MailBoxTypeOK, NoBlockingRead,
         ListenToSendPipeBroken, Handles, TakeOutgoingMail
<1>2. \A i \in 1..Len(outgoingMails') :
          outgoingMails'[i] = outgoingMails[i + 1] /\ i + 1 \in 1..Len(outgoingMails)
  BY <1>1, TailElements
<1>3. outbound' = outbound /\ confMail' = confMail
  BY DEF ListenToSendPipeBroken, socketVars, sendVars
<1> QED
  BY <1>1, <1>2, <1>3
  DEF Spoken, RepeatsWhatIsSent, NoOwnConfirm, AuthFirst, ChatIsOpen, ChatAfterAuth, fsmVars

LEMMA SpokenUnchanged ==
    ASSUME Spoken, UNCHANGED <<outgoingMails, outbound, confMail, fsmVars>>,
           process' = "running" => process = "running"
    PROVE  Spoken'
BY DEF Spoken, RepeatsWhatIsSent, NoOwnConfirm, AuthFirst, AuthSent, AuthQueued, AuthInFront,
       ChatIsOpen, ChatAfterAuth, fsmVars

LEMMA SpokenListener ==
    ASSUME Inv, Spoken, ListenerThread
    PROVE  Spoken'
<1>1. ListenerNext /\ UNCHANGED fsmVars
  BY DEF ListenerThread
<1>2. process = "running"
  BY <1>1, ListenerLeaves
<1> QED
  BY <1>1, <1>2, SpeakingSteps, SpokenSend, SpokenBroken, SpokenTimeout, SpokenReceives,
     SpokenUnchanged

-----------------------------------------------------------------------------
(* The FSM.                                                                *)
LEMMA SpokenWaits ==
    ASSUME Spoken, UNCHANGED <<outbound, confMail>>,
           \/ FsmForward \/ FsmBye \/ (\E validName \in BOOLEAN : FsmErr(validName))
           \/ FsmSilent \/ FsmUndecodable \/ FsmError
    PROVE  Spoken'
<1>1. outgoingMails' = outgoingMails /\ process = "running"
  BY DEF FsmForward, FsmBye, FsmErr, FsmSilent, FsmUndecodable, FsmError, WaitMail, mailboxVars
<1>2. state' \in {"AUTH", "OPEN"} => state \in {"AUTH", "OPEN"}
  BY DEF FsmForward, FsmBye, FsmErr, FsmSilent, FsmUndecodable, FsmError, SilentState, fsmVars
<1>3. fsmPc' = "push" =>
          /\ state' = state
          /\ Chats(mail') => state = "OPEN"
          /\ mail'.type # "CONFIRM"
  <2>1. Of("BYE").type = "BYE" /\ Of("ERR").type = "ERR"
    BY DEF Of, Blank
  <2>2. CASE FsmForward
    BY <2>2 DEF FsmForward, Forwards, Chats
  <2>3. CASE FsmBye \/ FsmError \/ \E validName \in BOOLEAN : FsmErr(validName)
    BY <2>1, <2>3 DEF FsmBye, FsmError, FsmErr, Chats
  <2>4. CASE FsmSilent \/ FsmUndecodable
    BY <2>4 DEF FsmSilent, FsmUndecodable, WaitMail, fsmVars
  <2> QED
    BY <2>2, <2>3, <2>4
<1>4. fsmPc' # "notify"
  BY DEF FsmForward, FsmBye, FsmErr, FsmSilent, FsmUndecodable, FsmError, WaitMail, fsmVars
<1>5. AuthFirst'
  BY <1>1, <1>2 DEF Spoken, AuthFirst, AuthSent, AuthQueued, AuthInFront
<1> QED
  BY <1>1, <1>3, <1>4, <1>5
  DEF Spoken, RepeatsWhatIsSent, NoOwnConfirm, ChatIsOpen, ChatAfterAuth

LEMMA SpokenPush ==
    ASSUME Inv, Spoken, UNCHANGED <<outbound, confMail>>, FsmPush
    PROVE  Spoken'
<1>1. /\ fsmPc = "push" /\ fsmPc' = "notify" /\ state' = state /\ mail' = mail
      /\ process = "running"
  BY DEF FsmPush
<1>2. PICK m \in MailRecord : m.type = mail.type /\ outgoingMails' = Append(outgoingMails, m)
  <2>1. mail \in MailRecord /\ sequenceUDPNumber \in Int
    BY IdModulusAssumption DEF Inv, FsmTypeOK, ListenerInv, Types, MailBoxTypeOK
  <2>2. /\ [mail EXCEPT !.id = sequenceUDPNumber] \in MailRecord
        /\ [mail EXCEPT !.id = sequenceUDPNumber].type = mail.type
    BY <2>1 DEF MailRecord
  <2> QED
    BY <2>1, <2>2 DEF FsmPush, PushMail
<1>3. outgoingMails \in Seq(MailRecord) /\ Len(outgoingMails) \in Nat
  BY DEF Inv, ListenerInv, Types, MailBoxTypeOK
<1>4. /\ Len(outgoingMails') = Len(outgoingMails) + 1
      /\ \A i \in 1..Len(outgoingMails) : outgoingMails'[i] = outgoingMails[i]
      /\ outgoingMails'[Len(outgoingMails) + 1] = m
  BY <1>2, <1>3, AppendElements
<1>5. AuthSent' <=> AuthSent
  BY DEF AuthSent
<1>6. AuthQueued => /\ AuthQueued'
                    /\ \E j \in 1..Len(outgoingMails) : outgoingMails'[j].type = "AUTH"
  BY <1>3, <1>4 DEF AuthQueued
<1>7. ASSUME NEW i \in 1..Len(outgoingMails'), Chats(outgoingMails'[i])
      PROVE  AuthSent' \/ AuthInFront(i)'
  <2>1. CASE i = Len(outgoingMails) + 1
    <3>1. state = "OPEN"
      BY <1>1, <1>2, <1>4, <1>7, <2>1 DEF Chats, Spoken, ChatIsOpen
    <3>2. AuthSent \/ AuthQueued
      BY <1>1, <3>1 DEF Spoken, AuthFirst
    <3>3. i - 1 = Len(outgoingMails)
      BY <1>3, <2>1
    <3> QED
      BY <1>5, <1>6, <3>2, <3>3 DEF AuthInFront
  <2>2. CASE i # Len(outgoingMails) + 1
    <3>1. i \in 1..Len(outgoingMails) /\ outgoingMails'[i] = outgoingMails[i]
      BY <1>3, <1>4, <2>2
    <3>2. AuthSent \/ AuthInFront(i)
      BY <1>1, <1>7, <3>1 DEF Spoken, AuthFirst
    <3>3. \A j \in 1..(i - 1) : outgoingMails'[j] = outgoingMails[j]
      BY <1>3, <1>4, <3>1
    <3> QED
      BY <1>5, <3>2, <3>3 DEF AuthInFront
  <2> QED
    BY <2>1, <2>2
<1>8. AuthFirst'
  BY <1>1, <1>5, <1>6, <1>7 DEF Spoken, AuthFirst
<1>9. NoOwnConfirm'
  BY <1>1, <1>2, <1>3, <1>4 DEF Spoken, NoOwnConfirm
<1> QED
  BY <1>1, <1>8, <1>9 DEF Spoken, RepeatsWhatIsSent, ChatIsOpen, ChatAfterAuth

(* The AUTH whose byte is written is in the queue.                         *)
LEMMA SpokenNotify ==
    ASSUME Inv, Said, Spoken, UNCHANGED <<outbound, confMail>>, FsmNotify
    PROVE  Spoken'
<1>1. /\ fsmPc = "notify" /\ fsmPc' = "wait" /\ outgoingMails' = outgoingMails
      /\ state' = AfterSend(state, mail) /\ process' = process
  BY DEF FsmNotify
<1>2. outgoingMails \in Seq(MailRecord)
  BY DEF Inv, ListenerInv, Types, MailBoxTypeOK
<1>3. mail.type = "AUTH" => AuthQueued
  <2>1. outgoingMails # <<>> /\ outgoingMails[Len(outgoingMails)].type = mail.type
    BY <1>1 DEF Said, NotifiesLast
  <2>2. Len(outgoingMails) \in 1..Len(outgoingMails)
    BY <1>2, <2>1
  <2> QED
    BY <2>1, <2>2 DEF AuthQueued
<1>4. state' \in {"AUTH", "OPEN"} => mail.type = "AUTH" \/ state' = state
  BY <1>1 DEF AfterSend
<1>5. AuthFirst'
  BY <1>1, <1>3, <1>4 DEF Spoken, AuthFirst, AuthSent, AuthQueued, AuthInFront
<1> QED
  BY <1>1, <1>5 DEF Spoken, RepeatsWhatIsSent, NoOwnConfirm, ChatIsOpen, ChatAfterAuth

LEMMA SpokenStep == Inv /\ Said /\ Spoken /\ [Next]_vars => Spoken'
<1> SUFFICES ASSUME Inv, Said, Spoken, [Next]_vars PROVE Spoken'
  OBVIOUS
<1>1. CASE Fsm
  <2>1. UNCHANGED <<outbound, confMail>>
    BY <1>1 DEF Fsm, listenerVars, socketVars, sendVars
  <2>2. nameOk \in BOOLEAN
    BY DEF Inv, ListenerInv, Types, MailBoxTypeOK
  <2>3. ValidNames \subseteq BOOLEAN
    BY <2>2 DEF ValidNames
  <2> QED
    BY <1>1, <2>1, <2>3, SpokenWaits, SpokenPush, SpokenNotify DEF Fsm, FsmNext
<1>2. CASE ListenerThread
  BY <1>2, SpokenListener
<1>3. CASE PrintRaces \/ StdinStep \/ Main
  BY <1>3, SpokenUnchanged
  DEF PrintRaces, StdinStep, StdinTimeout, Main, MainStopStdin, MainStopListener, MainExit,
      mailboxVars, listenerVars, socketVars, sendVars
<1>4. CASE Environment
  BY <1>4, SpokenUnchanged
  DEF Environment, UserTypes, StdinLine, UserEof, StdinEof, Sigint, Arrive, PeerClose,
      mailboxVars, socketVars, sendVars
<1>5. CASE UNCHANGED vars
  BY <1>5, SpokenUnchanged DEF vars, mailboxVars, listenerVars, socketVars, sendVars
<1> QED
  BY <1>1, <1>2, <1>3, <1>4, <1>5 DEF Next

-----------------------------------------------------------------------------
(* What the FSM is given.                                                  *)

(* What may be said meanwhile: no CONFIRM beyond the last identifier.      *)
LEMMA ListenedSays ==
    ASSUME Listened, UNCHANGED <<incomingMails, srvMsgId>>,
           NEW m, m.type = "CONFIRM" => m.ref <= srvMsgId,
           outbound' = outbound \cup {m}
    PROVE  Listened'
BY DEF Listened, ServerMailsInOrder, FromServer

LEMMA ListenedUnchanged ==
    ASSUME Listened, UNCHANGED <<incomingMails, outbound, srvMsgId>>
    PROVE  Listened'
BY DEF Listened, ServerMailsInOrder, FromServer

LEMMA ListenedPops ==
    ASSUME Inv, Listened, PopMail, UNCHANGED <<outbound, srvMsgId>>
    PROVE  Listened'
<1>1. /\ Len(incomingMails') = Len(incomingMails) - 1 /\ Len(incomingMails) \in Nat
      /\ \A i \in 1..Len(incomingMails') :
             incomingMails'[i] = incomingMails[i + 1] /\ i + 1 \in 1..Len(incomingMails)
  BY TailElements DEF Inv, ListenerInv, Types, MailBoxTypeOK, PopMail
<1>2. ASSUME Protocol = "UDP", NEW i \in 1..Len(incomingMails'), FromServer(incomingMails'[i]),
             NEW j \in 1..(i - 1)
      PROVE  incomingMails'[j].id < incomingMails'[i].id
  <2>1. j \in 1..Len(incomingMails') /\ j + 1 \in 1..((i + 1) - 1)
    BY <1>1, <1>2
  <2>2. FromServer(incomingMails[i + 1]) /\ i + 1 \in 1..Len(incomingMails)
    BY <1>1, <1>2
  <2> QED
    BY <1>1, <1>2, <2>1, <2>2 DEF Listened, ServerMailsInOrder
<1> QED
  BY <1>1, <1>2 DEF Listened, ServerMailsInOrder

(* A mail of the client to itself has no identifier.                       *)
LEMMA ListenedOwn ==
    ASSUME Inv, Listened, UNCHANGED <<outbound, srvMsgId>>,
           NEW m \in MailRecord, m.id = NoId, AddMail(m)
    PROVE  Listened'
<1>1. /\ Len(incomingMails') = Len(incomingMails) + 1 /\ Len(incomingMails) \in Nat
      /\ \A i \in 1..Len(incomingMails) : incomingMails'[i] = incomingMails[i]
      /\ incomingMails'[Len(incomingMails) + 1] = m
  BY AppendElements DEF Inv, ListenerInv, Types, MailBoxTypeOK, AddMail
<1>2. ASSUME Protocol = "UDP", NEW i \in 1..Len(incomingMails'), FromServer(incomingMails'[i])
      PROVE  /\ i \in 1..Len(incomingMails)
             /\ \A j \in 1..(i - 1) : incomingMails'[j].id < incomingMails'[i].id
  <2>1. i \in 1..Len(incomingMails)
    BY <1>1, <1>2 DEF FromServer
  <2> QED
    BY <1>1, <1>2, <2>1 DEF Listened, ServerMailsInOrder, FromServer
<1>3. \A i \in 1..Len(incomingMails') :
          i \in 1..Len(incomingMails) \/ incomingMails'[i].id = NoId
  BY <1>1
<1> QED
  BY <1>1, <1>2, <1>3 DEF Listened, ServerMailsInOrder, FromServer

(* A mail given to the FSM has an identifier beyond all before it.         *)
LEMMA ListenedFresh ==
    ASSUME Inv, Listened, ReceiveFresh
    PROVE  Listened'
<1> DEFINE m == Mail1
<1>1. m \in MailRecord /\ m.id \in Int /\ GetMessageID(m) = m.id
  <2>1. HandlesDatagram(MessageType \ {"CONFIRM"})
    BY DEF ReceiveFresh
  <2>2. m \in MailRecord
    BY <2>1, MailRead DEF Inv
  <2>3. m.type # "CONFIRM"
    BY <2>1 DEF HandlesDatagram, Mail1, WriteUDPMail, Of, Blank
  <2> QED
    BY <2>2, <2>3 DEF GetMessageID, MailRecord
<1>2. /\ ~(m.id <= srvMsgId) /\ srvMsgId' = m.id /\ AddMail(m)
      /\ outbound' = outbound \cup {ConfirmFor(m.id)}
  BY <1>1 DEF ReceiveFresh, Repeated
<1>3. /\ Len(incomingMails') = Len(incomingMails) + 1 /\ Len(incomingMails) \in Nat
      /\ \A i \in 1..Len(incomingMails) : incomingMails'[i] = incomingMails[i]
      /\ incomingMails'[Len(incomingMails) + 1] = m
  BY <1>1, <1>2, AppendElements DEF Inv, ListenerInv, Types, MailBoxTypeOK, AddMail
<1>4. srvMsgId \in Int /\ srvMsgId < srvMsgId'
  BY <1>1, <1>2 DEF Inv, ListenerInv, Types, ListenerTypeOK
<1>5. incomingMails \in Seq(MailRecord)
  BY DEF Inv, ListenerInv, Types, MailBoxTypeOK
<1>6. ASSUME NEW i \in 1..Len(incomingMails) PROVE incomingMails[i].id \in Int
  <2>1. incomingMails[i] \in MailRecord
    BY <1>5
  <2> QED
    BY <2>1 DEF MailRecord
<1>7. ConfirmFor(m.id).ref = srvMsgId'
  BY <1>2 DEF ConfirmFor, Of, Blank
<1>8. ASSUME Protocol = "UDP", NEW i \in 1..Len(incomingMails)
      PROVE  incomingMails'[i].id < srvMsgId'
  <2>1. incomingMails[i].id \in Int /\ incomingMails[i].id <= srvMsgId
    BY <1>6, <1>8 DEF Listened
  <2>2. srvMsgId' \in Int
    BY <1>1, <1>2
  <2> QED
    BY <1>3, <1>4, <1>8, <2>1, <2>2
<1>9. ASSUME Protocol = "UDP", NEW i \in 1..Len(incomingMails'), FromServer(incomingMails'[i]),
             NEW j \in 1..(i - 1)
      PROVE  incomingMails'[j].id < incomingMails'[i].id
  <2>1. j \in 1..Len(incomingMails)
    BY <1>3, <1>9
  <2>2. CASE i = Len(incomingMails) + 1
    BY <1>2, <1>3, <1>8, <1>9, <2>1, <2>2
  <2>3. CASE i \in 1..Len(incomingMails)
    BY <1>3, <1>9, <2>1, <2>3 DEF Listened, ServerMailsInOrder, FromServer
  <2> QED
    BY <1>3, <1>9, <2>2, <2>3
<1>10. ASSUME Protocol = "UDP"
       PROVE  \A i \in 1..Len(incomingMails') : incomingMails'[i].id <= srvMsgId'
  BY <1>1, <1>2, <1>3, <1>4, <1>6, <1>8, <1>10
<1>11. ASSUME Protocol = "UDP", NEW c \in outbound', c.type = "CONFIRM"
       PROVE  c.ref <= srvMsgId'
  BY <1>1, <1>2, <1>4, <1>7, <1>11, outbound \in SUBSET MailRecord
  DEF Listened, ServerMailsInOrder, Inv, ListenerInv, Types, ListenerTypeOK, MailRecord
<1>12. Protocol = "UDP" => srvMsgId' >= NoId
  BY <1>1, <1>2, <1>4, NoIdType DEF Listened
<1> QED
  BY <1>9, <1>10, <1>11, <1>12 DEF Listened, ServerMailsInOrder

(* A copy of a mail given before.                                          *)
LEMMA ListenedRepeated ==
    ASSUME Inv, Listened, ReceiveRepeated
    PROVE  Listened'
<1>1. /\ GetMessageID(Mail1) <= srvMsgId
      /\ UNCHANGED <<incomingMails, srvMsgId>>
      /\ \/ outbound' = outbound
         \/ outbound' = outbound \cup {ConfirmFor(GetMessageID(Mail1))}
  BY DEF ReceiveRepeated, Repeated, mailboxVars
<1>2. ConfirmFor(GetMessageID(Mail1)).ref = GetMessageID(Mail1)
  BY DEF ConfirmFor, Of, Blank
<1> QED
  BY <1>1, <1>2, ListenedSays, ListenedUnchanged

(* What the FSM said, said once more by a timeout.                         *)
LEMMA ListenedTimeout ==
    ASSUME Spoken, Listened, EpollTimeout
    PROVE  Listened'
<1>1. UNCHANGED <<incomingMails, srvMsgId>> /\ outbound' = outbound \cup {confMail}
  BY DEF EpollTimeout, mailboxVars
<1>2. CASE confMail = Blank
  <2>1. confMail.type # "CONFIRM"
    BY <1>2 DEF Blank
  <2> QED
    BY <1>1, <2>1, ListenedSays
<1>3. CASE confMail \in outbound
  <2>1. outbound' = outbound
    BY <1>1, <1>3
  <2> QED
    BY <1>1, <2>1, ListenedUnchanged
<1> QED
  BY <1>2, <1>3 DEF Spoken, RepeatsWhatIsSent

LEMMA ListenedSend ==
    ASSUME Inv, Spoken, Listened, ListenToSendPipe
    PROVE  Listened'
<1>1. outgoingMails \in Seq(MailRecord) /\ outgoingMails # <<>>
  BY DEF Inv, ListenerInv, Control, Types, MailBoxTypeOK, NoBlockingRead, ListenToSendPipe,
         Handles
<1>2. Head(outgoingMails).type # "CONFIRM"
  BY <1>1, TailElements DEF Spoken, NoOwnConfirm
<1>3. /\ UNCHANGED <<incomingMails, srvMsgId>>
      /\ outbound' = outbound \cup {Head(outgoingMails)}
  BY DEF ListenToSendPipe
<1> QED
  BY <1>2, <1>3, ListenedSays

(* What the user typed, and what a signal becomes.                         *)
LEMMA ListenedUser ==
    ASSUME Inv, Listened, ListenStdinLine \/ ListenSignal
    PROVE  Listened'
<1>1. UNCHANGED <<outbound, srvMsgId>>
  BY DEF ListenStdinLine, ListenSignal, socketVars
<1>2. ASSUME NEW t \in MessageType
      PROVE  /\ Of(t).id = NoId /\ Of(t) \in MailRecord
             /\ [Of(t) EXCEPT !.sigint = TRUE].id = NoId
             /\ [Of(t) EXCEPT !.sigint = TRUE] \in MailRecord
             /\ [Of(t) EXCEPT !.toSend = TRUE].id = NoId
             /\ [Of(t) EXCEPT !.toSend = TRUE] \in MailRecord
  <2>1. Of(t) \in MailRecord
    BY OfType
  <2> QED
    BY <2>1 DEF Of, Blank, MailRecord
<1>3. CASE ListenSignal
  BY <1>1, <1>2, <1>3, ListenedOwn DEF ListenSignal, MessageType
<1>4. CASE ListenStdinLine
  <2>1. \A m \in LineMails(Head(chunk)) : m \in MailRecord /\ m.id = NoId
    BY <1>2 DEF LineMails, MessageType
  <2>2. CASE \E m \in LineMails(Head(chunk)) : AddMail(m)
    BY <1>1, <2>1, <2>2, ListenedOwn
  <2>3. CASE UNCHANGED incomingMails
    BY <1>1, <2>3, ListenedUnchanged
  <2> QED
    BY <1>4, <2>2, <2>3 DEF ListenStdinLine
<1> QED
  BY <1>3, <1>4

LEMMA ListenedListener ==
    ASSUME Inv, Spoken, Listened, ListenerNext
    PROVE  Listened'
<1>1. CASE \/ LoopTop \/ LoopExit \/ EpollReady \/ EpollGiveUp
           \/ ListenStdin \/ ListenStdinThrows \/ ListenSignalThrows
           \/ ListenToSendPipeBroken \/ ReceiveInvalid \/ ReceiveConfirm \/ ReceiveStray
  BY <1>1, ListenedUnchanged
  DEF LoopTop, LoopExit, EpollReady, EpollGiveUp, ListenStdin, ListenStdinThrows,
      ListenSignalThrows, ListenToSendPipeBroken, ReceiveInvalid, ReceiveConfirm,
      ReceiveStray, Exit1, mailboxVars, socketVars, listenerVars
<1>2. CASE ReceiveText \/ ReceiveInvalidText \/ ReceiveEof
  <2>1. Protocol = "TCP"
    BY <1>2 DEF ReceiveText, ReceiveInvalidText, ReceiveEof, HandlesText
  <2> QED
    BY <2>1 DEF Listened
<1>3. CASE ReceiveReset
  BY <1>3, ListenedUnchanged DEF ReceiveReset, Exit1, socketVars
<1> QED
  BY <1>1, <1>2, <1>3, ListenedTimeout, ListenedSend, ListenedUser, ListenedRepeated,
     ListenedFresh DEF ListenerNext, ReceiveUdp, ReceiveTcp

LEMMA ListenedStep == Inv /\ Spoken /\ Listened /\ [Next]_vars => Listened'
<1> SUFFICES ASSUME Inv, Spoken, Listened, [Next]_vars PROVE Listened'
  OBVIOUS
<1>1. CASE Fsm
  <2>1. UNCHANGED <<outbound, srvMsgId>>
    BY <1>1 DEF Fsm, listenerVars, socketVars
  <2>2. PopMail \/ UNCHANGED incomingMails
    BY <1>1 DEF Fsm, FsmNext, FsmForward, FsmBye, FsmErr, FsmSilent, FsmUndecodable, FsmError,
                FsmPush, FsmNotify, WaitMail, mailboxVars
  <2> QED
    BY <2>1, <2>2, ListenedPops, ListenedUnchanged
<1>2. CASE ListenerThread
  BY <1>2, ListenedListener DEF ListenerThread
<1>3. CASE PrintRaces \/ StdinStep \/ Main
  BY <1>3, ListenedUnchanged
  DEF PrintRaces, StdinStep, StdinTimeout, Main, MainStopStdin, MainStopListener, MainExit,
      mailboxVars, listenerVars, socketVars
<1>4. CASE Environment
  BY <1>4, ListenedUnchanged
  DEF Environment, UserTypes, StdinLine, UserEof, StdinEof, Sigint, Arrive, PeerClose,
      mailboxVars, socketVars
<1>5. CASE UNCHANGED vars
  BY <1>5, ListenedUnchanged DEF vars, mailboxVars, listenerVars, socketVars
<1> QED
  BY <1>1, <1>2, <1>3, <1>4, <1>5 DEF Next

-----------------------------------------------------------------------------
LEMMA InitSpoken == Init => Spoken /\ Listened
BY DEF Init, MailBoxInit, FsmInit, ListenerInit, Spoken, RepeatsWhatIsSent, NoOwnConfirm,
       AuthFirst, ChatIsOpen, ChatAfterAuth, Listened, ServerMailsInOrder, Chats, NoId

LEMMA SpecSpoken == Spec => [](Inv /\ Said /\ Spoken /\ Listened)
BY InitInv, InitSaid, InitSpoken, InvStep, SaidStep, SpokenStep, ListenedStep, PTL DEF Spec

(* fsm.cpp: whatever the peer sends and the user types, no JOIN or MSG     *)
(* goes on the wire unless an AUTH went before it.                         *)
THEOREM ChatAfterAuthHolds == Spec => []ChatAfterAuth
<1>1. Spoken => ChatAfterAuth
  BY DEF Spoken
<1> QED
  BY <1>1, SpecSpoken, PTL

(* listenSocket over UDP: however datagrams are repeated and reordered,    *)
(* the FSM gets each at most once and in the order of their identifiers,   *)
(* and no CONFIRM is sent for one beyond the last of them.                 *)
THEOREM ServerMailsInOrderHolds == Spec => []ServerMailsInOrder
<1>1. Listened => ServerMailsInOrder
  BY DEF Listened, ServerMailsInOrder
<1> QED
  BY <1>1, SpecSpoken, PTL

-----------------------------------------------------------------------------
(* Sleeping.                                                               *)

(* In epoll_wait, the pipe the Listener watches and the timeout are still  *)
(* those the head of the loop chose, and the loop had a reason to go on.   *)
(* Main stops the other threads only when the FSM has left its own.        *)
Slept ==
    /\ listenerPc = "wait" =>
           /\ toSendRegistered <=> receivedConfirm
           /\ armed <=> ~receivedConfirm /\ ~overslept
           /\ receivedConfirm => ~sentBye
    /\ sentBye => ~keepRunning
    /\ mainPc # "fsm" => FsmLeft

(* Only LoopTop goes to sleep; a step that leaves the thread in epoll_wait *)
(* leaves all it went to sleep with.                                       *)
LEMMA KeepsSleeping ==
    ASSUME ListenerNext, listenerPc' = "wait", ~LoopTop
    PROVE  /\ listenerPc = "wait"
           /\ UNCHANGED <<toSendRegistered, receivedConfirm, armed, overslept, sentBye>>
<1>1. CASE LoopExit \/ EpollReady \/ EpollTimeout
  BY <1>1 DEF LoopExit, EpollReady, EpollTimeout
<1>2. CASE EpollGiveUp \/ ListenStdinThrows
  BY <1>2 DEF EpollGiveUp, ListenStdinThrows, listenerVars, loopVars, sendVars, stopVars
<1>3. CASE ListenStdin \/ ListenStdinLine
  BY <1>3 DEF ListenStdin, ListenStdinLine, NextLine
<1>4. CASE ListenSignal \/ ListenSignalThrows
  BY <1>4 DEF ListenSignal, ListenSignalThrows, Handles
<1>5. CASE ListenToSendPipe \/ ListenToSendPipeBroken
  BY <1>5 DEF ListenToSendPipe, ListenToSendPipeBroken, Handles
<1>6. CASE ReceiveUdp
  BY <1>6 DEF ReceiveUdp, ReceiveInvalid, ReceiveConfirm, ReceiveRepeated, ReceiveStray,
              ReceiveFresh, HandlesDatagram, Handles
<1>7. CASE ReceiveTcp
  BY <1>7 DEF ReceiveTcp, ReceiveText, ReceiveInvalidText, ReceiveEof, ReceiveReset,
              HandlesText, Handles
<1> QED
  BY <1>1, <1>2, <1>3, <1>4, <1>5, <1>6, <1>7 DEF ListenerNext

(* What says BYE stops the loop, and nothing starts it again.              *)
LEMMA ByeStops ==
    ASSUME Inv, sentBye => ~keepRunning, ListenerNext
    PROVE  sentBye' => ~keepRunning'
<1>1. CASE ListenToSendPipe
  BY <1>1 DEF ListenToSendPipe
<1>2. CASE ListenSignal
  BY <1>2 DEF ListenSignal
<1>3. CASE ReceiveText
  <2>1. keepRunning' => keepRunning
    BY <1>3 DEF ReceiveText
  <2>2. sentBye' = sentBye
    BY <1>3 DEF ReceiveText, HandlesText
  <2> QED
    BY <2>1, <2>2
<1>4. CASE UNCHANGED stopVars
  BY <1>4 DEF stopVars
<1>5. CASE ReceiveInvalidText \/ ReceiveEof
  BY <1>5 DEF ReceiveInvalidText, ReceiveEof, HandlesText
<1>6. CASE \/ LoopTop \/ LoopExit \/ EpollReady \/ EpollTimeout \/ EpollGiveUp
           \/ ListenStdin \/ ListenStdinLine \/ ListenStdinThrows
           \/ ListenSignalThrows \/ ListenToSendPipeBroken
  BY <1>4, <1>6 DEF LoopTop, LoopExit, EpollReady, EpollTimeout, EpollGiveUp, ListenStdin,
     ListenStdinLine, ListenStdinThrows, ListenSignalThrows, ListenToSendPipeBroken,
     listenerVars
<1>7. CASE ReceiveUdp \/ ReceiveReset
  BY <1>4, <1>7 DEF ReceiveUdp, ReceiveInvalid, ReceiveConfirm, ReceiveRepeated,
     ReceiveStray, ReceiveFresh, HandlesDatagram, ReceiveReset
<1> QED
  BY <1>1, <1>2, <1>3, <1>5, <1>6, <1>7 DEF ListenerNext, ReceiveTcp

LEMMA SleptListener ==
    ASSUME Inv, Slept, ListenerNext, UNCHANGED <<fsmVars, mainPc>>
    PROVE  Slept'
<1>1. (mainPc # "fsm" => FsmLeft)'
  BY DEF Slept, FsmLeft, fsmVars
<1>2. (sentBye => ~keepRunning)'
  BY ByeStops DEF Slept
<1>3. CASE LoopTop
  <2>1. UNCHANGED <<receivedConfirm, sentBye, keepRunning, overslept>>
    BY <1>3 DEF LoopTop, sendVars, stopVars
  <2>2. receivedConfirm \in BOOLEAN /\ overslept \in BOOLEAN
    BY DEF Inv, ListenerInv, Types, ListenerTypeOK
  <2>3. toSendRegistered' <=> receivedConfirm
    BY <1>3, <2>2 DEF LoopTop, WatchesToSend
  <2>4. armed' <=> ~receivedConfirm /\ ~overslept
    BY <1>3, <2>2 DEF LoopTop, Armed
  <2>5. receivedConfirm => ~sentBye
    BY <1>3 DEF LoopTop, LoopCondition, Slept
  <2> QED
    BY <1>1, <1>2, <2>1, <2>3, <2>4, <2>5 DEF Slept
<1>4. CASE ~LoopTop
  BY <1>1, <1>2, <1>4, KeepsSleeping DEF Slept
<1> QED
  BY <1>3, <1>4

(* A FSM that has left its loop takes no step.                             *)
LEMMA LeftForGood ==
    ASSUME FsmLeft, NEW names
    PROVE  ~FsmNext(names)
BY DEF FsmLeft, FsmNext, FsmForward, FsmBye, FsmErr, FsmSilent, FsmUndecodable, FsmError,
       FsmPush, FsmNotify, WaitMail, Chatting

LEMMA SleptStep == Inv /\ Slept /\ [Next]_vars => Slept'
<1> SUFFICES ASSUME Inv, Slept, [Next]_vars PROVE Slept'
  OBVIOUS
<1>1. CASE Fsm
  <2>1. UNCHANGED <<listenerPc, toSendRegistered, receivedConfirm, armed, overslept, sentBye,
                    keepRunning, mainPc>>
    BY <1>1 DEF Fsm, listenerVars, loopVars, sendVars, stopVars
  <2>2. mainPc = "fsm"
    BY <1>1, LeftForGood DEF Fsm, Slept
  <2> QED
    BY <2>1, <2>2 DEF Slept
<1>2. CASE ListenerThread
  BY <1>2, SleptListener DEF ListenerThread
<1>3. CASE PrintRaces \/ StdinStep \/ UNCHANGED vars
  BY <1>3 DEF PrintRaces, StdinStep, StdinTimeout, vars, listenerVars, loopVars, sendVars,
              stopVars, fsmVars, FsmLeft, Slept
<1>4. CASE Main
  <2>1. UNCHANGED <<listenerPc, toSendRegistered, receivedConfirm, armed, overslept, sentBye,
                    state, fsmPc>>
    BY <1>4 DEF Main, MainStopStdin, MainStopListener, MainExit, listenerVars, loopVars,
                sendVars, stopVars, fsmVars
  <2>2. keepRunning' => keepRunning
    <3>1. keepRunning \in BOOLEAN
      BY DEF Inv, ListenerInv, Types, ListenerTypeOK
    <3>2. CASE MainStopListener
      BY <3>1, <3>2 DEF MainStopListener
    <3>3. CASE MainStopStdin \/ MainExit
      <4>1. keepRunning' = keepRunning
        BY <3>3 DEF MainStopStdin, MainExit, listenerVars, stopVars
      <4> QED
        BY <4>1
    <3> QED
      BY <1>4, <3>2, <3>3 DEF Main
  <2>3. FsmLeft
    BY <1>4 DEF Main, MainStopStdin, MainStopListener, MainExit, Slept
  <2> QED
    BY <2>1, <2>2, <2>3 DEF Slept, FsmLeft
<1>5. CASE Environment
  <2>1. UNCHANGED <<toSendRegistered, receivedConfirm, armed, sentBye, keepRunning, mainPc,
                    state, fsmPc>>
    BY <1>5 DEF Environment, UserTypes, UserEof, StdinLine, StdinEof, Sigint, Arrive,
                PeerClose, loopVars, sendVars, stopVars, fsmVars
  <2>2. listenerPc' = "run" \/ UNCHANGED <<listenerPc, overslept>>
    BY <1>5 DEF Environment, UserTypes, UserEof, Sigint, Arrive, PeerClose, loopVars
  <2> QED
    BY <2>1, <2>2 DEF Slept, FsmLeft
<1> QED
  BY <1>1, <1>2, <1>3, <1>4, <1>5 DEF Next

LEMMA InitSlept == Init => Slept
BY DEF Init, ListenerInit, Slept

(* With nothing to read and no timeout there is nothing to do.             *)
LEMMA SleptIsIdle ==
    ASSUME Inv, Slept
    PROVE  SleepsOnlyIdle
<1> SUFFICES ASSUME Asleep
             PROVE  \/ /\ receivedConfirm /\ ~sentBye
                       /\ Len(outgoingMails) = (IF fsmPc = "notify" THEN 1 ELSE 0)
                    \/ ~receivedConfirm /\ overslept
  BY DEF SleepsOnlyIdle
<1>1. CASE ~receivedConfirm
  BY <1>1 DEF Asleep, Waiting, Slept
<1>2. CASE receivedConfirm
  <2>1. ~sentBye /\ toSendRegistered
    BY <1>2 DEF Asleep, Waiting, Slept
  <2>2. ~(toSendPipe > 0)
    BY <2>1 DEF Asleep, Ready, FdType
  <2>3. toSendPipe = 0
    BY <2>2 DEF Inv, ListenerInv, Types, MailBoxTypeOK, PipesTypeOK
  <2>4. Len(outgoingMails) = (IF fsmPc = "notify" THEN 1 ELSE 0)
    BY <2>3 DEF Inv, NotifyMatchesOutgoing
  <2> QED
    BY <1>2, <2>1, <2>4
<1> QED
  BY <1>1, <1>2

(* runListener: no wake-up is lost between sendMail's push, its byte, and  *)
(* the pipe that is watched only while nothing awaits a CONFIRM.           *)
THEOREM SleepsOnlyIdleHolds == Spec => []SleepsOnlyIdle
BY InitInv, InitSlept, InvStep, SleptStep, SleptIsIdle, PTL DEF Spec

(* Listener::stop: the join of runMain waits for a thread that sleeps for  *)
(* good in three cases at most.                                            *)
THEOREM JoinReturnsHolds == Spec => []JoinReturns
<1>1. Inv /\ Slept => JoinReturns
  <2> SUFFICES ASSUME Inv, Slept, mainPc = "stopListener", Asleep, fsmPc # "threw", ~overslept
               PROVE  HungUp
    BY DEF JoinReturns
  <2>1. state = "END" /\ fsmPc = "wait"
    BY DEF Slept, FsmLeft
  <2>2. ~sentBye /\ Len(outgoingMails) = 0
    BY <2>1, SleptIsIdle DEF SleepsOnlyIdle
  <2>3. outgoingMails = <<>>
    BY <2>2 DEF Inv, ListenerInv, Types, MailBoxTypeOK
  <2>4. Outgoing = <<>>
    BY <2>1, <2>3 DEF Outgoing
  <2> QED
    BY <2>1, <2>2, <2>4 DEF HungUp
<1> QED
  BY <1>1, InitInv, InitSlept, InvStep, SleptStep, PTL DEF Spec

-----------------------------------------------------------------------------
(* Interrupts.                                                             *)

(* The mail an interrupt becomes is an ERR: in every state the FSM answers *)
(* it with BYE.                                                            *)
InterruptIsErr ==
    \A i \in 1..Len(incomingMails) :
        incomingMails[i].sigint => incomingMails[i].type = "ERR"

Kept == InterruptIsErr /\ InterruptKept

LEMMA KeptReceives ==
    ASSUME Inv, Kept, UNCHANGED <<signalPipe, signals>>,
           \/ FsmForward \/ FsmBye \/ (\E validName \in BOOLEAN : FsmErr(validName))
           \/ FsmSilent \/ FsmUndecodable
    PROVE  Kept'
<1>1. WaitMail /\ fsmPc = "wait" /\ state \notin {"ERROR", "END"}
  BY DEF FsmForward, FsmBye, FsmErr, FsmSilent, FsmUndecodable, WaitMail, Chatting
<1>2. /\ Len(incomingMails') = Len(incomingMails) - 1 /\ Len(incomingMails) \in Nat
      /\ Len(incomingMails) > 0 /\ Received = incomingMails[1]
      /\ \A i \in 1..Len(incomingMails') :
             incomingMails'[i] = incomingMails[i + 1] /\ i + 1 \in 1..Len(incomingMails)
  BY <1>1, TailElements
  DEF Inv, ListenerInv, Types, MailBoxTypeOK, WaitMail, PopMail, Received
<1>3. InterruptIsErr'
  BY <1>2 DEF Kept, InterruptIsErr
<1>4. InterruptKept'
  <2> SUFFICES ASSUME signals > 0, process' = "running", ~(signalPipe > 0)
               PROVE  \/ \E i \in 1..Len(incomingMails') : incomingMails'[i].sigint
                      \/ fsmPc' \in {"push", "notify"} /\ mail'.type \in {"ERR", "BYE"}
    BY DEF InterruptKept
  <2>1. process = "running"
    BY <1>1 DEF WaitMail
  <2>2. PICK i \in 1..Len(incomingMails) : incomingMails[i].sigint
    BY <1>1, <2>1 DEF Kept, InterruptKept
  <2>3. CASE i = 1
    <3>1. Received.sigint /\ Received.type = "ERR"
      BY <1>2, <2>2, <2>3 DEF Kept, InterruptIsErr
    <3>2. /\ SaysBye(state, Received) /\ ~Forwards(state, Received)
          /\ ~StaysSilent(state, Received) /\ ~SaysErr(state, Received)
      BY <3>1 DEF SaysBye, Forwards, StaysSilent, SaysErr
    <3>3. process' # "running" \/ FsmBye
      BY <3>2 DEF FsmForward, FsmErr, FsmSilent, FsmUndecodable
    <3>4. fsmPc' = "push" /\ mail' = Of("BYE")
      BY <3>3 DEF FsmBye
    <3>5. Of("BYE").type = "BYE"
      BY DEF Of, Blank
    <3> QED
      BY <3>4, <3>5
  <2>4. CASE i # 1
    <3>1. i - 1 \in 1..Len(incomingMails') /\ (i - 1) + 1 = i
      BY <1>2, <2>4
    <3>2. incomingMails'[i - 1].sigint
      BY <1>2, <2>2, <3>1
    <3> QED
      BY <3>1, <3>2
  <2> QED
    BY <2>3, <2>4
<1> QED
  BY <1>3, <1>4 DEF Kept

(* Once the FSM is sending ERR or BYE it goes on to END.                   *)
LEMMA KeptSends ==
    ASSUME Inv, Said, Kept, UNCHANGED <<signalPipe, signals>>,
           FsmError \/ FsmPush \/ FsmNotify
    PROVE  Kept'
<1>1. incomingMails' = incomingMails /\ process' = process /\ fsmPc # "threw"
  BY DEF FsmError, FsmPush, FsmNotify, mailboxVars
<1>2. CASE FsmError
  BY <1>1, <1>2 DEF FsmError, Kept, InterruptIsErr, InterruptKept
<1>3. CASE FsmPush
  BY <1>1, <1>3 DEF FsmPush, Kept, InterruptIsErr, InterruptKept
<1>4. CASE FsmNotify
  <2>1. mail.type \in {"ERR", "BYE"} => state' \in {"ERROR", "END"}
    BY <1>4 DEF FsmNotify, AfterSend
  <2>2. state \in {"ERROR", "END"} => mail.type = "BYE"
    BY <1>4 DEF FsmNotify, Said, ErrorAndEnd
  <2> QED
    BY <1>1, <2>1, <2>2 DEF Kept, InterruptIsErr, InterruptKept
<1> QED
  BY <1>2, <1>3, <1>4

LEMMA KeptFsm ==
    ASSUME Inv, Said, Kept, Fsm
    PROVE  Kept'
<1>1. UNCHANGED <<signalPipe, signals>>
  BY DEF Fsm, listenerVars, pipeVars, envVars
<1>2. nameOk \in BOOLEAN
  BY DEF Inv, ListenerInv, Types, MailBoxTypeOK
<1>3. ValidNames \subseteq BOOLEAN
  BY <1>2 DEF ValidNames
<1> QED
  BY <1>1, <1>3, KeptReceives, KeptSends DEF Fsm, FsmNext

-----------------------------------------------------------------------------
(* The other threads.                                                      *)

(* More mails in the queue, and more bytes in the pipe, forget nothing.    *)
LEMMA KeptUnchanged ==
    ASSUME Kept, UNCHANGED <<incomingMails, fsmVars, signals>>,
           process' = "running" => process = "running",
           signalPipe' = signalPipe \/ process' # "running"
    PROVE  Kept'
BY DEF Kept, InterruptIsErr, InterruptKept, fsmVars

LEMMA KeptAdds ==
    ASSUME Inv, Kept, process = "running", UNCHANGED <<fsmVars, signals>>,
           NEW m \in MailRecord, AddMail(m),
           m.sigint => m.type = "ERR", m.sigint \/ signalPipe' = signalPipe
    PROVE  Kept'
<1>1. /\ Len(incomingMails') = Len(incomingMails) + 1 /\ Len(incomingMails) \in Nat
      /\ \A i \in 1..Len(incomingMails) : incomingMails'[i] = incomingMails[i]
      /\ incomingMails'[Len(incomingMails) + 1] = m
  BY AppendElements DEF Inv, ListenerInv, Types, MailBoxTypeOK, AddMail
<1>2. \A i \in 1..Len(incomingMails') :
          i \in 1..Len(incomingMails) \/ i = Len(incomingMails) + 1
  BY <1>1
<1>3. InterruptIsErr'
  BY <1>1, <1>2 DEF Kept, InterruptIsErr
<1>4. 1..Len(incomingMails) \subseteq 1..Len(incomingMails')
      /\ Len(incomingMails) + 1 \in 1..Len(incomingMails')
  BY <1>1
<1>5. CASE m.sigint
  <2>1. \E i \in 1..Len(incomingMails') : incomingMails'[i].sigint
    BY <1>1, <1>4, <1>5
  <2> QED
    BY <1>3, <2>1 DEF Kept, InterruptKept
<1>6. CASE ~m.sigint
  <2>1. (\E i \in 1..Len(incomingMails) : incomingMails[i].sigint)
            => \E i \in 1..Len(incomingMails') : incomingMails'[i].sigint
    BY <1>1, <1>4
  <2>2. InterruptKept'
    BY <1>6, <2>1 DEF Kept, InterruptKept, fsmVars
  <2> QED
    BY <1>3, <2>2 DEF Kept
<1> QED
  BY <1>5, <1>6

LEMMA KeptUser ==
    ASSUME Inv, Kept, ListenStdinLine \/ ListenSignal, UNCHANGED <<fsmVars, signals>>
    PROVE  Kept'
<1>1. process = "running" /\ process' = process
  BY DEF ListenStdinLine, ListenSignal, AtLine, Handles
<1>2. CASE ListenSignal
  <2>1. "ERR" \in MessageType
    BY DEF MessageType
  <2>2. Of("ERR") \in MailRecord /\ Of("ERR").type = "ERR"
    BY <2>1, OfType DEF Of, Blank
  <2> DEFINE m == [Of("ERR") EXCEPT !.sigint = TRUE]
  <2>3. m \in MailRecord /\ m.sigint /\ m.type = "ERR"
    BY <2>2 DEF MailRecord
  <2>4. AddMail(m)
    BY <1>2 DEF ListenSignal
  <2> HIDE DEF m
  <2> QED
    BY <1>1, <2>3, <2>4, KeptAdds
<1>3. CASE ListenStdinLine
  <2>1. signalPipe' = signalPipe
    BY <1>3 DEF ListenStdinLine, pipeVars
  <2>2. CASE UNCHANGED incomingMails
    BY <1>1, <2>1, <2>2, KeptUnchanged
  <2>3. ASSUME NEW m \in LineMails(Head(chunk)), AddMail(m) PROVE Kept'
    <3>1. chunk # <<>> /\ chunk \in Seq(Line)
      BY <1>3 DEF ListenStdinLine, AtLine, Inv, ListenerInv, Control, NoBlockingRead, Types,
                  ListenerTypeOK
    <3>2. Head(chunk) \in Line
      BY <3>1, FrontType
    <3>3. m \in MailRecord /\ ~m.sigint
      BY <2>3, <3>2, LineMailsType, LineNoSignal
    <3> QED
      BY <1>1, <2>1, <2>3, <3>3, KeptAdds
  <2> QED
    BY <1>3, <2>2, <2>3 DEF ListenStdinLine
<1> QED
  BY <1>2, <1>3

LEMMA KeptSocket ==
    ASSUME Inv, Kept, ReceiveFresh \/ ReceiveText \/ ReceiveEof, UNCHANGED <<fsmVars, signals>>
    PROVE  Kept'
<1>1. /\ process = "running" /\ process' = process /\ signalPipe' = signalPipe
      /\ "SocketPipe" \in batch
  BY DEF ReceiveFresh, HandlesDatagram, ReceiveText, ReceiveEof, HandlesText, Handles, pipeVars
<1>2. CASE ReceiveFresh
  <2>1. HandlesDatagram(MessageType \ {"CONFIRM"}) /\ AddMail(Mail1)
    BY <1>2 DEF ReceiveFresh
  <2>2. ListenerInv /\ MessageType \ {"CONFIRM"} \in SUBSET MessageType
    BY DEF Inv
  <2>3. Mail1 \in MailRecord
    BY <2>1, <2>2, MailRead
  <2>4. ~Mail1.sigint
    BY UdpNoSignal DEF Mail1
  <2> QED
    BY <1>1, <2>1, <2>3, <2>4, KeptAdds
<1>3. CASE ReceiveText
  <2>1. PICK n \in 1..Len(inbound) :
            /\ Datagram1.type # "INVALID"
            /\ \E m \in WriteTCPMail(Datagram1) : AddMail(m)
    BY <1>3 DEF ReceiveText
  <2>2. PICK m \in WriteTCPMail(Datagram1) : AddMail(m)
    BY <2>1
  <2>3. inbound \in Seq(Datagram) /\ inbound # <<>>
    BY <2>1 DEF Inv, ListenerInv, Types, ListenerTypeOK
  <2>4. Datagram1 \in Datagram
    BY <2>3, FrontType DEF Datagram1
  <2>5. m \in MailRecord /\ ~m.sigint
    BY <2>1, <2>2, <2>4, WriteTCPMailType, TcpNoSignal
  <2> QED
    BY <1>1, <2>2, <2>5, KeptAdds
<1>4. CASE ReceiveEof
  <2>1. Of("UNKNOWN") \in MailRecord
    BY OfType DEF MessageType
  <2>2. EofMail \in MailRecord
    BY <2>1 DEF EofMail, MailRecord
  <2>3. ~EofMail.sigint
    BY OfNoSignal DEF EofMail
  <2>4. UNCHANGED incomingMails \/ AddMail(EofMail)
    BY <1>4 DEF ReceiveEof
  <2> QED
    BY <1>1, <2>2, <2>3, <2>4, KeptAdds, KeptUnchanged
<1> QED
  BY <1>2, <1>3, <1>4

LEMMA KeptListener ==
    ASSUME Inv, Kept, ListenerNext, UNCHANGED <<fsmVars, signals>>
    PROVE  Kept'
<1>1. process = "running"
  BY ListenerLeaves
<1>2. CASE \/ LoopTop \/ LoopExit \/ EpollReady \/ EpollTimeout \/ EpollGiveUp
           \/ ListenStdin \/ ListenStdinThrows \/ ListenSignalThrows
  <2>1. UNCHANGED incomingMails /\ (signalPipe' = signalPipe \/ process' # "running")
    BY <1>2 DEF LoopTop, LoopExit, EpollReady, EpollTimeout, EpollGiveUp, ListenStdin,
       ListenStdinThrows, ListenSignalThrows, Exit1, mailboxVars, listenerVars, pipeVars
  <2> QED
    BY <1>1, <2>1, KeptUnchanged
<1>3. CASE \/ ListenToSendPipe \/ ListenToSendPipeBroken \/ ReceiveInvalid \/ ReceiveConfirm
           \/ ReceiveRepeated \/ ReceiveStray \/ ReceiveInvalidText \/ ReceiveReset
  <2>1. UNCHANGED <<incomingMails, signalPipe>>
    BY <1>3 DEF ListenToSendPipe, ListenToSendPipeBroken, ReceiveInvalid, ReceiveConfirm,
       ReceiveRepeated, ReceiveStray, ReceiveInvalidText, ReceiveReset, HandlesDatagram,
       HandlesText, Exit1, mailboxVars, pipeVars
  <2> QED
    BY <1>1, <2>1, KeptUnchanged
<1> QED
  BY <1>2, <1>3, KeptUser, KeptSocket DEF ListenerNext, ReceiveUdp, ReceiveTcp

LEMMA KeptStep == Inv /\ Said /\ Kept /\ [Next]_vars => Kept'
<1> SUFFICES ASSUME Inv, Said, Kept, [Next]_vars PROVE Kept'
  OBVIOUS
<1>1. CASE Fsm
  BY <1>1, KeptFsm
<1>2. CASE ListenerThread
  BY <1>2, KeptListener DEF ListenerThread, envVars
<1>3. CASE PrintRaces
  <2>1. process' # "running"
    BY <1>3 DEF PrintRaces
  <2>2. UNCHANGED incomingMails
    BY <1>3 DEF PrintRaces
  <2> QED
    BY <2>1, <2>2 DEF Kept, InterruptKept, InterruptIsErr
<1>4. CASE StdinStep \/ UserTypes \/ Arrive \/ PeerClose \/ UNCHANGED vars
  <2>1. UNCHANGED <<incomingMails, fsmVars, signals, process, signalPipe>>
    BY <1>4 DEF StdinStep, StdinTimeout, UserTypes, StdinLine, Arrive, PeerClose, vars,
       mailboxVars, listenerVars, pipeVars, envVars
  <2> QED
    BY <2>1, KeptUnchanged
<1>5. CASE Main
  <2>1. UNCHANGED <<incomingMails, fsmVars, signals, signalPipe>>
    BY <1>5 DEF Main, MainStopStdin, MainStopListener, MainExit, mailboxVars, listenerVars,
       pipeVars, envVars
  <2>2. process' = "running" => process = "running"
    BY <1>5 DEF Main, MainStopStdin, MainStopListener, MainExit
  <2> QED
    BY <2>1, <2>2, KeptUnchanged
<1>6. CASE UserEof \/ Sigint
  <2>1. /\ signalPipe' = signalPipe + 1 /\ signalPipe \in Nat
        /\ incomingMails' = incomingMails
    BY <1>6 DEF UserEof, StdinEof, Sigint, mailboxVars, Inv, ListenerInv, Types,
       MailBoxTypeOK, PipesTypeOK
  <2>2. signalPipe' > 0
    BY <2>1
  <2> QED
    BY <2>1, <2>2 DEF Kept, InterruptKept, InterruptIsErr
<1> QED
  BY <1>1, <1>2, <1>3, <1>4, <1>5, <1>6 DEF Next, Environment

LEMMA InitKept == Init => Kept
BY DEF Init, MailBoxInit, Kept, InterruptIsErr, InterruptKept

LEMMA SpecKept == Spec => [](Inv /\ Said /\ Kept)
BY InitInv, InitSaid, InitKept, InvStep, SaidStep, KeptStep, PTL DEF Spec

(* handleSignal, listenSignal and fsm.cpp: an interrupt is not forgotten   *)
(* before the FSM has ended the conversation.                              *)
THEOREM InterruptKeptHolds == Spec => []InterruptKept
<1>1. Kept => InterruptKept
  BY DEF Kept
<1> QED
  BY <1>1, SpecKept, PTL
=============================================================================
