------------------------------ MODULE Listener ------------------------------
(***************************************************************************)
(* The class Listener (src/src/listeners.cpp): the thread that owns the    *)
(* socket.  It waits with epoll for four descriptors, hands what arrives   *)
(* to the FSM through the MailBox, and transmits the outgoing mails; over  *)
(* UDP one at a time, each until the peer confirms it.                     *)
(***************************************************************************)
EXTENDS MailBox

CONSTANTS
    Retries,       \* NetworkConnection::getRetries()
    Oversleeps     \* whether a wait can measure longer than the timeout

ASSUME RetriesAssumption == Retries \in Nat
ASSUME OversleepsAssumption == Oversleeps \subseteq BOOLEAN /\ Oversleeps # {}

VARIABLES
    inbound,           \* datagrams (TCP: texts) in the socket's buffer
    outbound,          \* mails given to sendData and not lost since
    peerClosed,        \* TCP: the peer has closed the connection
    listenerPc,        \* where the thread is in runListener
    batch,             \* descriptors epoll_wait returned, not yet handled
    chunk,             \* lines listenStdin has read, not yet handled
    overslept,         \* the last wait measured longer than the timeout
    armed,             \* the timeout of the current wait is not negative
    receivedConfirm, toSendRegistered, retries, refMsgId, refAuthId,
    keepRunning, sentBye, confMail,
    srvMsgId           \* MailBox::srvMsgId, which only this thread uses

socketVars == <<inbound, outbound, peerClosed>>
loopVars == <<listenerPc, batch, chunk, overslept, armed, toSendRegistered>>
sendVars == <<receivedConfirm, retries, refMsgId, refAuthId, confMail>>
stopVars == <<keepRunning, sentBye>>
listenerVars == <<pipeVars, socketVars, loopVars, sendVars, stopVars, srvMsgId>>

(* "run": the body of the loop.  "wait": in epoll_wait.  "stdin": in the   *)
(* loop of listenStdin.  "exited": runListener has returned.               *)
ListenerPc == {"run", "wait", "stdin", "exited"}

ListenerTypeOK ==
    /\ inbound \in Seq(Datagram) /\ outbound \subseteq MailRecord
    /\ peerClosed \in BOOLEAN
    /\ listenerPc \in ListenerPc /\ batch \subseteq FdType
    /\ chunk \in Seq(Line)
    /\ overslept \in BOOLEAN /\ armed \in BOOLEAN
    /\ receivedConfirm \in BOOLEAN /\ toSendRegistered \in BOOLEAN
    /\ retries \in 0..Retries
    /\ refMsgId \in Int /\ refAuthId \in Int /\ srvMsgId \in Int
    /\ keepRunning \in BOOLEAN /\ sentBye \in BOOLEAN
    /\ confMail \in MailRecord

ListenerInit ==
    /\ inbound = <<>> /\ outbound = {} /\ peerClosed = FALSE
    /\ listenerPc = "run" /\ batch = {} /\ chunk = <<>>
    /\ overslept = FALSE /\ armed = FALSE
    /\ receivedConfirm = TRUE /\ toSendRegistered = TRUE
    /\ retries = 0
    /\ refMsgId = NoId /\ refAuthId = NoId /\ srvMsgId = NoId
    /\ keepRunning = TRUE /\ sentBye = FALSE
    /\ confMail = Blank

-----------------------------------------------------------------------------
(* The head of the loop.                                                   *)

(* The mutants of this and the other modules, each before the definition   *)
(* it is put in place of, are bugs the properties must catch.              *)
LoopConditionSkipsConfirm == keepRunning \/ ~sentBye
LoopConditionSkipsBye == keepRunning \/ ~receivedConfirm
WatchesToSendAlways == TRUE
WatchesToSendWhileRunning == receivedConfirm /\ keepRunning
ArmedOnce == ~receivedConfirm /\ ~overslept /\ retries = 0

AtLoopTop == process = "running" /\ listenerPc = "run" /\ batch = {}

LoopCondition == keepRunning \/ ~sentBye \/ ~receivedConfirm

(* The notification pipe is watched only while no mail is unconfirmed.     *)
WatchesToSend == receivedConfirm

(* The timeout is what the last wait left of it: it is negative, and the   *)
(* wait without end, when that wait measured longer.                       *)
Armed == ~receivedConfirm /\ ~overslept

LoopTop ==
    /\ AtLoopTop
    /\ LoopCondition
    /\ toSendRegistered' = WatchesToSend
    /\ armed' = Armed
    /\ listenerPc' = "wait"
    /\ UNCHANGED <<batch, chunk, overslept, mailboxVars, pipeVars, socketVars,
                   sendVars, stopVars, srvMsgId>>

LoopExit ==
    /\ AtLoopTop
    /\ ~LoopCondition
    /\ listenerPc' = "exited"
    /\ UNCHANGED <<batch, chunk, overslept, armed, toSendRegistered, mailboxVars,
                   pipeVars, socketVars, sendVars, stopVars, srvMsgId>>

(* Level triggered: a descriptor is ready while there is something to      *)
(* read, end of file included.                                             *)
Ready ==
    {fd \in FdType :
        \/ fd = "StdinPipe" /\ stdinPipe # <<>>
        \/ fd = "SocketPipe" /\ (inbound # <<>> \/ peerClosed)
        \/ fd = "ToSendPipe" /\ toSendPipe > 0 /\ toSendRegistered
        \/ fd = "SignalPipe" /\ signalPipe > 0}

Waiting == process = "running" /\ listenerPc = "wait"

EpollReady ==
    /\ Waiting
    /\ Ready # {}
    /\ batch' = Ready
    /\ overslept' \in Oversleeps
    /\ listenerPc' = "run"
    /\ UNCHANGED <<chunk, armed, toSendRegistered, mailboxVars, pipeVars,
                   socketVars, sendVars, stopVars, srvMsgId>>

MayRetryOnceMore == retries <= Retries
MayRetry == retries < Retries

(* The wait ends with nothing ready: send the unconfirmed mail again.      *)
EpollTimeout ==
    /\ Waiting
    /\ Ready = {}
    /\ armed
    /\ MayRetry
    /\ retries' = retries + 1
    /\ outbound' = outbound \cup {confMail}
    /\ overslept' = FALSE
    /\ listenerPc' = "run"
    /\ UNCHANGED <<batch, chunk, armed, toSendRegistered, mailboxVars, pipeVars,
                   inbound, peerClosed, receivedConfirm, refMsgId, refAuthId,
                   confMail, stopVars, srvMsgId>>

(* What throws in this thread ends in exit(1).                             *)
Exit1 ==
    /\ process' = "exit1"
    /\ UNCHANGED <<incomingMails, outgoingMails, toSendPipe, sequenceUDPNumber, nameOk>>

(* "Server not responding".                                                *)
EpollGiveUp ==
    /\ Waiting
    /\ Ready = {}
    /\ armed
    /\ ~MayRetry
    /\ Exit1
    /\ UNCHANGED listenerVars

-----------------------------------------------------------------------------
(* The descriptors of a batch are handled in the order epoll gives them,   *)
(* which can be any.                                                       *)
Handles(fd) ==
    /\ process = "running"
    /\ listenerPc = "run"
    /\ fd \in batch
    /\ batch' = batch \ {fd}

(* One read takes what the StdinListener has written so far, taken to be   *)
(* whole lines of less than 1024 bytes together.                           *)
ListenStdin ==
    /\ Handles("StdinPipe")
    /\ chunk' = stdinPipe
    /\ stdinPipe' = <<>>
    /\ listenerPc' = "stdin"
    /\ UNCHANGED <<overslept, armed, toSendRegistered, mailboxVars, signalPipe,
                   socketVars, sendVars, stopVars, srvMsgId>>

AtLine == process = "running" /\ listenerPc = "stdin"

NextLine ==
    /\ chunk' = Tail(chunk)
    /\ listenerPc' = IF Len(chunk) = 1 THEN "run" ELSE "stdin"

(* One line, handed over before the next is read: the FSM can answer it    *)
(* in between.                                                             *)
ListenStdinLine ==
    /\ AtLine
    /\ ~LineThrows(Head(chunk), nameOk)
    /\ NextLine
    /\ nameOk' = NameAfter(Head(chunk), nameOk)
    /\ IF LineMails(Head(chunk)) = {}
       THEN UNCHANGED incomingMails
       ELSE \E m \in LineMails(Head(chunk)) : AddMail(m)
    /\ UNCHANGED <<batch, overslept, armed, toSendRegistered, outgoingMails,
                   toSendPipe, sequenceUDPNumber, process, pipeVars, socketVars,
                   sendVars, stopVars, srvMsgId>>

ListenStdinThrows ==
    /\ AtLine
    /\ LineThrows(Head(chunk), nameOk)
    /\ Exit1
    /\ UNCHANGED listenerVars

(* An interrupt, or the end of the user's input, becomes an ERR of the     *)
(* client to itself; its constructor validates the display name.           *)
ListenSignal ==
    /\ Handles("SignalPipe")
    /\ nameOk
    /\ signalPipe' = signalPipe - 1
    /\ AddMail([Of("ERR") EXCEPT !.sigint = TRUE])
    /\ keepRunning' = FALSE
    /\ UNCHANGED <<listenerPc, chunk, overslept, armed, toSendRegistered,
                   outgoingMails, toSendPipe, sequenceUDPNumber, nameOk, process,
                   stdinPipe, socketVars, sendVars, sentBye, srvMsgId>>

ListenSignalThrows ==
    /\ Handles("SignalPipe")
    /\ ~nameOk
    /\ Exit1
    /\ signalPipe' = signalPipe - 1
    /\ UNCHANGED <<listenerPc, chunk, overslept, armed, toSendRegistered,
                   stdinPipe, socketVars, sendVars, stopVars, srvMsgId>>

AwaitConfirmKeepsMail(m) ==
    /\ receivedConfirm' = FALSE
    /\ refMsgId' = GetMessageID(m)
    /\ refAuthId' = IF m.type \in {"AUTH", "JOIN"} THEN GetMessageID(m) ELSE refAuthId
    /\ UNCHANGED confMail

(* Over UDP the mail is from now on the one that waits for its CONFIRM.    *)
AwaitConfirm(m) ==
    /\ receivedConfirm' = FALSE
    /\ refMsgId' = GetMessageID(m)
    /\ refAuthId' = IF m.type \in {"AUTH", "JOIN"} THEN GetMessageID(m) ELSE refAuthId
    /\ confMail' = m

(* Transmit the front of the outgoing queue.                               *)
ListenToSendPipe ==
    LET m == Head(outgoingMails) IN
    /\ Handles("ToSendPipe")
    /\ TakeOutgoingMail
    /\ sentBye' = (sentBye \/ m.type = "BYE")
    /\ keepRunning' = (keepRunning /\ m.type # "BYE")
    /\ outbound' = outbound \cup {m}
    /\ IF Protocol = "UDP"
       THEN AwaitConfirm(m)
       ELSE UNCHANGED <<receivedConfirm, refMsgId, confMail, refAuthId>>
    /\ UNCHANGED <<listenerPc, chunk, overslept, armed, toSendRegistered, retries,
                   incomingMails, sequenceUDPNumber, nameOk, process, pipeVars,
                   inbound, peerClosed, srvMsgId>>

(* send() on a connection the peer has closed can raise SIGPIPE, which     *)
(* the program leaves at its default.                                      *)
ListenToSendPipeBroken ==
    /\ Handles("ToSendPipe")
    /\ peerClosed
    /\ process' = "killed"
    /\ TakeOutgoingMail
    /\ UNCHANGED <<incomingMails, sequenceUDPNumber, nameOk, pipeVars, socketVars,
                   listenerPc, chunk, overslept, armed, toSendRegistered, sendVars,
                   stopVars, srvMsgId>>

-----------------------------------------------------------------------------
(* listenSocket over UDP: one datagram, by what becomes of it.             *)

Datagram1 == Head(inbound)
Mail1 == WriteUDPMail(Datagram1)

HandlesDatagram(types) ==
    /\ Handles("SocketPipe")
    /\ Protocol = "UDP"
    /\ Datagram1.type \in types
    /\ inbound' = Tail(inbound)
    /\ UNCHANGED <<listenerPc, chunk, overslept, armed, toSendRegistered, pipeVars,
                   peerClosed, refAuthId, confMail, stopVars>>

(* A validator refuses a field, or the datagram is empty.                  *)
ReceiveInvalid ==
    /\ HandlesDatagram({"INVALID"})
    /\ Exit1
    /\ UNCHANGED <<outbound, receivedConfirm, retries, refMsgId, srvMsgId>>

AwaitedAny(m) == ~receivedConfirm

(* The CONFIRM the Listener waits for.                                     *)
Awaited(m) == m.ref = refMsgId /\ ~receivedConfirm

ReceiveConfirm ==
    /\ HandlesDatagram({"CONFIRM"})
    /\ IF Awaited(Mail1)
       THEN receivedConfirm' = TRUE /\ retries' = 0 /\ refMsgId' = NoId
       ELSE UNCHANGED <<receivedConfirm, retries, refMsgId>>
    /\ UNCHANGED <<outbound, srvMsgId, mailboxVars>>

RepeatedButNotLast(m) == GetMessageID(m) < srvMsgId
RepeatedOneAhead(m) == GetMessageID(m) <= srvMsgId + 1
Repeated(m) == GetMessageID(m) <= srvMsgId

Stray(m) == m.type = "REPLY" /\ GetRefMessageID(m) # refAuthId

ConfirmsAgainNone(m) == FALSE

(* Of the mails already seen only a REPLY is confirmed again.              *)
ConfirmsAgain(m) == m.type = "REPLY"

ReceiveRepeated ==
    /\ HandlesDatagram(MessageType \ {"CONFIRM"})
    /\ Repeated(Mail1)
    /\ outbound' = IF ConfirmsAgain(Mail1)
                   THEN outbound \cup {ConfirmFor(GetMessageID(Mail1))} ELSE outbound
    /\ UNCHANGED <<receivedConfirm, retries, refMsgId, srvMsgId, mailboxVars>>

(* A REPLY to something other than the last AUTH or JOIN goes unconfirmed. *)
ReceiveStray ==
    /\ HandlesDatagram({"REPLY"})
    /\ ~Repeated(Mail1)
    /\ Stray(Mail1)
    /\ UNCHANGED <<outbound, receivedConfirm, retries, refMsgId, srvMsgId, mailboxVars>>

ReceiveFresh ==
    /\ HandlesDatagram(MessageType \ {"CONFIRM"})
    /\ ~Repeated(Mail1)
    /\ ~Stray(Mail1)
    /\ srvMsgId' = GetMessageID(Mail1)
    /\ outbound' = outbound \cup {ConfirmFor(GetMessageID(Mail1))}
    /\ AddMail(Mail1)
    /\ UNCHANGED <<receivedConfirm, retries, refMsgId, outgoingMails, toSendPipe,
                   sequenceUDPNumber, nameOk, process>>

-----------------------------------------------------------------------------
(* listenSocket over TCP.  One recv can return several texts: writeTCPMail *)
(* parses the first, and the rest are lost with the buffer.                *)

HandlesText(n) ==
    /\ Handles("SocketPipe")
    /\ Protocol = "TCP"
    /\ inbound' = SubSeq(inbound, n + 1, Len(inbound))
    /\ UNCHANGED <<listenerPc, chunk, overslept, armed, toSendRegistered, pipeVars,
                   outbound, peerClosed, sendVars, sentBye, srvMsgId>>

(* A malformed text stops the loop, and its mail is queued all the same.   *)
ReceiveText ==
    \E n \in 1..Len(inbound) :
        /\ HandlesText(n)
        /\ Datagram1.type # "INVALID"
        /\ \E m \in WriteTCPMail(Datagram1) : AddMail(m)
        /\ keepRunning' = (keepRunning /\ Datagram1.type # "MALFORMED")
        /\ UNCHANGED <<outgoingMails, toSendPipe, sequenceUDPNumber, nameOk, process>>

ReceiveInvalidText ==
    \E n \in 1..Len(inbound) :
        /\ HandlesText(n)
        /\ Datagram1.type = "INVALID"
        /\ Exit1
        /\ UNCHANGED keepRunning

EofMail == [Of("UNKNOWN") EXCEPT !.bare = TRUE]

(* recv returns 0, in every loop from now on, and the empty text becomes   *)
(* an UNKNOWN mail each time.  The FSM reads at most one of them, so the   *)
(* model keeps one in the queue.                                           *)
ReceiveEof ==
    /\ inbound = <<>>
    /\ HandlesText(0)
    /\ IF \E i \in 1..Len(incomingMails) : incomingMails[i] = EofMail
       THEN UNCHANGED incomingMails
       ELSE AddMail(EofMail)
    /\ UNCHANGED <<outgoingMails, toSendPipe, sequenceUDPNumber, nameOk, process,
                   keepRunning>>

(* The peer has reset the connection: recv returns -1.                     *)
ReceiveReset ==
    /\ Handles("SocketPipe")
    /\ peerClosed
    /\ Exit1
    /\ UNCHANGED <<listenerPc, chunk, overslept, armed, toSendRegistered, pipeVars,
                   socketVars, sendVars, stopVars, srvMsgId>>

-----------------------------------------------------------------------------
ReceiveUdp ==
    ReceiveInvalid \/ ReceiveConfirm \/ ReceiveRepeated \/ ReceiveStray \/ ReceiveFresh

ReceiveTcp == ReceiveText \/ ReceiveInvalidText \/ ReceiveEof \/ ReceiveReset

ListenerNext ==
    \/ LoopTop \/ LoopExit
    \/ EpollReady \/ EpollTimeout \/ EpollGiveUp
    \/ ListenStdin \/ ListenStdinLine \/ ListenStdinThrows
    \/ ListenSignal \/ ListenSignalThrows
    \/ ListenToSendPipe \/ ListenToSendPipeBroken
    \/ ReceiveUdp \/ ReceiveTcp

-----------------------------------------------------------------------------
(* listenStdin, listenSocket, listenToSendPipe and listenSignal read from  *)
(* blocking descriptors, and getOutgoingMail from a queue it does not look *)
(* at first: what epoll reported is still there when its turn in the batch *)
(* comes, and a byte in the ToSendPipe is only taken up while no mail      *)
(* awaits its CONFIRM.                                                     *)
NoBlockingRead ==
    /\ "StdinPipe" \in batch => stdinPipe # <<>>
    /\ "SocketPipe" \in batch => inbound # <<>> \/ peerClosed
    /\ "SignalPipe" \in batch => signalPipe > 0
    /\ "ToSendPipe" \in batch =>
           toSendPipe > 0 /\ outgoingMails # <<>> /\ receivedConfirm
    /\ listenerPc = "stdin" => chunk # <<>>

(* listenToSendPipe overwrites confMail and refMsgId.  Although a batch of *)
(* epoll events is handled in any order, it does so only when the mail     *)
(* before has been confirmed: none is dropped before its CONFIRM.          *)
OneUnconfirmed == [][confMail' # confMail => receivedConfirm]_listenerVars

(* While a CONFIRM is awaited, the identifier it must carry is that of the *)
(* mail a timeout would send again.                                        *)
AwaitsWhatItRepeats == ~receivedConfirm => refMsgId = GetMessageID(confMail)
=============================================================================
