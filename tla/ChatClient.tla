----------------------------- MODULE ChatClient -----------------------------
(***************************************************************************)
(* The whole client (src/main.cpp): the main thread, which runs the FSM    *)
(* and then stops the others; the Listener and StdinListener threads; the  *)
(* signal handler; and around them a user and a peer that do as they like. *)
(***************************************************************************)
EXTENDS FSM, Listener, StdinListener

CONSTANTS
    Lines,          \* what the user types
    Datagrams,      \* what the peer sends
    SocketBuffer,   \* bound on the datagrams waiting in the socket
    MaxLines,       \* bound on the lines typed
    MaxArrivals,    \* bound on the datagrams that arrive
    MaxSignals      \* bound on interrupts

ASSUME LinesAssumption == Lines \subseteq Line
ASSUME DatagramsAssumption == Datagrams \subseteq Datagram
ASSUME BoundsAssumption ==
    SocketBuffer \in Nat /\ MaxLines \in Nat /\ MaxArrivals \in Nat /\ MaxSignals \in Nat

VARIABLES
    mainPc,                      \* where the main thread is in runMain
    lines, arrivals, signals     \* how often the environment has acted

envVars == <<lines, arrivals, signals>>
vars == <<mailboxVars, fsmVars, listenerVars, stdinVars, mainPc, envVars>>

MainPc == {"fsm", "stopStdin", "stopListener"}

TypeOK ==
    /\ MailBoxTypeOK /\ FsmTypeOK /\ ListenerTypeOK /\ StdinTypeOK
    /\ mainPc \in MainPc
    /\ lines \in 0..MaxLines /\ arrivals \in 0..MaxArrivals /\ signals \in 0..MaxSignals

Init ==
    /\ MailBoxInit /\ FsmInit /\ ListenerInit /\ StdinInit
    /\ mainPc = "fsm"
    /\ lines = 0 /\ arrivals = 0 /\ signals = 0

-----------------------------------------------------------------------------
(* The threads.                                                            *)

(* writeMail(ERR) reads the display name that listenStdin may be assigning *)
(* at that moment: the string read is then any.                            *)
ValidNames ==
    IF listenerPc = "stdin" /\ Head(chunk) \in NameLines THEN BOOLEAN ELSE {nameOk}

Fsm == FsmNext(ValidNames) /\ UNCHANGED <<listenerVars, stdinVars, mainPc, envVars>>

(* /print copies the queue of incoming mails without the mutex.  The copy, *)
(* made while waitMail takes the front out of it, can be of a mail that is *)
(* no more.                                                                *)
FsmPops == fsmPc = "wait" /\ state \in Chatting /\ incomingMails # <<>>

PrintRaces ==
    /\ AtLine
    /\ Head(chunk) = "print"
    /\ FsmPops
    /\ process' = "killed"
    /\ UNCHANGED <<incomingMails, outgoingMails, toSendPipe, sequenceUDPNumber, nameOk,
                   fsmVars, listenerVars, stdinVars, mainPc, envVars>>

ListenerThread == ListenerNext /\ UNCHANGED <<fsmVars, stdinVars, mainPc, envVars>>

StdinStep ==
    /\ StdinTimeout
    /\ UNCHANGED <<fsmVars, socketVars, loopVars, sendVars, stopVars, srvMsgId,
                   mainPc, envVars>>

(* After FSM::run, or while its exception unwinds runMain: stop, or the    *)
(* destructor, of the StdinListener.                                       *)
MainStopStdin ==
    /\ process = "running"
    /\ mainPc = "fsm"
    /\ FsmLeft
    /\ stdinKeep' = FALSE
    /\ mainPc' = "stopStdin"
    /\ UNCHANGED <<mailboxVars, fsmVars, listenerVars, stdinPc, envVars>>

(* Then Listener::stop; but ~Listener only waits for the thread.           *)
StopsListener == fsmPc # "threw"

MainStopListener ==
    /\ process = "running"
    /\ mainPc = "stopStdin"
    /\ stdinPc = "done"
    /\ keepRunning' = (keepRunning /\ ~StopsListener)
    /\ mainPc' = "stopListener"
    /\ UNCHANGED <<mailboxVars, fsmVars, pipeVars, socketVars, loopVars, sendVars,
                   sentBye, srvMsgId, stdinVars, envVars>>

MainExit ==
    /\ process = "running"
    /\ mainPc = "stopListener"
    /\ listenerPc = "exited"
    /\ process' = IF fsmPc = "threw" THEN "exit1" ELSE "exit0"
    /\ UNCHANGED <<incomingMails, outgoingMails, toSendPipe, sequenceUDPNumber, nameOk,
                   fsmVars, listenerVars, stdinVars, mainPc, envVars>>

Main == MainStopStdin \/ MainStopListener \/ MainExit

-----------------------------------------------------------------------------
(* The environment.                                                        *)

UserTypes ==
    /\ lines < MaxLines
    /\ lines' = lines + 1
    /\ \E line \in Lines : StdinLine(line)
    /\ UNCHANGED <<fsmVars, socketVars, loopVars, sendVars, stopVars, srvMsgId,
                   mainPc, arrivals, signals>>

UserEof ==
    /\ signals < MaxSignals
    /\ signals' = signals + 1
    /\ StdinEof
    /\ UNCHANGED <<fsmVars, socketVars, loopVars, sendVars, stopVars, srvMsgId,
                   mainPc, lines, arrivals>>

(* handleSignal runs on any of the threads.  On one that is in select or   *)
(* epoll_wait it makes the call return -1: the StdinListener then leaves   *)
(* its loop, the Listener goes round its own.                              *)
Sigint ==
    /\ process = "running"
    /\ signals < MaxSignals
    /\ signals' = signals + 1
    /\ signalPipe' = signalPipe + 1
    /\ \/ UNCHANGED <<stdinPc, listenerPc, overslept>>
       \/ stdinPc = "select" /\ stdinPc' = "done" /\ UNCHANGED <<listenerPc, overslept>>
       \/ /\ listenerPc = "wait"
          /\ listenerPc' = "run"
          /\ overslept' \in Oversleeps
          /\ UNCHANGED stdinPc
    /\ UNCHANGED <<mailboxVars, fsmVars, stdinPipe, socketVars, batch, chunk, armed,
                   toSendRegistered, sendVars, stopVars, srvMsgId, stdinKeep, mainPc,
                   lines, arrivals>>

(* Anything the peer or the network brings, in any order, any number of    *)
(* times.                                                                  *)
Arrive ==
    /\ process = "running"
    /\ arrivals < MaxArrivals
    /\ arrivals' = arrivals + 1
    /\ ~peerClosed
    /\ Len(inbound) < SocketBuffer
    /\ \E d \in Datagrams : inbound' = Append(inbound, d)
    /\ UNCHANGED <<mailboxVars, fsmVars, pipeVars, outbound, peerClosed, loopVars,
                   sendVars, stopVars, srvMsgId, stdinVars, mainPc, lines, signals>>

PeerClose ==
    /\ process = "running"
    /\ Protocol = "TCP"
    /\ ~peerClosed
    /\ peerClosed' = TRUE
    /\ UNCHANGED <<mailboxVars, fsmVars, pipeVars, inbound, outbound, loopVars,
                   sendVars, stopVars, srvMsgId, stdinVars, mainPc, envVars>>

Environment == UserTypes \/ UserEof \/ Sigint \/ Arrive \/ PeerClose

Next == Fsm \/ ListenerThread \/ PrintRaces \/ StdinStep \/ Main \/ Environment

Spec == Init /\ [][Next]_vars

(* Every thread that can run is scheduled.  Nothing is asked of the user   *)
(* or the peer.                                                            *)
Fairness == WF_vars(Fsm) /\ WF_vars(ListenerThread) /\ WF_vars(StdinStep) /\ WF_vars(Main)

FairSpec == Spec /\ Fairness

-----------------------------------------------------------------------------
(* Safety.                                                                 *)

(* sendMail pushes a mail and only then writes its byte; listenToSendPipe  *)
(* takes a byte and then a mail, without looking whether there is one.     *)
(* The two counts differ by the mail whose byte is still to be written, so *)
(* no byte is ever taken for a mail that is not there.                     *)
NotifyMatchesOutgoing ==
    Len(outgoingMails) = toSendPipe + (IF fsmPc = "notify" THEN 1 ELSE 0)

(* The mails on their way out of the FSM, the oldest first.                *)
Outgoing == outgoingMails \o (IF fsmPc = "push" THEN <<mail>> ELSE <<>>)

(* fsm.cpp: only BYE follows an ERR, and nothing follows a BYE, however    *)
(* much more the user types or the peer sends in the meantime.             *)
ClosingSequence ==
    /\ \A i \in 1..Len(Outgoing) : \A j \in 1..(i - 1) :
           /\ Outgoing[j].type # "BYE"
           /\ Outgoing[j].type = "ERR" => Outgoing[i].type = "BYE"
    /\ sentBye => Outgoing = <<>>

(* fsm.cpp: no JOIN or MSG goes on the wire unless an AUTH went before it, *)
(* whatever the peer sends and in whatever order.                          *)
ChatAfterAuth ==
    (\E m \in outbound : m.type \in {"JOIN", "MSG"})
        => \E m \in outbound : m.type = "AUTH"

(* main.cpp returns 0 only when nothing the FSM wanted to say is left, BYE *)
(* was the last of it, and (UDP) the peer has confirmed it.                *)
CleanExit ==
    process = "exit0" =>
        /\ sentBye /\ receivedConfirm
        /\ Outgoing = <<>> /\ toSendPipe = 0
        /\ \E m \in outbound : m.type = "BYE"

FromServer(m) == m.id # NoId

(* listenSocket over UDP: however the datagrams of the peer are repeated   *)
(* and reordered, the FSM gets each at most once and in the order of their *)
(* identifiers, and no CONFIRM is sent for one beyond the last of them.    *)
ServerMailsInOrder ==
    Protocol = "UDP" =>
        /\ \A i \in 1..Len(incomingMails) : FromServer(incomingMails[i]) =>
               /\ incomingMails[i].id <= srvMsgId
               /\ \A j \in 1..(i - 1) : incomingMails[j].id < incomingMails[i].id
        /\ \A m \in outbound : m.type = "CONFIRM" => m.ref <= srvMsgId

(* handleSignal and listenSignal: an interrupt (or the end of the input)   *)
(* is not forgotten on its way through the signal pipe, the MailBox and    *)
(* the FSM, whatever else these are busy with: until the FSM has ended     *)
(* the conversation, one of them holds it or is acting on it.              *)
InterruptKept ==
    signals > 0 /\ process = "running" =>
        \/ signalPipe > 0
        \/ \E i \in 1..Len(incomingMails) : incomingMails[i].sigint
        \/ fsmPc \in {"push", "notify"} /\ mail.type \in {"ERR", "BYE"}
        \/ state \in {"ERROR", "END"}
        \/ fsmPc = "threw"

(* epoll_wait without a timeout and with nothing to read: only another     *)
(* thread or the peer can wake the Listener.                               *)
Asleep == Waiting /\ Ready = {} /\ ~armed

(* runListener goes to sleep only when it has nothing left to do: every    *)
(* mail is sent and confirmed but the one whose byte sendMail is about to  *)
(* write, and that was no BYE.  The exception is the unconfirmed mail of   *)
(* which the last wait took longer than the timeout.                       *)
SleepsOnlyIdle ==
    Asleep =>
        \/ /\ receivedConfirm /\ ~sentBye
           /\ Len(outgoingMails) = (IF fsmPc = "notify" THEN 1 ELSE 0)
        \/ ~receivedConfirm /\ overslept

(* The server's BYE has taken the FSM to END: it says no BYE of its own,   *)
(* for which the Listener waits (see EndEnds).                             *)
HungUp == state = "END" /\ fsmPc = "wait" /\ ~sentBye /\ Outgoing = <<>>

(* Listener::stop clears keepRunning and joins, without waking the thread. *)
(* That thread is asleep for good only after the server's BYE, after an    *)
(* exception (it is then not even told to stop), or with such a mail.      *)
JoinReturns ==
    mainPc = "stopListener" /\ Asleep => HungUp \/ fsmPc = "threw" \/ overslept

-----------------------------------------------------------------------------
(* Liveness, under FairSpec.                                               *)

Ended == process # "running"

(* listeners.cpp: an unconfirmed mail is confirmed, or the client gives up *)
(* and exits; it is not left waiting for good.                             *)
UnconfirmedResolved == ~receivedConfirm ~> (receivedConfirm \/ Ended)

(* Every mail the FSM has queued leaves the queue, or the client exits.    *)
OutgoingDrains == (outgoingMails # <<>>) ~> (outgoingMails = <<>> \/ Ended)

(* An interrupt (or the end of the input) ends the client, if no wait of   *)
(* the Listener has measured too long; unless the server's BYE was there   *)
(* before it (the FSM then reads no mail of the interrupt, and the         *)
(* Listener waits for a BYE of its own), or an exception has left the FSM: *)
(* ~Listener then joins a thread that nobody has told to stop.             *)
SignalEnds == (signals > 0) ~> (Ended \/ fsmPc = "threw" \/ HungUp)

(* Once the FSM has reached END the client ends, whatever the three        *)
(* threads are at, if no wait has measured too long; but for the client    *)
(* that the server's BYE has hung up, with all it had to say being said.   *)
OnlyByeHangs == (state = "END") ~> (Ended \/ HungUp)

(* Once the FSM has reached END the client ends.                           *)
EndEnds == (state = "END") ~> Ended

(* TCP: when the peer has closed the connection the client ends, unless    *)
(* the FSM has hung up or thrown before.                                   *)
PeerCloseEnds == peerClosed ~> (Ended \/ fsmPc = "threw" \/ HungUp)
=============================================================================
