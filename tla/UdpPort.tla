------------------------------- MODULE UdpPort ------------------------------
(***************************************************************************)
(* UdpProtocol::receiveData (src/src/net.cpp) turns to the port that the   *)
(* datagram it reads came from, before anybody has looked at it, and       *)
(* sendData knows of no other.  What is sent is what the FSM makes of the  *)
(* user, of interrupts and of answers; the Listener transmits one mail at  *)
(* a time, and repeats it until it is confirmed.                           *)
(*                                                                         *)
(* The server hears an AUTH at a port everybody knows, and takes the       *)
(* client up at a port of its own; it confirms a mail from the port it has *)
(* heard it at.  The network keeps the order of the datagrams and may lose *)
(* them.  The client's confirmations, and the server's repetitions, go the *)
(* way of the other datagrams and are left out.                            *)
(*                                                                         *)
(* Connection makes an instance of this module, and has the assumptions on *)
(* its constants.                                                          *)
(***************************************************************************)
EXTENDS Naturals, Sequences

CONSTANTS
    MaxMails,     \* bound on the client's mails
    MaxSaid,      \* bound on the server's own messages
    MaxUnderway   \* bound on the datagrams under way each way

Port == {"known", "own"}
Chat == {"JOIN", "MSG"}

VARIABLES
    port,              \* UdpProtocol::port and server_addr
    retries,           \* UdpProtocol::retries, as the command line has set it
    state,             \* FSM::state
    outgoing,          \* the types of the mails in MailBox::outgoingMails
    confMail,          \* Listener::confMail: its type and number, from 1 on
    receivedConfirm,   \* Listener::receivedConfirm
    repeats,           \* Listener::retries
    toServer,          \* under way: the mail, and the port it was sent to
    toClient,          \* under way: the port each was sent from, and the
                       \* number of the mail it confirms, or 0
    moved,             \* the server has taken the client up
    said,              \* how many messages it has sent from its own port
    learned,           \* the client has received something from there
    asked,             \* how many AUTHs have been sent to the known port
    returned           \* how often the client has turned back to that port

clientVars == <<state, outgoing, confMail, receivedConfirm, repeats>>
historyVars == <<learned, asked, returned>>
vars == <<port, clientVars, toServer, toClient, moved, said, historyVars>>

Init ==
    /\ port = "known"
    /\ state = "START" /\ outgoing = <<>>
    /\ confMail = [type |-> "NONE", number |-> 0]
    /\ receivedConfirm = TRUE /\ repeats = 0
    /\ toServer = <<>> /\ toClient = <<>>
    /\ moved = FALSE /\ said = 0
    /\ learned = FALSE /\ asked = 0 /\ returned = 0

Room(s) == Len(s) < MaxUnderway

-----------------------------------------------------------------------------
(* FSM::run, whatever makes it say so.                                     *)
Says(type, from, to) ==
    /\ state \in from
    /\ confMail.number + Len(outgoing) < MaxMails
    /\ state' = to
    /\ outgoing' = Append(outgoing, type)
    /\ UNCHANGED <<port, confMail, receivedConfirm, repeats, toServer, toClient, moved,
                   said, historyVars>>

FsmAuth == Says("AUTH", {"START", "AUTH"}, "AUTH")
FsmChat == \E type \in Chat : Says(type, {"OPEN"}, "OPEN")
FsmErr == Says("ERR", {"START", "AUTH", "OPEN"}, "ERROR")
FsmBye == Says("BYE", {"START", "AUTH", "OPEN", "ERROR"}, "END")

(* A REPLY or a BYE of the server, which come from its own port, is among  *)
(* what the client has received.                                           *)
FsmHears ==
    /\ learned
    /\ \/ state = "AUTH" /\ state' = "OPEN"
       \/ state = "OPEN" /\ state' = "END"
    /\ UNCHANGED <<port, outgoing, confMail, receivedConfirm, repeats, toServer, toClient,
                   moved, said, historyVars>>

Fsm == FsmAuth \/ FsmChat \/ FsmErr \/ FsmBye \/ FsmHears

(* sendData: to the current port.                                          *)
Sends(m) ==
    /\ Room(toServer)
    /\ toServer' = Append(toServer, [type |-> m.type, number |-> m.number, port |-> port])
    /\ asked' = asked + IF m.type = "AUTH" /\ port = "known" THEN 1 ELSE 0
    /\ UNCHANGED <<port, state, toClient, moved, said, learned, returned>>

(* listenToSendPipe: the next mail, once the last one is confirmed.        *)
Transmit ==
    /\ receivedConfirm
    /\ outgoing # <<>>
    /\ outgoing' = Tail(outgoing)
    /\ confMail' = [type |-> Head(outgoing), number |-> confMail.number + 1]
    /\ receivedConfirm' = FALSE
    /\ UNCHANGED repeats
    /\ Sends(confMail')

(* A wait has timed out.                                                   *)
Repeat ==
    /\ ~receivedConfirm
    /\ repeats < retries
    /\ repeats' = repeats + 1
    /\ UNCHANGED <<outgoing, confMail, receivedConfirm>>
    /\ Sends(confMail)

(* Mutant of the next definition.                                          *)
PortAfterStays(from) == port

(* receiveData, and connectToServer when the port is another one.          *)
PortAfter(from) == from

(* receiveData, and then listenSocket, to which the port means nothing.    *)
ClientReceives ==
    /\ toClient # <<>>
    /\ toClient' = Tail(toClient)
    /\ LET d == Head(toClient)
           confirms == d.ref = confMail.number /\ ~receivedConfirm
       IN  /\ port' = PortAfter(d.port)
           /\ receivedConfirm' = (receivedConfirm \/ confirms)
           /\ repeats' = IF confirms THEN 0 ELSE repeats
           /\ learned' = (learned \/ d.port = "own")
           /\ returned' = returned + IF port = "own" /\ port' = "known" THEN 1 ELSE 0
    /\ UNCHANGED <<state, outgoing, confMail, toServer, moved, said, asked>>

Client == Fsm \/ Transmit \/ Repeat \/ ClientReceives

-----------------------------------------------------------------------------
(* At the known port the server hears nothing but AUTHs.                   *)
ServerHears ==
    /\ toServer # <<>>
    /\ toServer' = Tail(toServer)
    /\ LET d == Head(toServer)
       IN  /\ d.port = "own" \/ d.type = "AUTH"
           /\ toClient' = Append(toClient, [port |-> d.port, ref |-> d.number])
    /\ Room(toClient)
    /\ moved' = TRUE
    /\ UNCHANGED <<port, clientVars, said, historyVars>>

(* The REPLY, and what follows.                                            *)
ServerSays ==
    /\ moved
    /\ said < MaxSaid
    /\ Room(toClient)
    /\ said' = said + 1
    /\ toClient' = Append(toClient, [port |-> "own", ref |-> 0])
    /\ UNCHANGED <<port, clientVars, toServer, moved, historyVars>>

(* Lost, or come to a port where nobody hears it.                          *)
LoseToServer ==
    /\ toServer # <<>>
    /\ toServer' = Tail(toServer)
    /\ UNCHANGED <<port, clientVars, toClient, moved, said, historyVars>>

LoseToClient ==
    /\ toClient # <<>>
    /\ toClient' = Tail(toClient)
    /\ UNCHANGED <<port, clientVars, toServer, moved, said, historyVars>>

Environment == ServerHears \/ ServerSays \/ LoseToServer \/ LoseToClient

Next == Client \/ Environment

Spec == Init /\ [][Next]_vars

-----------------------------------------------------------------------------
SentTo(p, types) == \E i \in 1..Len(toServer) : toServer[i].port = p /\ toServer[i].type \in types

(* receiveData: a client that the server has taken up is led back to the   *)
(* known port less often than it has sent AUTHs there, repetitions among   *)
(* them; if that was one, it stays with the server's own port, and         *)
(* everything it says in the conversation goes there.                      *)
SendsWhereItIsHeard ==
    /\ learned => returned < asked
    /\ asked = 1 => (learned => port = "own") /\ ~SentTo("known", Chat)
=============================================================================
