------------------------------ MODULE UdpLink -------------------------------
(***************************************************************************)
(* The Listener and a server over UDP, with a network between them that    *)
(* loses, repeats and reorders datagrams.  The FSM is left out: a producer *)
(* calls sendMail, and a consumer waitMail, as it would.  The server is    *)
(* the one of src/tests/server.py, which confirms whatever it hears; that  *)
(* it sends again what has not been confirmed, and knows a repeated mail   *)
(* by its identifier, is taken from what the client expects of its peer.   *)
(***************************************************************************)
EXTENDS Listener, FiniteSets, SequencesExt

CONSTANTS
    SentTypes,        \* the types of the mails to send, in their order
    ServerTypes,      \* the types of the server's mails, in their order
    ServerWindow,     \* how many of them it leaves unconfirmed at a time
    SocketBuffer      \* bound on the datagrams waiting in the socket

ASSUME SentTypesAssumption ==
    SentTypes \in Seq(MessageType \ {"CONFIRM"}) /\ Len(SentTypes) < IdModulus
ASSUME ServerTypesAssumption == ServerTypes \in Seq(MessageType \ {"CONFIRM"})
ASSUME LinkBoundsAssumption == ServerWindow \in Nat /\ SocketBuffer \in Nat

VARIABLES
    toClient,      \* datagrams under way to the client
    heard,         \* identifiers of the client's mails, as first received
    said,          \* the server's mails sent at least once, in order
    confirmed,     \* identifiers of those the client has confirmed
    handed         \* identifiers of the server's mails the FSM has taken

linkVars == <<toClient, heard, said, confirmed, handed>>
vars == <<mailboxVars, listenerVars, linkVars>>

Init ==
    /\ MailBoxInit /\ ListenerInit
    /\ toClient = {} /\ heard = <<>> /\ said = <<>> /\ confirmed = {} /\ handed = <<>>

LinkTypeOK ==
    /\ MailBoxTypeOK /\ ListenerTypeOK
    /\ toClient \subseteq Datagram
    /\ heard \in Seq(Nat) /\ handed \in Seq(Nat)
    /\ said \in Seq(Datagram) /\ Len(said) <= Len(ServerTypes)
    /\ confirmed \subseteq Nat

-----------------------------------------------------------------------------
(* The two sides of the MailBox.                                           *)

(* sendMail, its push and its byte in one step.                            *)
Produce ==
    /\ process = "running"
    /\ sequenceUDPNumber < Len(SentTypes)
    /\ PushMail(Of(SentTypes[sequenceUDPNumber + 1]))
    /\ NotifyListener
    /\ UNCHANGED <<incomingMails, nameOk, process, listenerVars, linkVars>>

Consume ==
    /\ process = "running"
    /\ PopMail
    /\ handed' = Append(handed, GetMessageID(Head(incomingMails)))
    /\ UNCHANGED <<outgoingMails, toSendPipe, sequenceUDPNumber, nameOk, process,
                   listenerVars, toClient, heard, said, confirmed>>

-----------------------------------------------------------------------------
(* The network.  A datagram to the client is lost when it is sent, one to  *)
(* the server later; what arrives can still be under way and arrive again, *)
(* and nothing arrives in any particular order.                            *)
CarriedOrLost(d) == toClient' \in {toClient, toClient \cup {d}}

Rest(S, x) == {S, S \ {x}}

unchangedByNetwork ==
    <<mailboxVars, pipeVars, peerClosed, loopVars, sendVars, stopVars, srvMsgId>>

LoseToServer ==
    /\ \E m \in outbound : outbound' = outbound \ {m}
    /\ UNCHANGED <<unchangedByNetwork, inbound, linkVars>>

DeliverToClient(d) ==
    /\ Len(inbound) < SocketBuffer
    /\ d \in toClient
    /\ inbound' = Append(inbound, d)
    /\ toClient' \in Rest(toClient, d)
    /\ UNCHANGED <<unchangedByNetwork, outbound, heard, said, confirmed, handed>>

-----------------------------------------------------------------------------
(* The server.                                                             *)

Wire(type, id, ref) == [type |-> type, id |-> id, ref |-> ref, result |-> TRUE]

Requests == {i \in 1..Len(heard) : SentTypes[heard[i] + 1] \in {"AUTH", "JOIN"}}
Replies == {i \in 1..Len(said) : said[i].type = "REPLY"}

(* The AUTHs and JOINs it has heard are answered one after the other.      *)
RefFor(type) ==
    IF type = "REPLY"
    THEN {heard[i] : i \in {k \in Requests :
              Cardinality({j \in Requests : j < k}) = Cardinality(Replies)}}
    ELSE {NoId}

Unconfirmed == {id \in 0..(Len(said) - 1) : id \notin confirmed}

ServerHears ==
    \E m \in outbound :
        /\ outbound' \in Rest(outbound, m)
        /\ m.type # "CONFIRM"
        /\ heard' = IF Contains(heard, m.id) THEN heard ELSE Append(heard, m.id)
        /\ CarriedOrLost(Wire("CONFIRM", NoId, m.id))
        /\ UNCHANGED <<unchangedByNetwork, inbound, said, confirmed, handed>>

ServerConfirmed(id) ==
    /\ ConfirmFor(id) \in outbound
    /\ outbound' \in Rest(outbound, ConfirmFor(id))
    /\ confirmed' = confirmed \cup {id}
    /\ UNCHANGED <<unchangedByNetwork, inbound, toClient, heard, said, handed>>

ServerSays ==
    LET id == Len(said)
        type == ServerTypes[id + 1]
    IN  /\ id < Len(ServerTypes)
        /\ Cardinality(Unconfirmed) < ServerWindow
        /\ \E ref \in RefFor(type) :
               /\ said' = Append(said, Wire(type, id, ref))
               /\ CarriedOrLost(Wire(type, id, ref))
        /\ UNCHANGED <<unchangedByNetwork, inbound, outbound, heard, confirmed, handed>>

(* A repetition that is lost as well changes nothing.                      *)
ServerRepeats(id) ==
    /\ id \in Unconfirmed
    /\ toClient' = toClient \cup {said[id + 1]}
    /\ UNCHANGED <<unchangedByNetwork, inbound, outbound, heard, said, confirmed, handed>>

-----------------------------------------------------------------------------
ServerId == 0..(Len(ServerTypes) - 1)

Client == ListenerNext /\ UNCHANGED linkVars

Network == LoseToServer \/ \E d \in toClient : DeliverToClient(d)

Server ==
    \/ ServerHears
    \/ ServerSays
    \/ \E id \in ServerId : ServerConfirmed(id) \/ ServerRepeats(id)

Next == Produce \/ Consume \/ Client \/ Network \/ Server

Spec == Init /\ [][Next]_vars

DeliverServerMail(id) ==
    \E d \in toClient : d.type # "CONFIRM" /\ d.id = id /\ DeliverToClient(d)

(* The client's threads run.  What is sent again and again gets through in *)
(* the end, in both directions: WF of ServerRepeats is this, too, as its   *)
(* lost repetitions are no steps.                                          *)
FairSpec ==
    /\ Spec
    /\ WF_vars(Client) /\ WF_vars(Consume)
    /\ \A id \in ServerId :
           /\ WF_vars(ServerRepeats(id))
           /\ SF_vars(DeliverServerMail(id))
           /\ SF_vars(ServerConfirmed(id))

-----------------------------------------------------------------------------
Ids(mails) == [i \in 1..Len(mails) |-> GetMessageID(mails[i])]

(* The mails the server has not heard of yet: the one that awaits its      *)
(* CONFIRM, if it has not arrived, and those in the outgoing queue.        *)
Pending == IF ~receivedConfirm /\ ~Contains(heard, refMsgId) THEN <<refMsgId>> ELSE <<>>
Unheard == Pending \o Ids(outgoingMails)

(* listenToSendPipe, the CONFIRM case of listenSocket and the retry in     *)
(* runListener: stop-and-wait makes a reliable queue of the network.       *)
Fifo == INSTANCE ReliableFifo WITH Item <- 0..(IdModulus - 1), queue <- Unheard,
                                   delivered <- heard
IsReliableFifo == Fifo!Spec

(* What the FSM has been or is about to be given of the server's mails.    *)
Given == handed \o Ids(incomingMails)

(* listenSocket keeps only the last identifier it has seen.  A server that *)
(* waits for each CONFIRM still gets every mail to the FSM, once and in    *)
(* order.                                                                  *)
NothingSkipped == Given = [i \in 1..(srvMsgId + 1) |-> i - 1]

(* A CONFIRM tells the server that its mail has been given to the FSM.     *)
ConfirmedIsGiven == \A id \in confirmed : Contains(Given, id)

(* The REPLY, stray by now, is not to the last request.                    *)
AnswersAnother(id) == said[id + 1].ref # refAuthId

(* listenSocket: a REPLY that the server repeats is confirmed in the end,  *)
(* although CONFIRMs are lost, or the client is gone; unless the client    *)
(* has made another request before it reads the REPLY, which is then stray *)
(* and never confirmed.                                                    *)
ReplyConfirmed ==
    \A id \in {i \in ServerId : ServerTypes[i + 1] = "REPLY"} :
        LET Said == Len(said) > id
            Settled == id \in confirmed \/ process # "running" \/ AnswersAnother(id)
        IN  Said ~> (Said /\ Settled)
=============================================================================
