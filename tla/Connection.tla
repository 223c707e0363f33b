------------------------------ MODULE Connection ----------------------------
(***************************************************************************)
(* From the command line to the datagrams: the arguments that StartUp has  *)
(* parsed make the protocol object of NetworkConnection (src/src/net.cpp), *)
(* and a UdpProtocol starts with their port, which UdpPort calls the known *)
(* one, and follows the server from there; the number of its repetitions   *)
(* is their retries.                                                       *)
(***************************************************************************)
EXTENDS StartUp

CONSTANTS
    MaxFollowed,  \* bound on the options of a client whose datagrams are followed
    MaxMails,     \* bound on the client's mails
    MaxSaid,      \* bound on the server's own messages
    MaxUnderway   \* bound on the datagrams under way each way

ASSUME TrafficAssumption == {MaxFollowed, MaxMails, MaxSaid, MaxUnderway} \subseteq Nat

VARIABLES
    server_port,       \* UdpProtocol::port and server_addr
    state, outgoing, confMail, receivedConfirm, repeats,              \* of UdpPort
    toServer, toClient, moved, said, learned, asked, returned

portVars ==
    <<server_port, state, outgoing, confMail, receivedConfirm, repeats, toServer, toClient,
      moved, said, learned, asked, returned>>

Udp == INSTANCE UdpPort WITH port <- server_port

ConnectionInit == Init /\ Udp!Init

(* NetworkConnection makes a UdpProtocol of the type "udp", and every call *)
(* of sendData and receiveData goes to it.                                 *)
Traffic ==
    /\ outcome = "running"
    /\ type = "udp"
    /\ Len(args) <= MaxFollowed
    /\ Udp!Next
    /\ UNCHANGED vars

Start == Next /\ UNCHANGED portVars

ConnectionNext == Start \/ Traffic

ConnectionSpec == ConnectionInit /\ [][ConnectionNext]_<<vars, portVars>>

-----------------------------------------------------------------------------
(* receiveData: a client that the server has taken up is led back to the   *)
(* known port less often than it has sent AUTHs there, repetitions among   *)
(* them; if that was one, it stays with the server's own port, and         *)
(* everything it says in the conversation goes there.                      *)
SendsWhereItIsHeard == Udp!SendsWhereItIsHeard
=============================================================================
