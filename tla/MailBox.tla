------------------------------ MODULE MailBox -------------------------------
(***************************************************************************)
(* The class MailBox (src/src/headers/mail-box.h) and the ToSendPipe it    *)
(* writes to: what the FSM thread and the Listener thread share.  The      *)
(* operators are the operations of the mailbox; FSM and Listener use them  *)
(* in their actions.  Each takes the mutex once, so each is one step,      *)
(* except sendMail, which pushes under the mutex and writes to the pipe    *)
(* after it has released it.                                               *)
(***************************************************************************)
EXTENDS Pipes

CONSTANTS
    Protocol,      \* "UDP" or "TCP": ArgumentParser::type
    IdModulus      \* sequenceUDPNumber is a uint16_t: 2^16 in the program, less in a run

ASSUME ProtocolAssumption == Protocol \in {"UDP", "TCP"}
ASSUME IdModulusAssumption == IdModulus \in Nat \ {0} /\ IdModulus <= 65536

VARIABLES
    incomingMails,      \* queue of mails for the FSM
    outgoingMails,      \* queue of mails for the Listener to transmit
    sequenceUDPNumber,  \* identifier of the next mail to send
    nameOk,             \* whether displayName passes validateDisplayName
    process             \* the process these objects live in

mailboxVars ==
    <<incomingMails, outgoingMails, toSendPipe, sequenceUDPNumber, nameOk, process>>

(* "exit0": runMain returned 0.  "exit1": exit(1), or runMain threw.       *)
(* "killed": std::terminate, or SIGPIPE.                                   *)
ProcessState == {"running", "exit0", "exit1", "killed"}

MailBoxTypeOK ==
    /\ incomingMails \in Seq(MailRecord)
    /\ outgoingMails \in Seq(MailRecord)
    /\ PipesTypeOK
    /\ sequenceUDPNumber \in 0..(IdModulus - 1)
    /\ nameOk \in BOOLEAN
    /\ process \in ProcessState

(* The member initialisers; "default" is a valid display name.             *)
MailBoxInit ==
    /\ incomingMails = <<>>
    /\ outgoingMails = <<>>
    /\ PipesInit
    /\ sequenceUDPNumber = 0
    /\ nameOk = TRUE
    /\ process = "running"

-----------------------------------------------------------------------------
(* addMail of a mail whose addToMailQueue is set.                          *)
AddMail(m) == incomingMails' = Append(incomingMails, m)

(* The front of the queue leaves it in waitMail.  Its guard is the         *)
(* condition variable's predicate.                                         *)
PopMail ==
    /\ incomingMails # <<>>
    /\ incomingMails' = Tail(incomingMails)

(* waitMail reads the text of these three types out of the variant:        *)
(* std::get throws when the data is not that alternative.                  *)
BadVariant(m) ==
    /\ m.bare
    /\ \/ m.type \in {"MSG", "REPLY"}
       \/ m.type = "ERR" /\ ~m.sigint

(* sendMail up to the release of the mutex: the mail gets its identifier   *)
(* and joins the queue.  A mail whose data is a ConfirmMessage gets none.  *)
PushMail(m) ==
    IF m.bare
    THEN /\ outgoingMails' = Append(outgoingMails, m)
         /\ UNCHANGED sequenceUDPNumber
    ELSE /\ outgoingMails' = Append(outgoingMails, [m EXCEPT !.id = sequenceUDPNumber])
         /\ sequenceUDPNumber' = (sequenceUDPNumber + 1) % IdModulus

(* sendMail after the release: one byte for the Listener.                  *)
NotifyListener == toSendPipe' = toSendPipe + 1

(* Mutants of the next definition.                                         *)
TakeOutgoingMailAll == toSendPipe' = toSendPipe - 1 /\ outgoingMails' = <<>>
TakeOutgoingMailReadsAll == toSendPipe' = 0 /\ outgoingMails' = Tail(outgoingMails)

(* listenToSendPipe takes one byte, then getOutgoingMail the front of the  *)
(* queue, which it does not check for being empty.                         *)
TakeOutgoingMail ==
    /\ toSendPipe' = toSendPipe - 1
    /\ outgoingMails' = Tail(outgoingMails)
=============================================================================
