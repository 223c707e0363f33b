-------------------------------- MODULE FSM ---------------------------------
(***************************************************************************)
(* The class FSM (src/src/fsm.cpp), which the main thread runs: it takes   *)
(* one mail at a time from the MailBox and answers it with at most one     *)
(* mail.  sendMail is two steps (the push under the mutex, the byte in the *)
(* ToSendPipe after it), so that the Listener can run between them.        *)
(*                                                                         *)
(* What a mail leads to is a table of the state and the mail, given by the *)
(* four predicates Forwards, SaysBye, SaysErr and StaysSilent; the actions *)
(* follow it.                                                              *)
(***************************************************************************)
EXTENDS MailBox

VARIABLES
    state,     \* FSM::state
    mail,      \* FSM::mail, the mail in hand
    fsmPc      \* where the main thread is in FSM::run

fsmVars == <<state, mail, fsmPc>>

State == {"START", "AUTH", "OPEN", "ERROR", "END"}

(* "wait": at the top of the loop.  "push": in sendMail, before the push.  *)
(* "notify": in sendMail, after the push.  "threw": left by an exception.  *)
FsmPc == {"wait", "push", "notify", "threw"}

FsmTypeOK ==
    /\ state \in State
    /\ mail \in MailRecord
    /\ fsmPc \in FsmPc

FsmInit ==
    /\ state = "START"
    /\ mail = Blank
    /\ fsmPc = "wait"

Chatting == {"START", "AUTH", "OPEN"}     \* the states that wait for mail

-----------------------------------------------------------------------------
(* Mutants of Forwards, StaysSilent and AfterSend.                         *)
ForwardsBeforeAuth(s, m) ==
    \/ s \in {"START", "AUTH"} /\ m.type = "AUTH"
    \/ s \in Chatting /\ (m.type = "JOIN" \/ (m.type = "MSG" /\ m.toSend))

StaysSilentOnUnknown(s, m) ==
    \/ s \in {"START", "AUTH"} /\ m.type \in {"MSG", "JOIN"}
    \/ s = "AUTH" /\ m.type = "REPLY"
    \/ s = "OPEN" /\ m.type \in {"REPLY", "BYE", "AUTH"}
    \/ s = "OPEN" /\ m.type = "MSG" /\ ~m.toSend
    \/ m.type = "UNKNOWN"

AfterSendErrStays(s, m) ==
    IF m.type = "AUTH" THEN "AUTH" ELSE IF m.type = "BYE" THEN "END" ELSE s

AfterSendByeStays(s, m) ==
    IF m.type = "AUTH" THEN "AUTH" ELSE IF m.type = "ERR" THEN "ERROR" ELSE s

(* The mail is sent as it is.                                              *)
Forwards(s, m) ==
    \/ s \in {"START", "AUTH"} /\ m.type = "AUTH"
    \/ s = "OPEN" /\ m.type = "JOIN"
    \/ s = "OPEN" /\ m.type = "MSG" /\ m.toSend

(* An ERR is answered with BYE, except before authentication, where only   *)
(* the one made by the user's interrupt is.                                *)
SaysBye(s, m) == m.type = "ERR" /\ (s = "START" => m.sigint)

StaysSilent(s, m) ==
    \/ s \in {"START", "AUTH"} /\ m.type \in {"MSG", "JOIN"}
    \/ s = "AUTH" /\ m.type = "REPLY"
    \/ s = "OPEN" /\ m.type \in {"REPLY", "BYE", "AUTH"}
    \/ s = "OPEN" /\ m.type = "MSG" /\ ~m.toSend

(* ERR to whatever the state does not expect.                              *)
SaysErr(s, m) == ~Forwards(s, m) /\ ~SaysBye(s, m) /\ ~StaysSilent(s, m)

SilentState(s, m) ==
    CASE s = "AUTH" /\ m.type = "REPLY" /\ m.result -> "OPEN"
      [] s = "OPEN" /\ m.type = "BYE" -> "END"
      [] OTHER -> s

(* The assignment that follows each sendMail depends on what was sent.     *)
AfterSend(s, m) ==
    CASE m.type = "AUTH" -> "AUTH"
      [] m.type = "ERR" -> "ERROR"
      [] m.type = "BYE" -> "END"
      [] OTHER -> s

-----------------------------------------------------------------------------
(* waitMail at the top of the loop: the mail in hand is the front.         *)
WaitMail ==
    /\ process = "running"
    /\ fsmPc = "wait"
    /\ state \in Chatting
    /\ PopMail

Received == Head(incomingMails)

FsmForward ==
    /\ WaitMail
    /\ ~BadVariant(Received)
    /\ Forwards(state, Received)
    /\ mail' = Received
    /\ fsmPc' = "push"
    /\ UNCHANGED <<state, outgoingMails, toSendPipe, sequenceUDPNumber, nameOk, process>>

FsmBye ==
    /\ WaitMail
    /\ ~BadVariant(Received)
    /\ SaysBye(state, Received)
    /\ mail' = Of("BYE")
    /\ fsmPc' = "push"
    /\ UNCHANGED <<state, outgoingMails, toSendPipe, sequenceUDPNumber, nameOk, process>>

(* writeMail(ERR) constructs an ErrorMessage with the display name, which  *)
(* the validator refuses when validName is FALSE.  The name is read        *)
(* without the mutex: the composition says what the read can return.       *)
FsmErr(validName) ==
    /\ WaitMail
    /\ ~BadVariant(Received)
    /\ SaysErr(state, Received)
    /\ IF validName
       THEN mail' = Of("ERR") /\ fsmPc' = "push"
       ELSE mail' = [Received EXCEPT !.type = "ERR"] /\ fsmPc' = "threw"
    /\ UNCHANGED <<state, outgoingMails, toSendPipe, sequenceUDPNumber, nameOk, process>>

FsmSilent ==
    /\ WaitMail
    /\ ~BadVariant(Received)
    /\ StaysSilent(state, Received)
    /\ mail' = Received
    /\ state' = SilentState(state, Received)
    /\ UNCHANGED <<fsmPc, outgoingMails, toSendPipe, sequenceUDPNumber, nameOk, process>>

(* std::bad_variant_access is not a std::runtime_error: main does not      *)
(* catch it.                                                               *)
FsmUndecodable ==
    /\ WaitMail
    /\ BadVariant(Received)
    /\ process' = "killed"
    /\ UNCHANGED <<fsmVars, outgoingMails, toSendPipe, sequenceUDPNumber, nameOk>>

(* State ERROR waits for nothing.                                          *)
FsmError ==
    /\ process = "running"
    /\ fsmPc = "wait"
    /\ state = "ERROR"
    /\ mail' = Of("BYE")
    /\ fsmPc' = "push"
    /\ UNCHANGED <<state, mailboxVars>>

FsmPush ==
    /\ process = "running"
    /\ fsmPc = "push"
    /\ PushMail(mail)
    /\ fsmPc' = "notify"
    /\ UNCHANGED <<state, mail, incomingMails, toSendPipe, nameOk, process>>

FsmNotify ==
    /\ process = "running"
    /\ fsmPc = "notify"
    /\ NotifyListener
    /\ state' = AfterSend(state, mail)
    /\ fsmPc' = "wait"
    /\ UNCHANGED <<mail, incomingMails, outgoingMails, sequenceUDPNumber, nameOk, process>>

(* FSM::run has returned, or an exception left it.                         *)
FsmLeft == (state = "END" /\ fsmPc = "wait") \/ fsmPc = "threw"

FsmNext(ValidNames) ==
    \/ FsmForward
    \/ FsmBye
    \/ \E validName \in ValidNames : FsmErr(validName)
    \/ FsmSilent
    \/ FsmUndecodable
    \/ FsmError
    \/ FsmPush
    \/ FsmNotify
=============================================================================
