---------------------------- MODULE MCChatClient ----------------------------
(***************************************************************************)
(* Values of the constants of ChatClient for TLC.                          *)
(***************************************************************************)
EXTENDS ChatClient

Confirms(refs) == [type : {"CONFIRM"}, id : {NoId}, ref : refs, result : {FALSE}]
Replies(ids, refs, results) ==
    [type : {"REPLY"}, id : ids, ref : refs, result : results]
Others(types, ids) == [type : types, id : ids, ref : {NoId}, result : {FALSE}]

(* Confirmations of the first two mails, a reply, and messages of the      *)
(* other kinds: enough for a peer that repeats and reorders.               *)
UdpDatagrams ==
    Confirms(0..1) \cup Replies({0}, {0}, {TRUE})
        \cup Others({"MSG", "ERR"}, {1}) \cup Others({"BYE"}, {2})

(* A peer that sends no BYE of its own accord.                             *)
QuietUdpDatagrams ==
    Confirms(0..1) \cup Replies({0}, {0}, {TRUE}) \cup Others({"INVALID"}, {0})

(* One that confirms, accepts the user and then closes the conversation.   *)
ByeDatagrams ==
    Confirms({0}) \cup Replies({0}, {0}, {TRUE}) \cup Others({"BYE"}, {1})

(* One that may also confirm the second mail, and say what is refused.     *)
ClosingDatagrams == Confirms({1}) \cup ByeDatagrams \cup Others({"INVALID"}, {0})

(* Texts carry no identifiers.                                             *)
TcpTexts ==
    Replies({NoId}, {NoId}, {TRUE})
        \cup Others({"MSG", "BYE", "INVALID", "MALFORMED"}, {NoId})
=============================================================================
