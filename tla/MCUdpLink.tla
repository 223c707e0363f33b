----------------------------- MODULE MCUdpLink ------------------------------
(***************************************************************************)
(* Values of the constants of UdpLink for TLC.                             *)
(***************************************************************************)
EXTENDS UdpLink

TwoRequests == <<"AUTH", "JOIN">>
JustAuth == <<"AUTH">>
ReplyMsg == <<"REPLY", "MSG">>
=============================================================================
