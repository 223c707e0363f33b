---------------------------- MODULE MCConnection ----------------------------
(***************************************************************************)
(* Values of the constants of Connection for TLC.                          *)
(***************************************************************************)
EXTENDS Connection

Word(opt, word) == [opt |-> opt, word |-> word, isInt |-> FALSE, atoi |-> 0]
Number(opt, n) == [opt |-> opt, word |-> "", isInt |-> TRUE, atoi |-> n]

(* -p 4294967296 * 8 + 8080: too large for stoi; what atoi makes of it has *)
(* the lowest bits.                                                        *)
TooLarge(opt) == [opt |-> opt, word |-> "", isInt |-> FALSE, atoi |-> 8080]

(* Every option, with numbers beyond the width of their fields.            *)
EdgeOptions ==
    { Word("t", "tcp"), Word("t", "udp"), Word("t", "sctp"), Word("s", "localhost"),
      Number("p", 8080), Number("p", 70000), Word("p", "http"), TooLarge("p"),
      Number("d", 100), Number("d", -1), Number("r", 300), Word("r", "hi"),
      Word("h", ""), Word("v", ""), Word("?", "") }
=============================================================================
