------------------------------ MODULE MCCodec -------------------------------
(***************************************************************************)
(* Values of the constants of Codec for TLC: identifiers whose bytes are   *)
(* at the edges, texts the validators accept and refuse, names and words   *)
(* that are words of the protocol, contents with spaces at their ends.     *)
(***************************************************************************)
EXTENDS Codec

EdgeBytes == {0, 1, 127, 128, 255}
EdgeIds == {256 * high + low : high, low \in EdgeBytes}

(* "a" so many times.                                                      *)
Repeated(n) == [i \in 1..n |-> 97]

(* "7-", the longest name and the empty text; "a b", the empty text, a     *)
(* byte beyond ASCII, and contents with which a datagram with the longest  *)
(* name has 1024 and 1025 bytes.                                           *)
EdgeNames == {<<55, 45>>, Repeated(20), <<>>}
EdgeContents == {<<97, 32, 98>>, <<>>, <<200>>, Repeated(999), Repeated(1000)}

SomeSentences ==
    {<<"a">>, <<"IS", " ", "a">>, <<" ", "a">>, <<"a", " ">>, <<"a", " ", " ", "BYE">>}

OneSentence == {<<"a", " ", "b">>}
=============================================================================
