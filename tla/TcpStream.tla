------------------------------ MODULE TcpStream -----------------------------
(***************************************************************************)
(* The texts of the TCP variant: MailSerializer writes them, a stream      *)
(* without boundaries carries them, recv takes what is there, up to any    *)
(* point, and MailBox::writeTCPMail (src/src/headers/mail-box.h) parses    *)
(* what one recv has returned.  server.py formats its texts as             *)
(* MailSerializer does.  A stream is a sequence of words, spaces and line  *)
(* ends, and is cut between them.  Codec makes an instance of this module. *)
(***************************************************************************)
EXTENDS Mail, SequencesExt, FiniteSetsExt

CONSTANTS
    SentTypes,    \* the types the peer sends
    Words,        \* words
    Sentences,    \* non-empty sequences of words and spaces
    MaxTexts,     \* bound on the texts sent
    InStep        \* whether recv is called after every text and returns it whole

Space == " "
LineEnd == "\r\n"

VARIABLES
    stream,    \* sent and not yet received
    sent,      \* the messages sent
    parsed     \* what has become of what each recv returned

vars == <<stream, sent, parsed>>

-----------------------------------------------------------------------------
(* Writing.                                                                *)
TextsOf(t) ==
    CASE t = "AUTH" -> [1..3 -> {<<n>> : n \in Words}]
      [] t = "JOIN" -> [1..2 -> {<<n>> : n \in Words}]
      [] t \in {"MSG", "ERR"} -> {<<(<<n>>), c>> : n \in Words, c \in Sentences}
      [] t = "REPLY" -> {<<c>> : c \in Sentences}
      [] OTHER -> {<<>>}

Message ==
    UNION {[ type   : {t},
             result : IF t = "REPLY" THEN BOOLEAN ELSE {FALSE},
             texts  : TextsOf(t) ] : t \in SentTypes}

(* What the operators of MailSerializer put between the texts.             *)
Parts(m) ==
    CASE m.type = "AUTH" ->
           <<m.texts[1], <<"AS">>, m.texts[2], <<"USING">>, m.texts[3]>>
      [] m.type = "JOIN" -> <<m.texts[1], <<"AS">>, m.texts[2]>>
      [] m.type \in {"MSG", "ERR"} -> <<(<<"FROM">>), m.texts[1], <<"IS">>, m.texts[2]>>
      [] m.type = "REPLY" ->
           <<(IF m.result THEN <<"OK">> ELSE <<"NOK">>), <<"IS">>, m.texts[1]>>
      [] OTHER -> <<>>

(* Each part ends in a space, and the last of them becomes the line end.   *)
Serialize(m) ==
    LET spaced == FlattenSeq([i \in 1..(Len(Parts(m)) + 1) |->
                       Append((<<(<<m.type>>)>> \o Parts(m))[i], Space)])
    IN  Append(Front(spaced), LineEnd)

-----------------------------------------------------------------------------
(* Reading.                                                                *)
Blank1 == {Space, LineEnd}

(* The places of the words of a text.                                      *)
WordPlaces(text) == {i \in 1..Len(text) : text[i] \notin Blank1}

PlaceOfWord(text, n) ==
    CHOOSE i \in WordPlaces(text) : Cardinality({j \in WordPlaces(text) : j <= i}) = n

(* The n-th word iss >> yields: empty when there are not so many.          *)
WordAt(text, n) ==
    IF n <= Cardinality(WordPlaces(text)) THEN text[PlaceOfWord(text, n)] ELSE ""

(* getline after n words, up to the line end.                              *)
RestOfLine(text, n) ==
    IF n > Cardinality(WordPlaces(text)) THEN <<>>
    ELSE LET rest == SubSeq(text, PlaceOfWord(text, n) + 1, Len(text))
             end == SelectInSeq(rest, LAMBDA c : c = LineEnd)
         IN  IF end = 0 THEN rest ELSE SubSeq(rest, 1, end - 1)

(* Mutant of the next definition.                                          *)
RestKeepsSpace(text, n) == RestOfLine(text, n)

(* Less one leading space.                                                 *)
Rest(text, n) ==
    LET line == RestOfLine(text, n)
    IN  IF line # <<>> /\ Head(line) = Space THEN Tail(line) ELSE line

(* Every word but the empty one is taken to pass the validators.           *)
AllValid(texts) == \A i \in 1..Len(texts) : texts[i] \notin {<<>>, <<"">>}

(* The constructor, with its validators, comes before the look at the form.*)
Parsed(type, result, texts, formOk) ==
    [ type   |-> IF ~AllValid(texts) THEN "INVALID"
                 ELSE IF ~formOk THEN "MALFORMED" ELSE type,
      result |-> result,
      texts  |-> texts ]

(* writeTCPMail.  Of an AUTH, which no server sends, it takes the word     *)
(* after AS for the secret and the one after USING for the display name.   *)
WriteTCPText(text) ==
    LET type == WordAt(text, 1)
        W(n) == <<WordAt(text, n)>>
    IN  CASE type \in {"MSG", "ERR"} ->
               Parsed(type, FALSE, <<W(3), Rest(text, 4)>>,
                      W(2) = <<"FROM">> /\ W(4) = <<"IS">>)
          [] type = "REPLY" ->
               Parsed(type, W(2) = <<"OK">>, <<Rest(text, 3)>>,
                      W(2) \in {<<"OK">>, <<"NOK">>} /\ W(3) = <<"IS">>)
          [] type = "AUTH" ->
               Parsed(type, FALSE, <<W(2), W(6), W(4)>>,
                      W(3) = <<"AS">> /\ W(5) = <<"USING">>)
          [] type = "JOIN" ->
               Parsed(type, FALSE, <<W(2), W(4)>>, W(3) = <<"AS">>)
          [] type = "BYE" -> Parsed(type, FALSE, <<>>, TRUE)
          [] OTHER -> Parsed("UNKNOWN", FALSE, <<>>, TRUE)

-----------------------------------------------------------------------------
Init == stream = <<>> /\ sent = <<>> /\ parsed = <<>>

Send ==
    /\ Len(sent) < MaxTexts
    /\ InStep => stream = <<>>
    /\ \E m \in Message :
           sent' = Append(sent, m) /\ stream' = stream \o Serialize(m)
    /\ UNCHANGED parsed

(* An invalid text has ended the process.                                  *)
Dead == parsed # <<>> /\ Last(parsed).type = "INVALID"

(* recv, and listenSocket with what it has returned.                       *)
Receive ==
    /\ stream # <<>>
    /\ ~Dead
    /\ \E n \in IF InStep THEN {Len(stream)} ELSE 1..Len(stream) :
           /\ parsed' = Append(parsed, WriteTCPText(SubSeq(stream, 1, n)))
           /\ stream' = SubSeq(stream, n + 1, Len(stream))
    /\ UNCHANGED sent

Next == Send \/ Receive

Spec == Init /\ [][Next]_vars

-----------------------------------------------------------------------------
(* MailSerializer and writeTCPMail: as long as each recv returns one whole *)
(* text, what is read is what was sent, even where a name or a content is  *)
(* a word of the protocol or the content has spaces at its ends; and the   *)
(* control part of it is what Mail says of writeTCPMail.                   *)
TextsReadBack ==
    /\ Len(parsed) = Len(sent) - (IF stream = <<>> THEN 0 ELSE 1)
    /\ \A i \in 1..Len(parsed) :
           /\ parsed[i] = sent[i]
           /\ parsed[i].type # "BYE" =>
                  WriteTCPMail([type |-> sent[i].type, id |-> NoId, ref |-> NoId,
                                result |-> sent[i].result])
                      = {[Of(parsed[i].type) EXCEPT !.result = parsed[i].result]}

(* What the sender said first arrives first, and nothing is left out.      *)
StreamInOrder == IsPrefix(parsed, sent)
=============================================================================
