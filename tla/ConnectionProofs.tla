-------------------------- MODULE ConnectionProofs --------------------------
(***************************************************************************)
(* The command line and the port, for every set of options, length of the  *)
(* command line and amount of traffic.                                     *)
(***************************************************************************)
EXTENDS Connection, FiniteSetTheorems, TLAPS

(* What the walk has seen of an option among the first n of a.             *)
Absent(a, n, opt) == \A i \in 1..n : a[i].opt # opt

LastAt(a, n, opt, j) ==
    j \in 1..n /\ a[j].opt = opt /\ \A i \in 1..n : a[i].opt = opt => i <= j

FatalAt(a, i) ==
    \/ a[i].opt \in {"h", "?"}
    \/ a[i].opt = "t" /\ a[i].word \notin {"tcp", "udp"}
    \/ a[i].opt = "p" /\ ~a[i].isInt

NoneFatal(a, n) == \A i \in 1..n : ~FatalAt(a, i)

(* The field of an option has the last argument given so far.              *)
ReadWord(a, n, opt, value) ==
    \A j \in Nat : LastAt(a, n, opt, j) => value = a[j].word

ReadNumber(a, n, opt, default, modulus, value) ==
    /\ Absent(a, n, opt) => value = default
    /\ \A j \in Nat : LastAt(a, n, opt, j) => value = a[j].atoi % modulus

EachHasLast(a, n) ==
    \A opt : Absent(a, n, opt) \/ \E j \in Nat : LastAt(a, n, opt, j)

Fields ==
    /\ typeSet <=> ~Absent(args, optind, "t")
    /\ ipSet <=> ~Absent(args, optind, "s")
    /\ ReadWord(args, optind, "t", type)
    /\ ReadWord(args, optind, "s", ip)
    /\ ReadNumber(args, optind, "p", 4567, 65536, port)
    /\ ReadNumber(args, optind, "d", 250, 65536, timeout)
    /\ ReadNumber(args, optind, "r", 3, 256, retries)

Walk == Fields /\ NoneFatal(args, optind) /\ EachHasLast(args, optind)

(* The walk has ended at the first fatal option.                           *)
EndedAtFatal ==
    optind \in 1..Len(args) /\ FatalAt(args, optind) /\ NoneFatal(args, optind - 1)

StartInv ==
    /\ args \in Seq(Options) /\ optind \in 0..Len(args)
    /\ outcome \in {"parsing", "parsed", "running", "exit-1", "usage", "terminated"}
    /\ outcome = "parsing" => Walk
    /\ outcome \in {"parsed", "running", "exit-1"} =>
           Walk /\ optind = Len(args) /\ typeSet /\ ipSet
    /\ outcome = "terminated" => EndedAtFatal /\ args[optind].opt = "p"
    /\ outcome = "usage" =>
           \/ EndedAtFatal /\ args[optind].opt # "p"
           \/ Walk /\ optind = Len(args) /\ ~(typeSet /\ ipSet)

-----------------------------------------------------------------------------
(* One more option.                                                        *)

LEMMA LastStep ==
    ASSUME NEW a, NEW n \in Nat, NEW opt, NEW j
    PROVE  LastAt(a, n + 1, opt, j) <=>
               IF a[n + 1].opt = opt THEN j = n + 1 ELSE LastAt(a, n, opt, j)
<1>1. \A i : i \in 1..(n + 1) <=> i \in 1..n \/ i = n + 1
  OBVIOUS
<1>2. \A i \in 1..n : i <= n + 1 /\ ~(n + 1 <= i)
  OBVIOUS
<1> QED
  BY <1>1, <1>2 DEF LastAt

LEMMA AbsentStep ==
    ASSUME NEW a, NEW n \in Nat, NEW opt
    PROVE  Absent(a, n + 1, opt) <=> a[n + 1].opt # opt /\ Absent(a, n, opt)
<1>1. \A i : i \in 1..(n + 1) <=> i \in 1..n \/ i = n + 1
  OBVIOUS
<1> QED
  BY <1>1 DEF Absent

LEMMA NoneFatalStep ==
    ASSUME NEW a, NEW n \in Nat
    PROVE  NoneFatal(a, n + 1) <=> ~FatalAt(a, n + 1) /\ NoneFatal(a, n)
<1>1. \A i : i \in 1..(n + 1) <=> i \in 1..n \/ i = n + 1
  OBVIOUS
<1> QED
  BY <1>1 DEF NoneFatal

LEMMA EachHasLastStep ==
    ASSUME NEW a, NEW n \in Nat, EachHasLast(a, n)
    PROVE  EachHasLast(a, n + 1)
<1> SUFFICES ASSUME NEW opt, ~Absent(a, n + 1, opt)
             PROVE  \E j \in Nat : LastAt(a, n + 1, opt, j)
  BY DEF EachHasLast
<1>1. CASE a[n + 1].opt = opt
  <2>1. LastAt(a, n + 1, opt, n + 1)
    BY <1>1, LastStep
  <2>2. n + 1 \in Nat
    OBVIOUS
  <2> QED
    BY <2>1, <2>2
<1>2. CASE a[n + 1].opt # opt
  <2>1. PICK j \in Nat : LastAt(a, n, opt, j)
    BY <1>2, AbsentStep DEF EachHasLast
  <2>2. LastAt(a, n + 1, opt, j)
    BY <1>2, <2>1, LastStep
  <2> QED
    BY <2>2
<1> QED
  BY <1>1, <1>2

(* An option of another letter leaves a field as it is; its own replaces   *)
(* it.                                                                     *)
LEMMA WordStep ==
    ASSUME NEW a, NEW n \in Nat, NEW opt, NEW value, NEW value1,
           ReadWord(a, n, opt, value),
           IF a[n + 1].opt = opt THEN value1 = a[n + 1].word ELSE value1 = value
    PROVE  ReadWord(a, n + 1, opt, value1)
BY LastStep DEF ReadWord

LEMMA NumberStep ==
    ASSUME NEW a, NEW n \in Nat, NEW opt, NEW default, NEW modulus, NEW value, NEW value1,
           ReadNumber(a, n, opt, default, modulus, value),
           IF a[n + 1].opt = opt THEN value1 = a[n + 1].atoi % modulus
                                 ELSE value1 = value
    PROVE  ReadNumber(a, n + 1, opt, default, modulus, value1)
<1>1. \A j \in Nat : LastAt(a, n + 1, opt, j) => value1 = a[j].atoi % modulus
  BY LastStep DEF ReadNumber
<1>2. Absent(a, n + 1, opt) => value1 = default
  BY AbsentStep DEF ReadNumber
<1> QED
  BY <1>1, <1>2 DEF ReadNumber

(* What an option that is not fatal has to do for the walk to go on.       *)
LEMMA WalkStep ==
    ASSUME optind \in Nat, Walk, args' = args, optind' = optind + 1,
           ~FatalAt(args, optind + 1),
           typeSet' <=> (typeSet \/ Current.opt = "t"),
           ipSet' <=> (ipSet \/ Current.opt = "s"),
           type' = IF Current.opt = "t" THEN Current.word ELSE type,
           ip' = IF Current.opt = "s" THEN Current.word ELSE ip,
           port' = IF Current.opt = "p" THEN Current.atoi % 65536 ELSE port,
           timeout' = IF Current.opt = "d" THEN Current.atoi % 65536 ELSE timeout,
           retries' = IF Current.opt = "r" THEN Current.atoi % 256 ELSE retries
    PROVE  Walk'
<1>1. NoneFatal(args', optind')
  BY NoneFatalStep DEF Walk
<1>2. EachHasLast(args', optind')
  BY EachHasLastStep DEF Walk
<1>3. ReadWord(args', optind', "t", type')
  BY WordStep DEF Walk, Fields, Current
<1>4. ReadWord(args', optind', "s", ip')
  BY WordStep DEF Walk, Fields, Current
<1>5. ReadNumber(args', optind', "p", 4567, 65536, port')
  BY NumberStep DEF Walk, Fields, Current
<1>6. ReadNumber(args', optind', "d", 250, 65536, timeout')
  BY NumberStep DEF Walk, Fields, Current
<1>7. ReadNumber(args', optind', "r", 3, 256, retries')
  BY NumberStep DEF Walk, Fields, Current
<1>8. typeSet' <=> ~Absent(args', optind', "t")
  <2>1. Absent(args', optind', "t") <=> Current.opt # "t" /\ Absent(args, optind, "t")
    BY AbsentStep DEF Current
  <2>2. typeSet <=> ~Absent(args, optind, "t")
    BY DEF Walk, Fields
  <2> QED
    BY <2>1, <2>2
<1>9. ipSet' <=> ~Absent(args', optind', "s")
  <2>1. Absent(args', optind', "s") <=> Current.opt # "s" /\ Absent(args, optind, "s")
    BY AbsentStep DEF Current
  <2>2. ipSet <=> ~Absent(args, optind, "s")
    BY DEF Walk, Fields
  <2> QED
    BY <2>1, <2>2
<1> QED
  BY <1>1, <1>2, <1>3, <1>4, <1>5, <1>6, <1>7, <1>8, <1>9 DEF Walk, Fields

-----------------------------------------------------------------------------
(* The parser.                                                             *)

LEMMA InitStart == Init => StartInv
<1> SUFFICES ASSUME Init PROVE StartInv
  OBVIOUS
<1>1. args \in Seq(Options)
  <2>1. PICK m \in 0..MaxOptions : args \in [1..m -> Options]
    BY ZenonT(40) DEF Init, BoundedSeq, SeqOf
  <2> QED
    BY <2>1
<1>0. /\ optind = 0 /\ outcome = "parsing" /\ typeSet = FALSE /\ ipSet = FALSE
      /\ port = 4567 /\ timeout = 250 /\ retries = 3
  BY ZenonT(40) DEF Init
<1>2. 1..optind = {}
  BY <1>0
<1>3. \A opt : Absent(args, optind, opt) /\ \A j \in Nat : ~LastAt(args, optind, opt, j)
  BY <1>2 DEF Absent, LastAt
<1>4. NoneFatal(args, optind) /\ EachHasLast(args, optind)
  BY <1>2, <1>3 DEF NoneFatal, EachHasLast
<1>5. Fields
  BY <1>0, <1>3 DEF Fields, ReadWord, ReadNumber
<1>6. Walk
  BY <1>4, <1>5 DEF Walk
<1>7. optind \in 0..Len(args)
  BY <1>0, <1>1
<1> QED
  BY <1>0, <1>1, <1>6, <1>7 DEF StartInv

(* The fields that usage and a throw leave alone.                          *)
LEMMA FatalStep ==
    ASSUME NEW opts, StartInv, Parsing(opts), FatalAt(args, optind + 1)
    PROVE  EndedAtFatal' /\ args'[optind'] = Current
<1>1. optind' \in 1..Len(args') /\ args' = args /\ optind' = optind + 1 /\ optind' - 1 = optind
  BY DEF StartInv, Parsing
<1>2. NoneFatal(args, optind)
  BY DEF StartInv, Parsing, Walk
<1> QED
  BY <1>1, <1>2 DEF EndedAtFatal, Current

(* An option that is read.                                                 *)
LEMMA ReadStep ==
    ASSUME StartInv, ParseType \/ ParseServer \/ ParsePort \/ ParseTimeout \/ ParseRetries
                     \/ ParseVerbose,
           outcome' = outcome
    PROVE  Walk'
<1>1. /\ optind \in Nat /\ Walk /\ args' = args /\ optind' = optind + 1 /\ outcome = "parsing"
  BY DEF StartInv, ParseType, ParseServer, ParsePort, ParseTimeout, ParseRetries, ParseVerbose,
         Parsing
<1>2. /\ ~FatalAt(args, optind + 1)
      /\ typeSet' <=> (typeSet \/ Current.opt = "t")
      /\ ipSet' <=> (ipSet \/ Current.opt = "s")
      /\ type' = IF Current.opt = "t" THEN Current.word ELSE type
      /\ ip' = IF Current.opt = "s" THEN Current.word ELSE ip
      /\ port' = IF Current.opt = "p" THEN Current.atoi % 65536 ELSE port
      /\ timeout' = IF Current.opt = "d" THEN Current.atoi % 65536 ELSE timeout
      /\ retries' = IF Current.opt = "r" THEN Current.atoi % 256 ELSE retries
  <2>1. CASE ParseType
    BY <1>1, <2>1 DEF ParseType, Parsing, Current, FatalAt, Usage
  <2>2. CASE ParseServer
    BY <1>1, <2>2 DEF ParseServer, Parsing, Current, FatalAt
  <2>3. CASE ParsePort
    BY <1>1, <2>3 DEF ParsePort, Parsing, Current, FatalAt, Width16
  <2>4. CASE ParseTimeout
    BY <1>1, <2>4 DEF ParseTimeout, Parsing, Current, FatalAt, Width16
  <2>5. CASE ParseRetries
    BY <1>1, <2>5 DEF ParseRetries, Parsing, Current, FatalAt, Width8
  <2>6. CASE ParseVerbose
    BY <1>1, <2>6 DEF ParseVerbose, Parsing, Current, FatalAt, parserVars
  <2> QED
    BY <2>1, <2>2, <2>3, <2>4, <2>5, <2>6
<1> QED
  BY <1>1, <1>2, WalkStep

LEMMA WalkUnchanged ==
    ASSUME Walk, UNCHANGED <<args, optind, parserVars>>
    PROVE  Walk'
BY DEF Walk, Fields, parserVars

LEMMA StartStep ==
    ASSUME StartInv, Next
    PROVE  StartInv'
<1>1. CASE \/ ParseType \/ ParseServer \/ ParsePort \/ ParseTimeout \/ ParseRetries
           \/ ParseVerbose \/ ParseHelp
  <2>1. /\ args' = args /\ optind' = optind + 1 /\ outcome = "parsing"
        /\ args' \in Seq(Options) /\ optind' \in 0..Len(args')
    BY <1>1 DEF StartInv, ParseType, ParseServer, ParsePort, ParseTimeout, ParseRetries,
                ParseVerbose, ParseHelp, Parsing
  <2>2. CASE outcome' = outcome
    <3>1. ~ParseHelp
      BY <2>1, <2>2 DEF ParseHelp, Usage
    <3> QED
      BY <1>1, <2>1, <2>2, <3>1, ReadStep DEF StartInv
  <2>3. CASE outcome' # outcome
    <3>1. /\ FatalAt(args, optind + 1) /\ \E opts : Parsing(opts)
          /\ outcome' \in {"usage", "terminated"}
          /\ outcome' = "terminated" <=> Current.opt = "p"
      BY <1>1, <2>3 DEF ParseType, ParseServer, ParsePort, ParseTimeout, ParseRetries,
                        ParseVerbose, ParseHelp, Parsing, Usage, FatalAt, Current
    <3>2. EndedAtFatal' /\ args'[optind'] = Current
      BY <3>1, FatalStep
    <3> QED
      BY <2>1, <3>1, <3>2 DEF StartInv
  <2> QED
    BY <2>2, <2>3
<1>2. CASE ParseEnd
  BY <1>2, WalkUnchanged DEF ParseEnd, StartInv, parserVars
<1>3. CASE OpenTcp \/ OpenUdp
  BY <1>3, WalkUnchanged DEF OpenTcp, OpenUdp, Opening, StartInv, parserVars
<1> QED
  BY <1>1, <1>2, <1>3 DEF Next

-----------------------------------------------------------------------------
(* The walk in terms of the whole command line.                            *)

LEMMA LastIsMax ==
    ASSUME args \in Seq(Options), NEW opt, NEW j \in Nat, LastAt(args, Len(args), opt, j)
    PROVE  Max(Given(opt)) = j /\ Given(opt) # {}
<1>1. j \in Given(opt) /\ \A i \in Given(opt) : i \in Nat /\ i <= j
  BY DEF LastAt, Given
<1>2. \A x \in Given(opt) : (\A y \in Given(opt) : x >= y) => x = j
  BY <1>1
<1>3. \A y \in Given(opt) : j >= y
  BY <1>1
<1>4. Max(Given(opt)) \in Given(opt) /\ \A y \in Given(opt) : Max(Given(opt)) >= y
  BY <1>1, <1>3 DEF Max
<1> QED
  BY <1>1, <1>2, <1>4

LEMMA FirstIsMin ==
    ASSUME args \in Seq(Options), EndedAtFatal
    PROVE  Min(Fatal) = optind /\ Fatal # {}
<1>1. optind \in Fatal
  BY DEF EndedAtFatal, FatalAt, Fatal
<1>2. \A i \in Fatal : i \in Nat /\ optind <= i
  <2>1. ASSUME NEW i \in Fatal, ~(optind <= i) PROVE FALSE
    <3>1. i \in 1..(optind - 1) /\ FatalAt(args, i)
      BY <2>1 DEF Fatal, FatalAt, EndedAtFatal
    <3> QED
      BY <3>1 DEF EndedAtFatal, NoneFatal
  <2> QED
    BY <2>1 DEF Fatal
<1>3. \A x \in Fatal : (\A y \in Fatal : x =< y) => x = optind
  BY <1>1, <1>2
<1>4. Min(Fatal) \in Fatal /\ \A y \in Fatal : Min(Fatal) =< y
  BY <1>1, <1>2 DEF Min
<1> QED
  BY <1>1, <1>3, <1>4

LEMMA NumberIsLast ==
    ASSUME args \in Seq(Options), EachHasLast(args, Len(args)), NEW opt,
           NEW default, NEW modulus, NEW value,
           ReadNumber(args, Len(args), opt, default, modulus, value)
    PROVE  value = LastNumber(opt, default, modulus)
<1>1. CASE Absent(args, Len(args), opt)
  <2>1. Given(opt) = {}
    BY <1>1 DEF Absent, Given
  <2> QED
    BY <1>1, <2>1 DEF ReadNumber, LastNumber
<1>2. CASE ~Absent(args, Len(args), opt)
  <2>1. PICK j \in Nat : LastAt(args, Len(args), opt, j)
    BY <1>2 DEF EachHasLast
  <2>2. Max(Given(opt)) = j /\ Given(opt) # {}
    BY <2>1, LastIsMax
  <2>3. value = args[j].atoi % modulus
    BY <2>1 DEF ReadNumber
  <2> QED
    BY <2>2, <2>3 DEF LastNumber
<1> QED
  BY <1>1, <1>2

LEMMA WordIsLast ==
    ASSUME args \in Seq(Options), EachHasLast(args, Len(args)), NEW opt,
           NEW value, ReadWord(args, Len(args), opt, value), ~Absent(args, Len(args), opt)
    PROVE  value = args[Max(Given(opt))].word /\ Given(opt) # {}
<1>1. PICK j \in Nat : LastAt(args, Len(args), opt, j)
  BY DEF EachHasLast
<1>2. Max(Given(opt)) = j /\ Given(opt) # {}
  BY <1>1, LastIsMax
<1> QED
  BY <1>1, <1>2 DEF ReadWord

LEMMA StartParsed == StartInv => ParsedAsGiven
<1> SUFFICES ASSUME StartInv PROVE ParsedAsGiven
  OBVIOUS
<1>0. args \in Seq(Options)
  BY DEF StartInv
<1>1. outcome = "terminated" => Fatal # {} /\ args[Min(Fatal)].opt = "p"
  BY <1>0, FirstIsMin DEF StartInv
<1>2. ASSUME NoneFatal(args, optind), optind = Len(args) PROVE Fatal = {}
  BY <1>2 DEF NoneFatal, FatalAt, Fatal
<1>3. ASSUME outcome = "usage"
      PROVE  IF Fatal # {} THEN args[Min(Fatal)].opt # "p"
             ELSE Given("t") = {} \/ Given("s") = {}
  <2>1. CASE EndedAtFatal /\ args[optind].opt # "p"
    BY <1>0, <2>1, FirstIsMin
  <2>2. CASE Walk /\ optind = Len(args) /\ ~(typeSet /\ ipSet)
    <3>1. Fatal = {}
      BY <1>2, <2>2 DEF Walk
    <3>2. Absent(args, Len(args), "t") \/ Absent(args, Len(args), "s")
      BY <2>2 DEF Walk, Fields
    <3> QED
      BY <3>1, <3>2 DEF Absent, Given
  <2> QED
    BY <1>3, <2>1, <2>2 DEF StartInv
<1>4. ASSUME outcome \in {"parsed", "running", "exit-1"}
      PROVE  /\ Fatal = {} /\ Given("t") # {} /\ Given("s") # {}
             /\ type = args[Max(Given("t"))].word
             /\ ip = args[Max(Given("s"))].word
             /\ port = LastNumber("p", 4567, 65536)
             /\ timeout = LastNumber("d", 250, 65536)
             /\ retries = LastNumber("r", 3, 256)
  <2>1. Walk /\ optind = Len(args) /\ typeSet /\ ipSet
    BY <1>4 DEF StartInv
  <2>2. EachHasLast(args, Len(args)) /\ Fatal = {}
    BY <1>2, <2>1 DEF Walk
  <2>3. /\ ReadWord(args, Len(args), "t", type) /\ ~Absent(args, Len(args), "t")
        /\ ReadWord(args, Len(args), "s", ip) /\ ~Absent(args, Len(args), "s")
        /\ ReadNumber(args, Len(args), "p", 4567, 65536, port)
        /\ ReadNumber(args, Len(args), "d", 250, 65536, timeout)
        /\ ReadNumber(args, Len(args), "r", 3, 256, retries)
    BY <2>1 DEF Walk, Fields
  <2>4. type = args[Max(Given("t"))].word /\ Given("t") # {}
    BY <1>0, <2>2, <2>3, WordIsLast
  <2>5. ip = args[Max(Given("s"))].word /\ Given("s") # {}
    BY <1>0, <2>2, <2>3, WordIsLast
  <2>6. /\ port = LastNumber("p", 4567, 65536)
        /\ timeout = LastNumber("d", 250, 65536)
        /\ retries = LastNumber("r", 3, 256)
    BY <1>0, <2>2, <2>3, NumberIsLast
  <2> QED
    BY <2>2, <2>4, <2>5, <2>6
<1> QED
  BY <1>1, <1>3, <1>4 DEF ParsedAsGiven

(* ArgumentParser: the walk of getopt over the options comes to what the   *)
(* command line as a whole says, whichever options it has.                 *)
THEOREM ParsedAsGivenHolds == ConnectionSpec => []ParsedAsGiven
<1>1. ConnectionInit => StartInv
  BY InitStart DEF ConnectionInit
<1>2. StartInv /\ [ConnectionNext]_<<vars, portVars>> => StartInv'
  <2>1. StartInv /\ Next => StartInv'
    BY StartStep
  <2>2. StartInv /\ UNCHANGED vars => StartInv'
    BY WalkUnchanged DEF StartInv, vars, parserVars, EndedAtFatal
  <2> QED
    BY <2>1, <2>2 DEF ConnectionNext, Start, Traffic
<1> QED
  BY <1>1, <1>2, StartParsed, PTL DEF ConnectionSpec

-----------------------------------------------------------------------------
(* The port.  What can still lead the client back is counted: the AUTHs    *)
(* and the answers under way to and from the known port, and the times it  *)
(* has been led back, are never more than the AUTHs sent there.  The first *)
(* answer leads nobody back, since the client has not left yet: Spare is   *)
(* one as soon as it is spent.                                             *)
Datagram ==
    [type : {"NONE", "AUTH", "JOIN", "MSG", "ERR", "BYE"}, number : Nat, port : Udp!Port]
Answer == [port : Udp!Port, ref : Nat]

KnownAuths == {d \in Datagram : d.type = "AUTH" /\ d.port = "known"}
KnownAnswers == {d \in Answer : d.port = "known"}

Among(s, T) == {i \in 1..Len(s) : s[i] \in T}
Count(s, T) == Cardinality(Among(s, T))

Spent == learned \/ (moved /\ (toClient = <<>> \/ toClient[1].port # "known"))
Spare == IF Spent THEN 1 ELSE 0

PortTypes ==
    /\ server_port \in Udp!Port
    /\ outgoing \in Seq({"AUTH", "JOIN", "MSG", "ERR", "BYE"})
    /\ confMail \in [type : {"NONE", "AUTH", "JOIN", "MSG", "ERR", "BYE"}, number : Nat]
    /\ toServer \in Seq(Datagram) /\ toClient \in Seq(Answer)
    /\ moved \in BOOLEAN /\ learned \in BOOLEAN
    /\ asked \in Nat /\ returned \in Nat

(* The client leaves the known port for a server that has taken it up.     *)
Sides ==
    /\ toClient # <<>> => moved
    /\ learned => moved
    /\ server_port = "own" => learned
    /\ \A i \in 1..Len(toServer) : toServer[i].port = "own" => learned
    /\ ~learned => returned = 0

(* The conversation is opened by a message from the server's own port.     *)
Talks ==
    /\ state = "OPEN" => learned
    /\ \A i \in 1..Len(outgoing) : outgoing[i] \in Udp!Chat => learned
    /\ confMail.type \in Udp!Chat => learned
    /\ \A i \in 1..Len(toServer) : toServer[i].type \in Udp!Chat => learned

Stays ==
    returned = 0 =>
        /\ learned => server_port = "own"
        /\ \A i \in 1..Len(toServer) :
               toServer[i].type \in Udp!Chat => toServer[i].port = "own"

Budget == Count(toServer, KnownAuths) + Count(toClient, KnownAnswers) + returned + Spare <= asked

PortInv == PortTypes /\ Sides /\ Talks /\ Stays /\ Budget

(* Counting through a queue.                                               *)
LEMMA CountIsNatural ==
    ASSUME NEW S, NEW s \in Seq(S), NEW T
    PROVE  IsFiniteSet(Among(s, T)) /\ Count(s, T) \in Nat
<1>1. Len(s) \in Nat /\ IsFiniteSet(1..Len(s)) /\ Among(s, T) \in SUBSET (1..Len(s))
  BY FS_Interval DEF Among
<1> QED
  BY <1>1, FS_Subset, FS_CardinalityType DEF Count

LEMMA Newest ==
    ASSUME NEW S, NEW s \in Seq(S), NEW e \in S
    PROVE  /\ Append(s, e) \in Seq(S) /\ Len(Append(s, e)) = Len(s) + 1 /\ Len(s) \in Nat
           /\ \A i \in 1..Len(s) : Append(s, e)[i] = s[i]
           /\ Append(s, e)[Len(s) + 1] = e
           /\ \A i \in 1..(Len(s) + 1) : i \in 1..Len(s) \/ i = Len(s) + 1
OBVIOUS

LEMMA CountAppend ==
    ASSUME NEW S, NEW s \in Seq(S), NEW e \in S, NEW T
    PROVE  Count(Append(s, e), T) = Count(s, T) + (IF e \in T THEN 1 ELSE 0)
<1>1. Among(Append(s, e), T) = IF e \in T THEN Among(s, T) \cup {Len(s) + 1} ELSE Among(s, T)
  <2>1. \A i : i \in 1..Len(s) => i \in 1..(Len(s) + 1)
    BY Newest
  <2> QED
    BY <2>1, Newest DEF Among
<1>2. Len(s) + 1 \notin Among(s, T)
  BY Newest DEF Among
<1>3. IsFiniteSet(Among(s, T)) /\ Count(s, T) \in Nat
  BY CountIsNatural
<1>4. Cardinality(Among(s, T) \cup {Len(s) + 1}) = Cardinality(Among(s, T)) + 1
  BY <1>2, <1>3, FS_AddElement
<1> QED
  BY <1>1, <1>3, <1>4 DEF Count

LEMMA Oldest ==
    ASSUME NEW S, NEW s \in Seq(S), s # <<>>
    PROVE  /\ Len(s) \in Nat /\ Len(s) >= 1 /\ s[1] \in S /\ Head(s) = s[1]
           /\ Tail(s) \in Seq(S) /\ Len(Tail(s)) = Len(s) - 1
           /\ \A k \in 1..Len(Tail(s)) : Tail(s)[k] = s[k + 1] /\ k + 1 \in 1..Len(s)
OBVIOUS

LEMMA CountTail ==
    ASSUME NEW S, NEW s \in Seq(S), s # <<>>, NEW T
    PROVE  Count(s, T) = Count(Tail(s), T) + (IF s[1] \in T THEN 1 ELSE 0)
<1> DEFINE A == Among(Tail(s), T)
           B == Among(s, T) \ {1}
           f == [i \in A |-> i + 1]
<1>1. f \in Bijection(A, B)
  <2>1. \A i \in A : i \in Nat /\ i + 1 \in B
    BY Oldest DEF Among
  <2>2. \A j \in B : j - 1 \in A /\ (j - 1) + 1 = j
    <3> SUFFICES ASSUME NEW j \in B PROVE j - 1 \in A /\ (j - 1) + 1 = j
      OBVIOUS
    <3>1. j \in 1..Len(s) /\ j # 1 /\ s[j] \in T
      BY DEF Among
    <3>2. j - 1 \in 1..Len(Tail(s)) /\ (j - 1) + 1 = j
      BY <3>1, Oldest
    <3>3. Tail(s)[j - 1] = s[j]
      BY <3>2, Oldest
    <3> QED
      BY <3>1, <3>2, <3>3 DEF Among
  <2>3. f \in Injection(A, B)
    BY <2>1 DEF Injection, IsInjective
  <2>4. f \in Surjection(A, B)
    BY <2>1, <2>2 DEF Surjection
  <2> QED
    BY <2>3, <2>4 DEF Bijection
<1>2. Tail(s) \in Seq(S)
  BY Oldest
<1>3. IsFiniteSet(A) /\ IsFiniteSet(Among(s, T)) /\ Count(s, T) \in Nat
  BY <1>2, CountIsNatural
<1>4. Cardinality(B) = Cardinality(A)
  <2>1. ExistsBijection(A, B)
    BY <1>1 DEF ExistsBijection
  <2> HIDE DEF A, B
  <2> QED
    BY <1>3, <2>1, FS_Bijection
<1>5. Cardinality(B) = IF 1 \in Among(s, T) THEN Cardinality(Among(s, T)) - 1
                                            ELSE Cardinality(Among(s, T))
  BY <1>3, FS_RemoveElement
<1>6. 1 \in Among(s, T) <=> s[1] \in T
  BY Oldest DEF Among
<1> QED
  BY <1>3, <1>4, <1>5, <1>6 DEF Count

(* The terms of the budget are numbers.                                    *)
LEMMA BudgetTypes ==
    ASSUME PortTypes
    PROVE  /\ Count(toServer, KnownAuths) \in Nat /\ Count(toClient, KnownAnswers) \in Nat
           /\ asked \in Nat /\ returned \in Nat
BY CountIsNatural DEF PortTypes

-----------------------------------------------------------------------------
(* The steps.  Losses first: they are the oldest datagram going away.      *)
LEMMA LoseToServerStep ==
    ASSUME PortInv, toServer # <<>>, toServer' = Tail(toServer),
           UNCHANGED <<server_port, state, outgoing, confMail, toClient, moved,
                       learned, asked, returned>>
    PROVE  PortInv'
<1>1. toServer \in Seq(Datagram)
  BY DEF PortInv, PortTypes
<1>2. /\ toServer' \in Seq(Datagram)
      /\ \A k \in 1..Len(toServer') : toServer'[k] = toServer[k + 1] /\ k + 1 \in 1..Len(toServer)
  BY <1>1, Oldest
<1>3. PortTypes'
  BY <1>2 DEF PortInv, PortTypes
<1>4. Sides' /\ Talks' /\ Stays'
  BY <1>2 DEF PortInv, Sides, Talks, Stays
<1>5. Count(toServer', KnownAuths) <= Count(toServer, KnownAuths)
      /\ Count(toServer', KnownAuths) \in Nat
  <2>1. Count(toServer, KnownAuths)
            = Count(toServer', KnownAuths) + (IF toServer[1] \in KnownAuths THEN 1 ELSE 0)
    BY <1>1, CountTail
  <2>2. Count(toServer', KnownAuths) \in Nat
    BY <1>2, CountIsNatural
  <2> QED
    BY <2>1, <2>2
<1>6. Spare' = Spare /\ Spare \in Nat
  BY DEF Spare, Spent
<1>7. Budget'
  <2>1. Count(toClient', KnownAnswers) = Count(toClient, KnownAnswers)
    OBVIOUS
  <2> HIDE DEF Spare
  <2> QED
    BY <1>5, <1>6, <2>1, BudgetTypes DEF PortInv, Budget
<1> QED
  BY <1>3, <1>4, <1>7 DEF PortInv

(* A datagram to the client goes, and is read or not.                      *)
LEMMA ToClientStep ==
    ASSUME PortInv, toClient # <<>>, toClient' = Tail(toClient),
           UNCHANGED <<state, outgoing, confMail, toServer, moved, asked>>,
           \/ UNCHANGED <<server_port, learned, returned>>
           \/ /\ server_port' = toClient[1].port
              /\ learned' = (learned \/ toClient[1].port = "own")
              /\ returned' = returned + IF server_port = "own" /\ server_port' = "known"
                                        THEN 1 ELSE 0
    PROVE  PortInv'
<1>1. toClient \in Seq(Answer)
  BY DEF PortInv, PortTypes
<1>2. toClient' \in Seq(Answer) /\ toClient[1] \in Answer /\ toClient[1].port \in Udp!Port
  <2>1. toClient' \in Seq(Answer) /\ toClient[1] \in Answer
    BY <1>1, Oldest
  <2> QED
    BY <2>1 DEF Answer
<1>3. moved
  BY DEF PortInv, Sides
<1>4. PortTypes'
  <2>1. server_port' \in Udp!Port
    BY <1>2 DEF PortInv, PortTypes
  <2>2. learned' \in BOOLEAN
    BY DEF PortInv, PortTypes
  <2>3. returned' \in Nat
    BY DEF PortInv, PortTypes
  <2> QED
    BY <1>2, <2>1, <2>2, <2>3 DEF PortInv, PortTypes
<1>5. Sides' /\ Talks' /\ Stays'
  <2>1. (learned => learned') /\ (server_port' = "own" => learned')
    BY DEF PortInv, Sides
  <2>4. returned' = returned \/ (returned' = returned + 1 /\ server_port = "own")
    BY DEF PortInv, PortTypes
  <2>2. ~learned' => returned' = 0
    BY <2>1, <2>4 DEF PortInv, Sides
  <2>3. ASSUME learned', returned' = 0 PROVE server_port' = "own"
    <3>1. returned = 0 /\ returned' = returned
      BY <2>3, <2>4 DEF PortInv, PortTypes
    <3>2. CASE UNCHANGED <<server_port, learned, returned>>
      BY <2>3, <3>1, <3>2 DEF PortInv, Stays
    <3>3. CASE server_port' = toClient[1].port /\ learned
      <4>1. server_port = "own"
        BY <3>1, <3>3 DEF PortInv, Stays
      <4>2. server_port' # "known"
        BY <3>1, <4>1 DEF PortInv, PortTypes
      <4> QED
        BY <1>2, <3>3, <4>2 DEF Udp!Port
    <3>4. CASE server_port' = toClient[1].port /\ ~learned
      BY <2>3, <3>4
    <3> QED
      BY <3>2, <3>3, <3>4
  <2>5. Sides' /\ Talks'
    BY <1>3, <2>1, <2>2 DEF PortInv, Sides, Talks
  <2>6. Stays'
    <3>1. returned' = 0 => returned = 0
      BY <2>4 DEF PortInv, PortTypes
    <3> QED
      BY <2>3, <3>1 DEF PortInv, Stays
  <2> QED
    BY <2>5, <2>6
<1>6. /\ Count(toClient, KnownAnswers)
            = Count(toClient', KnownAnswers) + (IF toClient[1].port = "known" THEN 1 ELSE 0)
      /\ Count(toClient', KnownAnswers) \in Nat
  <2>1. toClient[1] \in KnownAnswers <=> toClient[1].port = "known"
    BY <1>2 DEF KnownAnswers
  <2> QED
    BY <1>1, <1>2, <2>1, CountTail, CountIsNatural
<1>7. Spare \in {0, 1} /\ Spare' \in {0, 1}
  BY DEF Spare
<1>8. Count(toServer', KnownAuths) = Count(toServer, KnownAuths)
  OBVIOUS
<1>9. Budget'
  <2>1. CASE toClient[1].port = "known" /\ (returned' = returned \/ ~Spent)
    <3>1. returned' = returned
      BY <1>2, <2>1 DEF Spent, PortInv, Sides
    <3> QED
      BY <1>6, <1>7, <1>8, <2>1, <3>1, BudgetTypes DEF PortInv, Budget
  <2>2. CASE toClient[1].port = "known" /\ Spent /\ returned' # returned
    <3>1. returned' = returned + 1
      BY <2>2 DEF PortInv, PortTypes
    <3>2. Spare = 1
      BY <2>2 DEF Spare
    <3> QED
      BY <1>6, <1>7, <1>8, <2>2, <3>1, <3>2, BudgetTypes DEF PortInv, Budget
  <2>3. CASE toClient[1].port # "known"
    <3>1. returned' = returned /\ Spare = 1
      BY <1>2, <1>3, <2>3 DEF Spent, Spare, Udp!Port, PortInv, PortTypes
    <3> QED
      BY <1>6, <1>7, <1>8, <2>3, <3>1, BudgetTypes DEF PortInv, Budget
  <2> QED
    BY <2>1, <2>2, <2>3
<1> QED
  BY <1>4, <1>5, <1>9 DEF PortInv

(* A mail goes to the current port.                                        *)
LEMMA SendsStep ==
    ASSUME PortInv, NEW m \in [type : {"NONE", "AUTH", "JOIN", "MSG", "ERR", "BYE"}, number : Nat],
           Udp!Sends(m), m.type \in Udp!Chat => learned,
           outgoing' = outgoing \/ (outgoing # <<>> /\ outgoing' = Tail(outgoing)),
           confMail' = m
    PROVE  PortInv'
<1> DEFINE d == [type |-> m.type, number |-> m.number, port |-> server_port]
<1>1. d \in Datagram /\ d.type = m.type /\ d.port = server_port
  BY DEF Datagram, PortInv, PortTypes
<1>2. /\ toServer' = Append(toServer, d)
      /\ asked' = asked + IF d.type = "AUTH" /\ d.port = "known" THEN 1 ELSE 0
      /\ UNCHANGED <<server_port, state, toClient, moved, learned, returned>>
  BY DEF Udp!Sends
<1> HIDE DEF d
<1>3. toServer \in Seq(Datagram) /\ toClient \in Seq(Answer)
  BY DEF PortInv, PortTypes
<1>4. /\ toServer' \in Seq(Datagram)
      /\ \A i \in 1..Len(toServer') :
             (i \in 1..Len(toServer) /\ toServer'[i] = toServer[i]) \/ toServer'[i] = d
  BY <1>1, <1>2, <1>3, Newest
<1>5. /\ outgoing' \in Seq({"AUTH", "JOIN", "MSG", "ERR", "BYE"})
      /\ \A i \in 1..Len(outgoing') : \E j \in 1..Len(outgoing) : outgoing'[i] = outgoing[j]
  <2> DEFINE T == {"AUTH", "JOIN", "MSG", "ERR", "BYE"}
  <2>1. outgoing \in Seq(T)
    BY DEF PortInv, PortTypes
  <2> SUFFICES /\ outgoing' \in Seq(T)
               /\ \A i \in 1..Len(outgoing') :
                      \E j \in 1..Len(outgoing) : outgoing'[i] = outgoing[j]
    OBVIOUS
  <2> HIDE DEF T
  <2>2. CASE outgoing' = outgoing
    BY <2>1, <2>2
  <2>3. CASE outgoing # <<>> /\ outgoing' = Tail(outgoing)
    BY <2>1, <2>3, Oldest
  <2> QED
    BY <2>2, <2>3
<1>6. asked' \in Nat
  BY <1>2 DEF PortInv, PortTypes
<1>7. PortTypes'
  BY <1>2, <1>4, <1>5, <1>6 DEF PortInv, PortTypes
<1>8. Sides' /\ Talks' /\ Stays'
  BY <1>1, <1>2, <1>4, <1>5 DEF PortInv, Sides, Talks, Stays
<1>9. Budget'
  <2>1. Count(toServer', KnownAuths)
            = Count(toServer, KnownAuths) + IF d \in KnownAuths THEN 1 ELSE 0
    BY <1>1, <1>2, <1>3, CountAppend
  <2>2. d \in KnownAuths <=> d.type = "AUTH" /\ d.port = "known"
    BY <1>1 DEF KnownAuths
  <2>3. Spare' = Spare /\ Spare \in Nat /\ toClient' = toClient /\ returned' = returned
    BY <1>2 DEF Spare, Spent
  <2> HIDE DEF Spare
  <2> QED
    BY <1>2, <2>1, <2>2, <2>3, BudgetTypes DEF PortInv, Budget
<1> QED
  BY <1>7, <1>8, <1>9 DEF PortInv

LEMMA TransmitStep ==
    ASSUME PortInv, Udp!Transmit
    PROVE  PortInv'
<1>1. /\ outgoing # <<>> /\ outgoing' = Tail(outgoing)
      /\ confMail' = [type |-> Head(outgoing), number |-> confMail.number + 1]
      /\ Udp!Sends(confMail')
  BY DEF Udp!Transmit
<1>2. /\ outgoing[1] \in {"AUTH", "JOIN", "MSG", "ERR", "BYE"}
      /\ Head(outgoing) = outgoing[1] /\ 1 \in 1..Len(outgoing)
  BY <1>1 DEF PortInv, PortTypes
<1>3. /\ confMail' \in [type : {"NONE", "AUTH", "JOIN", "MSG", "ERR", "BYE"}, number : Nat]
      /\ confMail'.type = outgoing[1]
  BY <1>1, <1>2 DEF PortInv, PortTypes
<1>4. confMail'.type \in Udp!Chat => learned
  BY <1>2, <1>3 DEF PortInv, Talks
<1> QED
  BY <1>1, <1>3, <1>4, SendsStep

LEMMA RepeatStep ==
    ASSUME PortInv, Udp!Repeat
    PROVE  PortInv'
<1>1. Udp!Sends(confMail) /\ confMail' = confMail /\ outgoing' = outgoing
  BY DEF Udp!Repeat
<1>2. /\ confMail \in [type : {"NONE", "AUTH", "JOIN", "MSG", "ERR", "BYE"}, number : Nat]
      /\ confMail.type \in Udp!Chat => learned
  BY DEF PortInv, PortTypes, Talks
<1> QED
  BY <1>1, <1>2, SendsStep

LEMMA FsmStep ==
    ASSUME PortInv, Udp!Fsm
    PROVE  PortInv'
<1>1. UNCHANGED <<server_port, confMail, toServer, toClient, moved, learned, asked, returned>>
  BY DEF Udp!Fsm, Udp!FsmAuth, Udp!FsmChat, Udp!FsmErr, Udp!FsmBye, Udp!FsmHears, Udp!Says,
         Udp!historyVars
<1>2. Sides' /\ Stays' /\ Budget'
  BY <1>1 DEF PortInv, Sides, Stays, Budget, Spare, Spent
<1>3. \/ /\ \E t \in {"AUTH", "JOIN", "MSG", "ERR", "BYE"} :
               outgoing' = Append(outgoing, t) /\ (t \in Udp!Chat => state = "OPEN")
         /\ state' = "OPEN" => state = "OPEN"
      \/ outgoing' = outgoing /\ (state' = "OPEN" => learned)
  BY DEF Udp!Fsm, Udp!FsmAuth, Udp!FsmChat, Udp!FsmErr, Udp!FsmBye, Udp!FsmHears, Udp!Says,
         Udp!Chat
<1>4. outgoing' \in Seq({"AUTH", "JOIN", "MSG", "ERR", "BYE"}) /\ Talks'
  <2>1. CASE outgoing' = outgoing /\ (state' = "OPEN" => learned)
    BY <1>1, <2>1 DEF PortInv, PortTypes, Talks
  <2>2. ASSUME NEW t \in {"AUTH", "JOIN", "MSG", "ERR", "BYE"},
               outgoing' = Append(outgoing, t), t \in Udp!Chat => state = "OPEN",
               state' = "OPEN" => state = "OPEN"
        PROVE  outgoing' \in Seq({"AUTH", "JOIN", "MSG", "ERR", "BYE"}) /\ Talks'
    <3>1. /\ outgoing' \in Seq({"AUTH", "JOIN", "MSG", "ERR", "BYE"})
          /\ \A i \in 1..Len(outgoing') :
                 (i \in 1..Len(outgoing) /\ outgoing'[i] = outgoing[i]) \/ outgoing'[i] = t
      BY <2>2 DEF PortInv, PortTypes
    <3> QED
      BY <1>1, <2>2, <3>1 DEF PortInv, Talks
  <2> QED
    BY <1>3, <2>1, <2>2
<1>5. PortTypes'
  BY <1>1, <1>4 DEF PortInv, PortTypes
<1> QED
  BY <1>2, <1>4, <1>5 DEF PortInv

(* The server answers from the port of the mail, or from its own.          *)
LEMMA AnswerStep ==
    ASSUME PortInv, NEW a \in Answer, toClient' = Append(toClient, a), moved' = TRUE,
           UNCHANGED <<server_port, state, outgoing, confMail, learned, asked, returned>>,
           \/ /\ toServer' = toServer /\ a.port = "own" /\ moved
           \/ /\ toServer # <<>> /\ toServer' = Tail(toServer)
              /\ a.port = toServer[1].port
              /\ a.port = "own" \/ toServer[1].type = "AUTH"
    PROVE  PortInv'
<1>1. toServer \in Seq(Datagram) /\ toClient \in Seq(Answer)
  BY DEF PortInv, PortTypes
<1>2. /\ toServer' \in Seq(Datagram)
      /\ \A i \in 1..Len(toServer') : \E j \in 1..Len(toServer) : toServer'[i] = toServer[j]
  <2>1. CASE toServer' = toServer
    BY <1>1, <2>1
  <2>2. CASE toServer # <<>> /\ toServer' = Tail(toServer)
    BY <1>1, <2>2, Oldest
  <2> QED
    BY <2>1, <2>2
<1>3. /\ toClient' \in Seq(Answer) /\ toClient' # <<>>
      /\ toClient # <<>> => toClient'[1] = toClient[1]
      /\ toClient = <<>> => toClient'[1] = a
  BY <1>1, Newest
<1>4. a.port \in {"known", "own"}
  BY DEF Answer, Udp!Port
<1>5. PortTypes'
  BY <1>2, <1>3 DEF PortInv, PortTypes
<1>6. Sides' /\ Talks' /\ Stays'
  BY <1>2 DEF PortInv, Sides, Talks, Stays
<1>7. /\ Count(toClient', KnownAnswers)
            = Count(toClient, KnownAnswers) + (IF a.port = "known" THEN 1 ELSE 0)
      /\ Count(toServer', KnownAuths) \in Nat
  <2>1. a \in KnownAnswers <=> a.port = "known"
    BY DEF KnownAnswers
  <2> QED
    BY <1>1, <1>2, <2>1, CountAppend, CountIsNatural
<1>8. Count(toServer', KnownAuths) + (IF a.port = "known" THEN 1 ELSE 0)
          <= Count(toServer, KnownAuths)
  <2>1. CASE toServer' = toServer /\ a.port = "own"
    BY <2>1, <1>7
  <2>2. CASE toServer # <<>> /\ toServer' = Tail(toServer) /\ a.port = toServer[1].port
             /\ (a.port = "own" \/ toServer[1].type = "AUTH")
    <3>1. a.port = "known" => toServer[1] \in KnownAuths
      <4>1. toServer[1] \in Datagram
        BY <1>1, <2>2, Oldest
      <4> QED
        BY <2>2, <4>1 DEF KnownAuths
    <3>2. Count(toServer, KnownAuths)
              = Count(toServer', KnownAuths) + (IF toServer[1] \in KnownAuths THEN 1 ELSE 0)
      BY <1>1, <2>2, CountTail
    <3> QED
      BY <1>7, <3>1, <3>2
  <2> QED
    BY <2>1, <2>2
<1>9. Spare' <= Spare /\ Spare \in Nat /\ Spare' \in Nat
  <2>1. CASE moved
    <3>1. Spent' => Spent
      BY <1>3, <2>1 DEF Spent
    <3> QED
      BY <3>1 DEF Spare
  <2>2. CASE ~moved
    <3>1. toClient = <<>> /\ ~learned /\ toServer # <<>> /\ a.port = toServer[1].port
      BY <2>2 DEF PortInv, Sides
    <3>2. a.port = "known"
      <4>1. 1 \in 1..Len(toServer)
        BY <1>1, <3>1, Oldest
      <4> QED
        BY <1>4, <3>1, <4>1 DEF PortInv, Sides
    <3>3. ~Spent'
      BY <1>3, <3>1, <3>2 DEF Spent
    <3> QED
      BY <3>3 DEF Spare
  <2> QED
    BY <2>1, <2>2 DEF PortInv, PortTypes
<1>10. Budget'
  <2> HIDE DEF Spare
  <2> QED
    BY <1>7, <1>8, <1>9, BudgetTypes DEF PortInv, Budget
<1> QED
  BY <1>5, <1>6, <1>10 DEF PortInv

LEMMA EnvironmentStep ==
    ASSUME PortInv, Udp!Environment
    PROVE  PortInv'
<1>1. CASE Udp!ServerHears
  <2> DEFINE a == [port |-> Head(toServer).port, ref |-> Head(toServer).number]
  <2>1. /\ toServer # <<>> /\ toServer' = Tail(toServer)
        /\ Head(toServer).port = "own" \/ Head(toServer).type = "AUTH"
        /\ toClient' = Append(toClient, a) /\ moved' = TRUE
        /\ UNCHANGED <<server_port, state, outgoing, confMail, learned, asked, returned>>
    BY <1>1 DEF Udp!ServerHears, Udp!clientVars, Udp!historyVars
  <2>2. Head(toServer) = toServer[1] /\ toServer[1] \in Datagram
    BY <2>1, Oldest DEF PortInv, PortTypes
  <2>3. a \in Answer /\ a.port = toServer[1].port
    BY <2>2 DEF Answer, Datagram
  <2> HIDE DEF a
  <2> QED
    BY <2>1, <2>2, <2>3, AnswerStep
<1>2. CASE Udp!ServerSays
  <2> DEFINE a == [port |-> "own", ref |-> 0]
  <2>1. /\ moved /\ toClient' = Append(toClient, a)
        /\ UNCHANGED <<server_port, state, outgoing, confMail, toServer, moved, learned,
                       asked, returned>>
    BY <1>2 DEF Udp!ServerSays, Udp!clientVars, Udp!historyVars
  <2>2. a \in Answer /\ a.port = "own"
    BY DEF Answer, Udp!Port
  <2>3. moved' = TRUE
    BY <2>1 DEF PortInv, PortTypes
  <2> HIDE DEF a
  <2> QED
    BY <2>1, <2>2, <2>3, AnswerStep
<1>3. CASE Udp!LoseToServer
  BY <1>3, LoseToServerStep DEF Udp!LoseToServer, Udp!clientVars, Udp!historyVars
<1>4. CASE Udp!LoseToClient
  BY <1>4, ToClientStep DEF Udp!LoseToClient, Udp!clientVars, Udp!historyVars
<1> QED
  BY <1>1, <1>2, <1>3, <1>4 DEF Udp!Environment

LEMMA ReceivesStep ==
    ASSUME PortInv, Udp!ClientReceives
    PROVE  PortInv'
<1>1. Head(toClient) = toClient[1] /\ toClient # <<>>
  BY Oldest DEF Udp!ClientReceives, PortInv, PortTypes
<1> QED
  BY <1>1, ToClientStep DEF Udp!ClientReceives, Udp!PortAfter

(* What the invariant is for.                                              *)
LEMMA PortKept == PortInv => SendsWhereItIsHeard
<1> SUFFICES ASSUME PortInv PROVE SendsWhereItIsHeard
  OBVIOUS
<1>1. learned => returned < asked
  <2>1. learned => Spare = 1
    BY DEF Spare, Spent
  <2> QED
    BY <2>1, BudgetTypes DEF PortInv, Budget
<1>2. asked = 1 => returned = 0
  BY <1>1 DEF PortInv, PortTypes, Sides
<1>3. returned = 0 => (learned => server_port = "own") /\ ~Udp!SentTo("known", Udp!Chat)
  BY DEF PortInv, Stays, Udp!SentTo
<1> QED
  BY <1>1, <1>2, <1>3 DEF SendsWhereItIsHeard, Udp!SendsWhereItIsHeard

(* receiveData: following whoever sent the last datagram leads a client    *)
(* that the server has taken up back to the known port less often than it  *)
(* has sent AUTHs there, and never if that was one: its whole conversation *)
(* then goes where it is heard, whatever the FSM says and is answered,     *)
(* whatever is repeated or lost, and however much there is of all that.    *)
THEOREM SendsWhereItIsHeardHolds == ConnectionSpec => []SendsWhereItIsHeard
<1>1. ConnectionInit => PortInv
  <2> SUFFICES ASSUME Udp!Init PROVE PortInv
    BY DEF ConnectionInit
  <2>1. /\ server_port = "known" /\ state = "START" /\ outgoing = <<>>
        /\ confMail = [type |-> "NONE", number |-> 0]
        /\ toServer = <<>> /\ toClient = <<>>
        /\ moved = FALSE /\ learned = FALSE /\ asked = 0 /\ returned = 0
    BY Zenon DEF Udp!Init
  <2>2. PortTypes
    <3>1. /\ <<>> \in Seq(Datagram) /\ <<>> \in Seq(Answer)
          /\ <<>> \in Seq({"AUTH", "JOIN", "MSG", "ERR", "BYE"})
      OBVIOUS
    <3>2. confMail \in [type : {"NONE", "AUTH", "JOIN", "MSG", "ERR", "BYE"}, number : Nat]
      BY <2>1
    <3> QED
      BY <2>1, <3>1, <3>2 DEF PortTypes, Udp!Port
  <2>3. Sides /\ Talks /\ Stays
    BY <2>1 DEF Sides, Talks, Stays, Udp!Chat
  <2>4. Budget
    <3>1. Among(toServer, KnownAuths) = {} /\ Among(toClient, KnownAnswers) = {}
      BY <2>1 DEF Among
    <3>2. Count(toServer, KnownAuths) = 0 /\ Count(toClient, KnownAnswers) = 0
      BY <3>1, FS_EmptySet DEF Count
    <3>3. Spare = 0
      BY <2>1 DEF Spare, Spent
    <3> QED
      BY <2>1, <3>2, <3>3 DEF Budget
  <2> QED
    BY <2>2, <2>3, <2>4 DEF PortInv
<1>2. PortInv /\ [ConnectionNext]_<<vars, portVars>> => PortInv'
  <2>1. PortInv /\ Udp!Next => PortInv'
    BY FsmStep, TransmitStep, RepeatStep, ReceivesStep, EnvironmentStep
       DEF Udp!Next, Udp!Client
  <2>2. PortInv /\ UNCHANGED portVars => PortInv'
    BY DEF PortInv, PortTypes, Sides, Talks, Stays, Budget, Spare, Spent, portVars
  <2> QED
    BY <2>1, <2>2 DEF ConnectionNext, Start, Traffic
<1> QED
  BY <1>1, <1>2, PortKept, PTL DEF ConnectionSpec
=============================================================================
