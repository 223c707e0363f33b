------------------------------- MODULE StartUp ------------------------------
(***************************************************************************)
(* The start of the program: ArgumentParser (src/src/arg-parser.cpp) walks *)
(* over the options, and NetworkConnection (src/src/net.cpp) opens the     *)
(* connection.  Its results are the constants Protocol and Retries of      *)
(* Listener and Timeout of RetryTimer; what a UDP connection then does to  *)
(* the port is in Connection.                                              *)
(***************************************************************************)
EXTENDS Integers, SequencesExt, FiniteSetsExt

CONSTANTS
    Options,      \* the options that can be given
    MaxOptions    \* bound on how many of them are

Int32 == (-2147483647 - 1)..2147483647

(* An option with its argument: a word, whether stoi finds an int in it,   *)
(* and the int that atoi makes of it.  getopt returns "?" for an option    *)
(* that is unknown or lacks its argument.                                  *)
OptionRecord ==
    [opt : {"t", "s", "p", "d", "r", "h", "v", "?"}, word : STRING,
     isInt : BOOLEAN, atoi : Int32]

ASSUME OptionsAssumption == Options \subseteq OptionRecord /\ MaxOptions \in Nat

VARIABLES
    args,         \* the options given
    optind,       \* how many of them getopt has returned
    type, typeSet, ip, ipSet, port, timeout, retries,
    outcome       \* "parsing", "parsed" or how the process has gone on

parserVars == <<type, typeSet, ip, ipSet, port, timeout, retries>>
vars == <<args, optind, parserVars, outcome>>

Width16(n) == n % 65536

(* Mutant of the next definition.                                          *)
Width8IsInt(n) == n

(* retries is a uint8_t.                                                   *)
Width8(n) == n % 256

Init ==
    /\ args \in BoundedSeq(Options, MaxOptions)
    /\ optind = 0
    /\ type = "unset" /\ typeSet = FALSE /\ ip = "" /\ ipSet = FALSE
    /\ port = 4567 /\ timeout = 250 /\ retries = 3
    /\ outcome = "parsing"

Parsing(opts) ==
    /\ outcome = "parsing"
    /\ optind < Len(args)
    /\ args[optind + 1].opt \in opts
    /\ optind' = optind + 1
    /\ UNCHANGED args

Current == args[optind + 1]

(* usage(): exit(1).                                                       *)
Usage == outcome' = "usage" /\ UNCHANGED parserVars

ParseType ==
    /\ Parsing({"t"})
    /\ IF Current.word \in {"tcp", "udp"}
       THEN /\ type' = Current.word
            /\ typeSet' = TRUE
            /\ UNCHANGED <<ip, ipSet, port, timeout, retries, outcome>>
       ELSE Usage

ParseServer ==
    /\ Parsing({"s"})
    /\ ip' = Current.word /\ ipSet' = TRUE
    /\ UNCHANGED <<type, typeSet, port, timeout, retries, outcome>>

(* std::stoi throws a logic_error where there is no number, or none that   *)
(* an int holds, and main does not catch it.                               *)
ParsePort ==
    /\ Parsing({"p"})
    /\ IF Current.isInt
       THEN /\ port' = Width16(Current.atoi)
            /\ UNCHANGED <<type, typeSet, ip, ipSet, timeout, retries, outcome>>
       ELSE outcome' = "terminated" /\ UNCHANGED parserVars

ParseTimeout ==
    /\ Parsing({"d"})
    /\ timeout' = Width16(Current.atoi)
    /\ UNCHANGED <<type, typeSet, ip, ipSet, port, retries, outcome>>

ParseRetries ==
    /\ Parsing({"r"})
    /\ retries' = Width8(Current.atoi)
    /\ UNCHANGED <<type, typeSet, ip, ipSet, port, timeout, outcome>>

ParseVerbose ==
    /\ Parsing({"v"})
    /\ UNCHANGED <<parserVars, outcome>>

ParseHelp == Parsing({"h", "?"}) /\ Usage

ParseEnd ==
    /\ outcome = "parsing"
    /\ optind = Len(args)
    /\ outcome' = IF typeSet /\ ipSet THEN "parsed" ELSE "usage"
    /\ UNCHANGED <<args, optind, parserVars>>

(* openConnection, which fails or throws, and main returns -1.             *)
Opening(protocol) ==
    /\ outcome = "parsed"
    /\ type = protocol
    /\ outcome' \in {"running", "exit-1"}
    /\ UNCHANGED <<args, optind, parserVars>>

(* TCP connects; UDP only looks up the server.                             *)
OpenTcp == Opening("tcp")
OpenUdp == Opening("udp")

Next ==
    \/ ParseType \/ ParseServer \/ ParsePort \/ ParseTimeout \/ ParseRetries
    \/ ParseVerbose \/ ParseHelp \/ ParseEnd
    \/ OpenTcp \/ OpenUdp

Spec == Init /\ [][Next]_vars

-----------------------------------------------------------------------------
Given(opt) == {i \in 1..Len(args) : args[i].opt = opt}

(* The options that end the program when they are reached.                 *)
Fatal ==
    {i \in 1..Len(args) :
        \/ args[i].opt \in {"h", "?"}
        \/ args[i].opt = "t" /\ args[i].word \notin {"tcp", "udp"}
        \/ args[i].opt = "p" /\ ~args[i].isInt}

LastNumber(opt, default, modulus) ==
    IF Given(opt) = {} THEN default
    ELSE args[Max(Given(opt))].atoi % modulus

(* The whole command line decides, not the order of the walk: the first    *)
(* fatal option says how the program ends, a missing type or server comes  *)
(* after all of them, and of a repeated option the last one counts, with   *)
(* the width of its field.                                                 *)
ParsedAsGiven ==
    /\ outcome = "terminated" => Fatal # {} /\ args[Min(Fatal)].opt = "p"
    /\ outcome = "usage" =>
           IF Fatal # {} THEN args[Min(Fatal)].opt # "p"
           ELSE Given("t") = {} \/ Given("s") = {}
    /\ outcome \in {"parsed", "running", "exit-1"} =>
           /\ Fatal = {} /\ Given("t") # {} /\ Given("s") # {}
           /\ type = args[Max(Given("t"))].word
           /\ ip = args[Max(Given("s"))].word
           /\ port = LastNumber("p", 4567, 65536)
           /\ timeout = LastNumber("d", 250, 65536)
           /\ retries = LastNumber("r", 3, 256)
=============================================================================
