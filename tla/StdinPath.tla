------------------------------ MODULE StdinPath -----------------------------
(***************************************************************************)
(* How a line gets from standard input to MailBox::writeMail, byte by byte *)
(* (src/src/listeners.cpp): the StdinListener waits in select, takes a     *)
(* line with std::getline, which reads ahead into stdio's buffer, and      *)
(* writes it to the StdinPipe; Listener::listenStdin reads a bufferful and *)
(* cuts it into lines.  StdinListener and Listener take all of this as the *)
(* steps StdinLine, ListenStdin and ListenStdinLine.                       *)
(***************************************************************************)
EXTENDS Naturals, SequencesExt

CONSTANTS
    Ttys,         \* values of tty
    Lengths,      \* lengths of the lines, without their newline
    BufferSize,   \* bytes listenStdin reads at a time: 1023
    MaxLines      \* bound on the lines

ASSUME StdinPathAssumption ==
    /\ Ttys \subseteq BOOLEAN
    /\ Lengths \subseteq Nat
    /\ BufferSize \in Nat \ {0} /\ MaxLines \in Nat

VARIABLES
    tty,         \* standard input is a terminal: it gives whole lines, one
                 \* to a read; a pipe or a file gives what there is
    typed,       \* the lines of the user, the first first
    unwritten,   \* bytes of them that have not reached standard input
    closed,      \* standard input has ended
    input,       \* bytes in standard input
    cin,         \* bytes stdio has read and getline not yet taken
    stdinPipe,   \* bytes in the StdinPipe
    buf,         \* bytes listenStdin has read and not yet gone through
    handed,      \* the lines given to writeMail
    overfull,    \* history: the last read has left bytes in the StdinPipe
    cuts,        \* history: how often a part of a line has gone with the buffer
    stdinPc,     \* where the StdinListener is in runListener
    stdinKeep,   \* StdinListener::keepRunning
    signalled    \* the end of the input has been written to the SignalPipe

userVars == <<tty, typed, unwritten, closed>>
readerVars == <<stdinPc, stdinKeep, signalled>>
listenerVars == <<buf, handed, overfull, cuts>>
vars == <<userVars, input, cin, stdinPipe, listenerVars, readerVars>>

(* A byte of the n-th line is n: which letter it is does not matter.       *)
Newline == 0

StdinPathTypeOK ==
    /\ typed \in Seq(Seq(1..MaxLines)) /\ handed \in Seq(Seq(1..MaxLines))
    /\ \A s \in {unwritten, input, cin, stdinPipe, buf} : s \in Seq(0..MaxLines)
    /\ tty \in Ttys /\ closed \in BOOLEAN /\ stdinKeep \in BOOLEAN
    /\ signalled \in BOOLEAN /\ overfull \in BOOLEAN /\ cuts \in Nat
    /\ stdinPc \in {"select", "getline", "done"}

Init ==
    /\ tty \in Ttys
    /\ typed = <<>> /\ unwritten = <<>> /\ closed = FALSE
    /\ input = <<>> /\ cin = <<>> /\ stdinPipe = <<>> /\ buf = <<>> /\ handed = <<>>
    /\ stdinPc = "select" /\ stdinKeep = TRUE /\ signalled = FALSE
    /\ overfull = FALSE /\ cuts = 0

First(s, n) == SubSeq(s, 1, n)
After(s, n) == SubSeq(s, n + 1, Len(s))

(* The length of the first line of s, its newline included; 0 when s has   *)
(* no whole line.                                                          *)
LineEnd(s) == SelectInSeq(s, LAMBDA b : b = Newline)

-----------------------------------------------------------------------------
(* The user, or the program that feeds standard input.                     *)

UserTypes(n) ==
    LET line == [i \in 1..n |-> Len(typed) + 1] IN
    /\ ~closed
    /\ Len(typed) < MaxLines
    /\ typed' = Append(typed, line)
    /\ unwritten' = unwritten \o line \o <<Newline>>
    /\ UNCHANGED <<tty, closed, input, cin, stdinPipe, listenerVars, readerVars>>

(* A terminal hands lines over when they end, a pipe whatever is written.  *)
UserWrites ==
    \E n \in 1..Len(unwritten) :
        /\ tty => unwritten[n] = Newline
        /\ input' = input \o First(unwritten, n)
        /\ unwritten' = After(unwritten, n)
        /\ UNCHANGED <<tty, typed, closed, cin, stdinPipe, listenerVars, readerVars>>

UserCloses ==
    /\ ~closed
    /\ unwritten = <<>>
    /\ closed' = TRUE
    /\ UNCHANGED <<tty, typed, unwritten, input, cin, stdinPipe, listenerVars, readerVars>>

-----------------------------------------------------------------------------
(* The StdinListener.                                                      *)

ReadableWithoutEnd == input # <<>>

(* select knows of the descriptor, and not of what stdio has taken from it.*)
Readable == input # <<>> \/ closed

NextTurnAlways == stdinPc' = "select"

(* The head of the loop, at the end of a turn.                             *)
NextTurn == stdinPc' = IF stdinKeep THEN "select" ELSE "done"

SelectReady ==
    /\ stdinPc = "select"
    /\ Readable
    /\ stdinPc' = "getline"
    /\ UNCHANGED <<userVars, input, cin, stdinPipe, listenerVars, stdinKeep, signalled>>

(* Mutant of the next definition.                                          *)
SelectTimeoutEnds ==
    /\ stdinPc = "select"
    /\ ~Readable
    /\ stdinPc' = "done"
    /\ UNCHANGED <<userVars, input, cin, stdinPipe, listenerVars, stdinKeep, signalled>>

SelectTimeout ==
    /\ stdinPc = "select"
    /\ ~Readable
    /\ NextTurn
    /\ UNCHANGED <<userVars, input, cin, stdinPipe, listenerVars, stdinKeep, signalled>>

(* stdio's read: a line from a terminal, all there is from a pipe.  When   *)
(* there is nothing, and no end either, getline waits here.                *)
GetlineReadsAhead ==
    /\ stdinPc = "getline"
    /\ LineEnd(cin) = 0
    /\ input # <<>>
    /\ LET n == IF tty THEN LineEnd(input) ELSE Len(input)
       IN  cin' = cin \o First(input, n) /\ input' = After(input, n)
    /\ UNCHANGED <<userVars, stdinPipe, listenerVars, readerVars>>

GetlineReturns ==
    LET n == LineEnd(cin) IN
    /\ stdinPc = "getline"
    /\ n > 0
    /\ cin' = After(cin, n)
    /\ stdinPipe' = stdinPipe \o First(cin, n)
    /\ NextTurn
    /\ UNCHANGED <<userVars, input, listenerVars, stdinKeep, signalled>>

(* Every line the input holds ends in a newline here: getline fails only   *)
(* when there is nothing left at all.                                      *)
GetlineFails ==
    /\ stdinPc = "getline"
    /\ cin = <<>> /\ input = <<>> /\ closed
    /\ signalled' = TRUE
    /\ stdinPc' = "done"
    /\ UNCHANGED <<userVars, input, cin, stdinPipe, listenerVars, stdinKeep>>

-----------------------------------------------------------------------------
(* The Listener, in listenStdin.                                           *)

(* Mutant of the next definition.                                          *)
ReadsAtMostTwo == IF Len(stdinPipe) < 2 THEN Len(stdinPipe) ELSE 2

(* read(fd, buf, sizeof(buf) - 1).                                         *)
ReadsAtMost == IF Len(stdinPipe) < BufferSize THEN Len(stdinPipe) ELSE BufferSize

ListenStdin ==
    /\ buf = <<>>
    /\ stdinPipe # <<>>
    /\ buf' = First(stdinPipe, ReadsAtMost)
    /\ stdinPipe' = After(stdinPipe, ReadsAtMost)
    /\ overfull' = (Len(stdinPipe) > BufferSize)
    /\ UNCHANGED <<userVars, input, cin, handed, cuts, readerVars>>

(* Mutant of the next definition.                                          *)
LineUpToWithNewline(n) == First(buf, n)

LineUpTo(n) == First(buf, n - 1)

(* A line of the buffer, unless it is empty, becomes a mail.               *)
ListenStdinLine ==
    LET n == LineEnd(buf) IN
    /\ n > 0
    /\ buf' = After(buf, n)
    /\ handed' = IF n > 1 THEN Append(handed, LineUpTo(n)) ELSE handed
    /\ UNCHANGED <<userVars, input, cin, stdinPipe, overfull, cuts, readerVars>>

(* What is left without a newline goes with the buffer.                    *)
ListenStdinDrops ==
    /\ buf # <<>>
    /\ LineEnd(buf) = 0
    /\ buf' = <<>>
    /\ cuts' = cuts + 1
    /\ UNCHANGED <<userVars, input, cin, stdinPipe, handed, overfull, readerVars>>

-----------------------------------------------------------------------------
(* StdinListener::stop, at any time.                                       *)
Stop ==
    /\ stdinKeep
    /\ stdinKeep' = FALSE
    /\ UNCHANGED <<userVars, input, cin, stdinPipe, listenerVars, stdinPc, signalled>>

User == UserWrites \/ UserCloses \/ \E n \in Lengths : UserTypes(n)

Reader ==
    SelectReady \/ SelectTimeout \/ GetlineReadsAhead \/ GetlineReturns \/ GetlineFails

Listener == ListenStdin \/ ListenStdinLine \/ ListenStdinDrops

Next == User \/ Reader \/ Listener \/ Stop

Spec == Init /\ [][Next]_vars

(* The threads run; nothing is asked of the user.                          *)
FairSpec == Spec /\ WF_vars(Reader) /\ WF_vars(Listener)

-----------------------------------------------------------------------------
(* The lines that bytes make up, and the one that is still open: the empty *)
(* ones make no mail.                                                      *)
NoLines == [line |-> <<>>, all |-> <<>>]

Take(acc, b) ==
    IF b # Newline THEN [acc EXCEPT !.line = Append(@, b)]
    ELSE [ line |-> <<>>,
           all |-> IF acc.line = <<>> THEN acc.all ELSE Append(acc.all, acc.line) ]

TakeAll(acc, bytes) ==
    LET upTo[n \in 0..Len(bytes)] == IF n = 0 THEN acc ELSE Take(upTo[n - 1], bytes[n])
    IN  upTo[Len(bytes)]

LinesIn(bytes) == TakeAll(NoLines, bytes).all

Underway == buf \o stdinPipe \o cin \o input \o unwritten

LineBytes == UNION {[1..n -> {k}] : n \in Lengths, k \in 1..MaxLines}

Fifo == INSTANCE ReliableFifo WITH Item <- LineBytes, queue <- LinesIn(Underway),
                                   delivered <- handed

(* listenStdin, std::getline: from the user's key presses to writeMail the *)
(* bytes go through five buffers, cut in other places by each reader.      *)
(* What comes out is the user's lines, each once, whole and in order; only *)
(* when more was waiting than listenStdin reads at a time is a line cut at *)
(* the end of its buffer, and nothing but this line.                       *)
IsLineFifo ==
    /\ Fifo!Init
    /\ [][Fifo!Next \/ (ListenStdinDrops /\ overfull)]_<<LinesIn(Underway), handed>>

(* How many lines have reached standard input, newline and all.            *)
Written ==
    LET unended == Len(SelectSeq(unwritten, LAMBDA b : b = Newline))
    IN  Len(SelectSeq(First(typed, Len(typed) - unended), LAMBDA line : line # <<>>))

(* README: input that has been received is handed over, whether or not     *)
(* more follows, unless the StdinListener is told to stop meanwhile, and   *)
(* but for one line each time listenStdin drops the end of its buffer.  Of *)
(* a pipe, lines that getline has read ahead wait for select to see more.  *)
EveryLineHanded ==
    \A k \in 1..MaxLines :
        (tty /\ Written >= k) ~> (Len(handed) + cuts >= k \/ ~stdinKeep)

(* stop() joins the thread: at a terminal it ends.  In front of a pipe it  *)
(* can be in getline, with half a line that is never ended.                *)
StopEnds == (tty /\ ~stdinKeep) ~> (stdinPc = "done")

(* The end of the input is passed on as an interrupt, after the lines.     *)
EndIsLast == signalled => cin \o input \o unwritten = <<>>

EndSignalled == (closed ~> (signalled \/ ~stdinKeep)) /\ []EndIsLast
=============================================================================
