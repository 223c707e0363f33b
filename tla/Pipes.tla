------------------------------- MODULE Pipes --------------------------------
(***************************************************************************)
(* The three objects of the class Pipe (src/src/headers/pipes.h) that      *)
(* runMain makes, as what is in them: the threads wake the Listener        *)
(* through them.  A write appends and a read takes from the front; none of *)
(* them is taken to fill up (64 KiB on Linux), so a write never blocks.    *)
(***************************************************************************)
EXTENDS Mail, Sequences

VARIABLES
    stdinPipe,     \* lines the StdinListener has written, as Line values
    toSendPipe,    \* bytes sendMail has written, one for each mail
    signalPipe     \* bytes the signal handler has written

pipeVars == <<stdinPipe, signalPipe>>

(* enum fdType, without Unknown, which no descriptor has.                  *)
FdType == {"StdinPipe", "SocketPipe", "ToSendPipe", "SignalPipe"}

PipesTypeOK ==
    /\ stdinPipe \in Seq(Line)
    /\ toSendPipe \in Nat
    /\ signalPipe \in Nat

PipesInit ==
    /\ stdinPipe = <<>>
    /\ toSendPipe = 0
    /\ signalPipe = 0
=============================================================================
