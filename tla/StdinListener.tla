--------------------------- MODULE StdinListener ----------------------------
(***************************************************************************)
(* The class StdinListener (src/src/listeners.cpp): the thread that waits  *)
(* in select, a second at a time, for what the user types, and writes each *)
(* line into the StdinPipe.  Lines are taken one by one, as a terminal     *)
(* gives them.                                                             *)
(***************************************************************************)
EXTENDS MailBox

VARIABLES
    stdinPc,      \* where the thread is in runListener
    stdinKeep     \* StdinListener::keepRunning

stdinVars == <<stdinPc, stdinKeep>>

(* "select": in select.  "done": runListener has returned.                 *)
StdinTypeOK == stdinPc \in {"select", "done"} /\ stdinKeep \in BOOLEAN

StdinInit == stdinPc = "select" /\ stdinKeep = TRUE

Selecting == process = "running" /\ stdinPc = "select"

NextTurnAlways == stdinPc' = "select"

(* The head of the loop, at the end of a turn: keepRunning was read before *)
(* select was called, so stop() is noticed a turn later.                   *)
NextTurn == stdinPc' = IF stdinKeep THEN "select" ELSE "done"

StdinTimeout ==
    /\ Selecting
    /\ NextTurn
    /\ UNCHANGED <<stdinKeep, mailboxVars, pipeVars>>

StdinLine(line) ==
    /\ Selecting
    /\ stdinPipe' = Append(stdinPipe, line)
    /\ NextTurn
    /\ UNCHANGED <<stdinKeep, mailboxVars, signalPipe>>

(* The end of the user's input is passed on as an interrupt.               *)
StdinEof ==
    /\ Selecting
    /\ signalPipe' = signalPipe + 1
    /\ stdinPc' = "done"
    /\ UNCHANGED <<stdinKeep, mailboxVars, stdinPipe>>
=============================================================================
