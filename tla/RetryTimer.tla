----------------------------- MODULE RetryTimer -----------------------------
(***************************************************************************)
(* The timer behind the retries of Listener::runListener (src/src/         *)
(* listeners.cpp) and its StopWatch (src/src/headers/stopwatch.h), in      *)
(* discrete time.  Time passes in epoll_wait only.  A wait ends exactly    *)
(* when its timeout does, or with an event; that it may end later is what  *)
(* the variable overslept of Listener is for.                              *)
(***************************************************************************)
EXTENDS Integers

CONSTANTS
    Timeout,       \* NetworkConnection::getTimeout()
    Retries,       \* NetworkConnection::getRetries()
    FsmLatency,    \* bound on the time the FSM takes to answer a mail with a mail
    MaxEvents,     \* bound on the events while a mail is unconfirmed
    MaxTime        \* bound on time

ASSUME TimesAssumption ==
    /\ Timeout \in Nat /\ FsmLatency \in Nat /\ MaxTime \in Nat
    /\ FsmLatency <= Timeout
ASSUME CountsAssumption == Retries \in Nat /\ MaxEvents \in Nat

VARIABLES
    now,
    start_time, end_time, isStopped,    \* of the StopWatch
    timeout,                            \* of the current wait: none if negative
    receivedConfirm, retries,
    pc,               \* "run", "wait", or "gaveUp"
    due,              \* the FSM has a mail to send
    sentAt,           \* when the unconfirmed mail was last transmitted
    interruptions     \* waits since then that ended with an event

watchVars == <<start_time, end_time, isStopped>>
vars == <<now, watchVars, timeout, receivedConfirm, retries, pc, due, sentAt,
          interruptions>>

FlagsOK ==
    isStopped \in BOOLEAN /\ receivedConfirm \in BOOLEAN /\ due \in BOOLEAN

NumbersOK ==
    /\ now \in Nat /\ start_time \in Nat /\ end_time \in Nat /\ sentAt \in Nat
    /\ timeout \in Int
    /\ retries \in 0..Retries
    /\ interruptions \in 0..MaxEvents

TimerTypeOK == FlagsOK /\ NumbersOK /\ pc \in {"run", "wait", "gaveUp"}

Init ==
    /\ now = 0
    /\ start_time = 0 /\ end_time = 0 /\ isStopped = FALSE
    /\ timeout = -1
    /\ receivedConfirm = TRUE /\ retries = 0
    /\ pc = "run" /\ due = FALSE
    /\ sentAt = 0 /\ interruptions = 0

-----------------------------------------------------------------------------
(* The StopWatch.                                                          *)

(* Mutant of the next definition.                                          *)
StartedOnce == isStopped' = FALSE /\ UNCHANGED <<start_time, end_time>>

Started == start_time' = now /\ isStopped' = FALSE /\ UNCHANGED end_time

Stopped == end_time' = now /\ isStopped' = TRUE /\ UNCHANGED start_time

(* Mutant of the next definition.                                          *)
ResetNot == Stopped

(* stop() and then reset().                                                *)
Reset == start_time' = now /\ end_time' = now /\ isStopped' = TRUE

Duration == (IF isStopped THEN end_time ELSE now) - start_time

-----------------------------------------------------------------------------
(* Mutant of the next definition.                                          *)
RemainingAll == Timeout

Remaining == Timeout - Duration

LoopTop ==
    /\ pc = "run"
    /\ timeout' = IF receivedConfirm THEN -1 ELSE Remaining
    /\ Started
    /\ pc' = "wait"
    /\ UNCHANGED <<now, receivedConfirm, retries, due, sentAt, interruptions>>

Elapsed == now - start_time

(* The mail the FSM owes is in the pipe in time.                           *)
Tick ==
    /\ pc = "wait"
    /\ now < MaxTime
    /\ timeout >= 0 => Elapsed < timeout
    /\ due /\ receivedConfirm => Elapsed < FsmLatency
    /\ now' = now + 1
    /\ UNCHANGED <<watchVars, timeout, receivedConfirm, retries, pc, due, sentAt,
                   interruptions>>

WaitEnds == pc = "wait" /\ pc' = "run" /\ UNCHANGED <<now, timeout>>

(* A datagram, a line, a signal, or an interrupted call: the FSM may have  *)
(* something to say to it.                                                 *)
Event ==
    /\ WaitEnds
    /\ Stopped
    /\ due' \in {due, TRUE}
    /\ IF receivedConfirm THEN UNCHANGED interruptions
       ELSE interruptions < MaxEvents /\ interruptions' = interruptions + 1
    /\ UNCHANGED <<receivedConfirm, retries, sentAt>>

Confirmed ==
    /\ WaitEnds
    /\ Stopped
    /\ ~receivedConfirm
    /\ receivedConfirm' = TRUE /\ retries' = 0
    /\ UNCHANGED <<due, sentAt, interruptions>>

(* listenToSendPipe.                                                       *)
Transmit ==
    /\ WaitEnds
    /\ Stopped
    /\ receivedConfirm /\ due
    /\ receivedConfirm' = FALSE /\ due' = FALSE
    /\ sentAt' = now /\ interruptions' = 0
    /\ UNCHANGED retries

TimedOut == ~receivedConfirm /\ timeout >= 0 /\ Elapsed >= timeout

Retry ==
    /\ WaitEnds
    /\ TimedOut
    /\ retries < Retries
    /\ retries' = retries + 1
    /\ Reset
    /\ sentAt' = now /\ interruptions' = 0
    /\ UNCHANGED <<receivedConfirm, due>>

GiveUp ==
    /\ pc = "wait"
    /\ TimedOut
    /\ retries >= Retries
    /\ pc' = "gaveUp"
    /\ UNCHANGED <<now, watchVars, timeout, receivedConfirm, retries, due, sentAt,
                   interruptions>>

Next ==
    \/ LoopTop \/ Tick \/ Event \/ Confirmed \/ Transmit \/ Retry \/ GiveUp

Spec == Init /\ [][Next]_vars

-----------------------------------------------------------------------------
(* A wait for a CONFIRM has an end: the time subtracted from the timeout   *)
(* is that of one wait, which was no longer than the timeout.              *)
WaitsEnd == pc = "wait" /\ ~receivedConfirm => timeout >= 0

(* Nothing that happens meanwhile makes a retry, or giving up, come early: *)
(* at most by the time the Listener waited for the mail before it was      *)
(* sent, which the first timeout is shorter by.                            *)
NeverEarly ==
    [][Retry \/ GiveUp => now - sentAt >= Timeout - FsmLatency]_vars

(* How late it can come.  The wait after an event takes what the wait      *)
(* before it left, so that two in a row last no longer than the timeout;   *)
(* but a third starts anew from the second: every other event can cost     *)
(* another timeout.                                                        *)
DelayBounded ==
    ~receivedConfirm => now - sentAt <= (1 + interruptions \div 2) * Timeout
=============================================================================
