-------------------------- MODULE RetryTimerProofs --------------------------
(***************************************************************************)
(* RetryTimer, for every timeout, number of retries and latency: what the  *)
(* wait for a CONFIRM lasts at least and at most.  Lengths of several      *)
(* waits are kept as sums; the one product, in DelayBounded, is hidden in  *)
(* Half and known by the lemmas about it.                                  *)
(***************************************************************************)
EXTENDS RetryTimer, TLAPS

(* A timeout for every other one of k waits.                               *)
Half(k) == (k \div 2) * Timeout

LEMMA HalfFacts ==
    ASSUME NEW k \in Nat
    PROVE  /\ Half(k) \in Nat
           /\ Half(k) <= Half(k + 1)
           /\ Half(k + 2) = Half(k) + Timeout
           /\ (1 + k \div 2) * Timeout = Half(k) + Timeout
<1> DEFINE h == k \div 2
           h1 == (k + 1) \div 2
<1>1. h \in Nat /\ h1 \in Nat /\ (h1 = h \/ h1 = h + 1) /\ (k + 2) \div 2 = h + 1
  OBVIOUS
<1>2. Timeout \in Nat
  BY TimesAssumption
<1>3. ASSUME NEW a \in Nat, NEW b \in Nat
      PROVE  a * b \in Nat /\ (a + 1) * b = a * b + b /\ (1 + a) * b = a * b + b
  OBVIOUS
<1> HIDE DEF h, h1
<1>4. h * Timeout \in Nat /\ (h + 1) * Timeout = h * Timeout + Timeout
      /\ (1 + h) * Timeout = h * Timeout + Timeout
  BY <1>1, <1>2, <1>3
<1>5. Half(k) = h * Timeout /\ Half(k + 1) = h1 * Timeout
  BY DEF Half, h, h1
<1>6. Half(k + 2) = (h + 1) * Timeout
  BY <1>1 DEF Half
<1>7. Half(k) <= Half(k + 1)
  <2>1. CASE h1 = h
    BY <2>1, <1>4, <1>5
  <2>2. CASE h1 = h + 1
    BY <2>2, <1>2, <1>4, <1>5
  <2> QED
    BY <1>1, <2>1, <2>2
<1> QED
  BY <1>4, <1>5, <1>6, <1>7 DEF h

LEMMA HalfOfNone == Half(0) = 0 /\ Half(1) = 0
<1>1. 0 \div 2 = 0 /\ 1 \div 2 = 0
  OBVIOUS
<1> QED
  BY <1>1, TimesAssumption DEF Half

-----------------------------------------------------------------------------
(* The inductive invariant.  Between two waits: the last of them was no    *)
(* longer than the timeout, and the StopWatch has measured just it.        *)
RunInv ==
    (pc = "run" /\ ~receivedConfirm) =>
        /\ isStopped
        /\ end_time = now /\ start_time <= now
        /\ now - start_time <= Timeout
        /\ sentAt <= now
        /\ sentAt - start_time <= FsmLatency
        /\ start_time - sentAt <= Half(interruptions)
        /\ now - sentAt <= Half(interruptions + 1)

(* In a wait: it ends at start_time + timeout at the latest.               *)
WaitInv ==
    (pc # "run" /\ ~receivedConfirm) =>
        /\ sentAt <= start_time /\ start_time <= now
        /\ 0 <= timeout /\ timeout <= Timeout
        /\ now - start_time <= timeout
        /\ start_time - sentAt <= Half(interruptions + 1)
        /\ start_time + timeout - sentAt <= Half(interruptions) + Timeout
        /\ start_time + timeout - sentAt >= Timeout - FsmLatency

(* While nothing is unconfirmed: the wait for a mail that the FSM owes is  *)
(* a short one.                                                            *)
OwedInv ==
    (pc = "wait" /\ receivedConfirm) =>
        /\ start_time <= now /\ timeout < 0
        /\ due => now - start_time <= FsmLatency

TimerInv == TimerTypeOK /\ RunInv /\ WaitInv /\ OwedInv

LEMMA InitInv == Init => TimerInv
<1> SUFFICES ASSUME Init PROVE TimerInv
  OBVIOUS
<1>1. FlagsOK
  BY Zenon DEF Init, FlagsOK
<1>2. NumbersOK /\ pc \in {"run", "wait", "gaveUp"}
  BY TimesAssumption, CountsAssumption DEF Init, NumbersOK
<1>3. RunInv /\ WaitInv /\ OwedInv
  <2>1. receivedConfirm /\ pc = "run"
    BY Zenon DEF Init
  <2> QED
    BY <2>1 DEF RunInv, WaitInv, OwedInv
<1> QED
  BY <1>1, <1>2, <1>3 DEF TimerInv, TimerTypeOK

LEMMA FlagsStep == FlagsOK /\ [Next]_vars => FlagsOK'
<1> SUFFICES ASSUME FlagsOK, [Next]_vars PROVE FlagsOK'
  OBVIOUS
<1> USE DEF FlagsOK, watchVars
<1>1. CASE LoopTop
  BY <1>1, Zenon DEF LoopTop, Started
<1>2. CASE Tick
  BY <1>2, Zenon DEF Tick
<1>3. CASE Event
  BY <1>3, Zenon DEF Event, WaitEnds, Stopped
<1>4. CASE Confirmed
  BY <1>4, Zenon DEF Confirmed, WaitEnds, Stopped
<1>5. CASE Transmit
  BY <1>5, Zenon DEF Transmit, WaitEnds, Stopped
<1>6. CASE Retry
  BY <1>6, Zenon DEF Retry, WaitEnds, Reset
<1>7. CASE GiveUp
  BY <1>7, Zenon DEF GiveUp
<1>8. CASE UNCHANGED vars
  BY <1>8, Zenon DEF vars
<1> QED
  BY <1>1, <1>2, <1>3, <1>4, <1>5, <1>6, <1>7, <1>8 DEF Next

LEMMA TypeStep == TimerTypeOK /\ [Next]_vars => TimerTypeOK'
<1> SUFFICES ASSUME TimerTypeOK, [Next]_vars
             PROVE  NumbersOK' /\ (pc \in {"run", "wait", "gaveUp"})'
  BY FlagsStep DEF TimerTypeOK
<1> USE TimesAssumption, CountsAssumption DEF TimerTypeOK, NumbersOK, watchVars
<1>1. CASE LoopTop
  BY <1>1 DEF LoopTop, Started, Remaining, Duration
<1>2. CASE Tick
  BY <1>2 DEF Tick
<1>3. CASE Event
  BY <1>3 DEF Event, WaitEnds, Stopped
<1>4. CASE Confirmed
  BY <1>4 DEF Confirmed, WaitEnds, Stopped
<1>5. CASE Transmit
  BY <1>5 DEF Transmit, WaitEnds, Stopped
<1>6. CASE Retry
  BY <1>6 DEF Retry, WaitEnds, Reset
<1>7. CASE GiveUp
  BY <1>7 DEF GiveUp
<1>8. CASE UNCHANGED vars
  BY <1>8 DEF vars
<1> QED
  BY <1>1, <1>2, <1>3, <1>4, <1>5, <1>6, <1>7, <1>8 DEF Next

LEMMA InvStep == TimerInv /\ [Next]_vars => TimerInv'
<1> SUFFICES ASSUME TimerInv, [Next]_vars PROVE TimerInv'
  OBVIOUS
<1>t. TimerTypeOK'
  BY TypeStep DEF TimerInv
<1>n. /\ Timeout \in Nat /\ FsmLatency \in Nat /\ FsmLatency <= Timeout
      /\ interruptions \in Nat
      /\ Half(interruptions) \in Nat /\ Half(interruptions + 1) \in Nat
      /\ Half(interruptions) <= Half(interruptions + 1)
      /\ Half(interruptions + 2) = Half(interruptions) + Timeout
  <2>1. interruptions \in Nat /\ interruptions + 1 \in Nat
    BY CountsAssumption DEF TimerInv, TimerTypeOK, NumbersOK
  <2> QED
    BY <2>1, HalfFacts, TimesAssumption
<1> USE DEF TimerInv, TimerTypeOK, NumbersOK, RunInv, WaitInv, OwedInv, watchVars
<1>1. CASE LoopTop
  <2>1. /\ start_time' = now /\ pc' = "wait" /\ now' = now /\ sentAt' = sentAt
        /\ receivedConfirm' = receivedConfirm /\ due' = due
        /\ interruptions' = interruptions
    BY <1>1 DEF LoopTop, Started
  <2>2. CASE receivedConfirm
    <3>1. timeout' = -1
      BY <1>1, <2>2 DEF LoopTop
    <3> QED
      BY <1>t, <1>n, <2>1, <2>2, <3>1
  <2>3. CASE ~receivedConfirm
    <3>1. timeout' = Timeout - (now - start_time)
      BY <1>1, <2>3 DEF LoopTop, Remaining, Duration
    <3> QED
      BY <1>t, <1>n, <1>1, <2>1, <2>3, <3>1 DEF LoopTop
  <2> QED
    BY <2>2, <2>3
<1>2. CASE Tick
  BY <1>2, <1>t, <1>n DEF Tick, Elapsed
<1>3. CASE Event
  <2>1. /\ end_time' = now /\ isStopped' = TRUE /\ start_time' = start_time
        /\ pc = "wait" /\ pc' = "run" /\ now' = now /\ sentAt' = sentAt
        /\ receivedConfirm' = receivedConfirm
    BY <1>3 DEF Event, WaitEnds, Stopped
  <2>2. CASE receivedConfirm
    BY <1>t, <2>1, <2>2
  <2>3. CASE ~receivedConfirm
    <3>1. interruptions' = interruptions + 1
      BY <1>3, <2>3 DEF Event
    <3>3. Half(interruptions' + 1) = Half(interruptions + 2)
      BY <1>n, <3>1
    <3> HIDE DEF Half
    <3>4. RunInv'
      BY <1>t, <1>n, <2>1, <2>3, <3>1, <3>3 DEF Half
    <3> QED
      BY <1>t, <2>1, <3>4
  <2> QED
    BY <2>2, <2>3
<1>4. CASE Confirmed
  BY <1>4, <1>t DEF Confirmed, WaitEnds, Stopped
<1>5. CASE Transmit
  <2>1. /\ end_time' = now /\ isStopped' = TRUE /\ start_time' = start_time
        /\ pc = "wait" /\ pc' = "run" /\ now' = now /\ sentAt' = now
        /\ receivedConfirm /\ due /\ interruptions' = 0
    BY <1>5 DEF Transmit, WaitEnds, Stopped
  <2>2. Half(interruptions)' = 0 /\ Half(interruptions + 1)' = 0
    BY <2>1, HalfOfNone DEF Half
  <2> QED
    BY <1>t, <1>n, <2>1, <2>2
<1>6. CASE Retry
  <2>1. /\ end_time' = now /\ isStopped' = TRUE /\ start_time' = now
        /\ pc = "wait" /\ pc' = "run" /\ now' = now /\ sentAt' = now
        /\ interruptions' = 0
    BY <1>6 DEF Retry, WaitEnds, Reset
  <2>2. Half(interruptions)' = 0 /\ Half(interruptions + 1)' = 0
    BY <2>1, HalfOfNone DEF Half
  <2> QED
    BY <1>t, <1>n, <2>1, <2>2
<1>7. CASE GiveUp
  BY <1>7, <1>t, <1>n DEF GiveUp, TimedOut
<1>8. CASE UNCHANGED vars
  BY <1>8, <1>t DEF vars
<1> QED
  BY <1>1, <1>2, <1>3, <1>4, <1>5, <1>6, <1>7, <1>8 DEF Next

(* The timer's invariant holds in every reachable state.                   *)
THEOREM TimerInvHolds == Spec => []TimerInv
BY InitInv, InvStep, PTL DEF Spec

(* runListener: no wait for a CONFIRM is without end.                      *)
THEOREM WaitsEndHolds == Spec => []WaitsEnd
<1>1. TimerInv => WaitsEnd
  BY DEF TimerInv, WaitInv, WaitsEnd
<1> QED
  BY <1>1, TimerInvHolds, PTL

(* runListener: every other event can put a retry off by a timeout, and    *)
(* nothing else can.                                                       *)
THEOREM DelayBoundHolds == Spec => []DelayBounded
<1>1. TimerInv => DelayBounded
  <2> SUFFICES ASSUME TimerInv, ~receivedConfirm
               PROVE  now - sentAt <= (1 + interruptions \div 2) * Timeout
    BY DEF DelayBounded
  <2>1. interruptions \in Nat
    BY CountsAssumption DEF TimerInv, TimerTypeOK, NumbersOK
  <2>2. /\ (1 + interruptions \div 2) * Timeout = Half(interruptions) + Timeout
        /\ Half(interruptions + 2) = Half(interruptions) + Timeout
        /\ Half(interruptions + 1) <= Half(interruptions + 2)
        /\ Half(interruptions + 1) \in Nat /\ Half(interruptions) \in Nat
    <3>1. Half(interruptions + 1) <= Half((interruptions + 1) + 1)
      BY <2>1, HalfFacts
    <3>2. (interruptions + 1) + 1 = interruptions + 2
      BY <2>1
    <3> QED
      BY <2>1, <3>1, <3>2, HalfFacts
  <2>3. CASE pc = "run"
    BY <2>2, <2>3, TimesAssumption DEF TimerInv, TimerTypeOK, NumbersOK, RunInv
  <2>4. CASE pc # "run"
    BY <2>2, <2>4, TimesAssumption DEF TimerInv, TimerTypeOK, NumbersOK, WaitInv
  <2> QED
    BY <2>3, <2>4
<1> QED
  BY <1>1, TimerInvHolds, PTL

(* runListener: nothing makes a retry, or giving up, come early by more    *)
(* than the wait for the mail before it was sent.                          *)
THEOREM NeverEarlyHolds == Spec => NeverEarly
<1>1. TimerInv /\ [Next]_vars
        => [Retry \/ GiveUp => now - sentAt >= Timeout - FsmLatency]_vars
  <2> SUFFICES ASSUME TimerInv, Retry \/ GiveUp
               PROVE  now - sentAt >= Timeout - FsmLatency
    OBVIOUS
  <2>1. pc = "wait" /\ TimedOut
    BY DEF Retry, GiveUp, WaitEnds
  <2> QED
    BY <2>1, TimesAssumption DEF TimerInv, TimerTypeOK, NumbersOK, WaitInv, TimedOut, Elapsed
<1> QED
  BY <1>1, TimerInvHolds, PTL DEF Spec, NeverEarly
=============================================================================
