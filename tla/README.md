# A formal model of the IPK24-CHAT client

The repository is a command-line chat client in C++ for the IPK24-CHAT protocol, over UDP or TCP. This directory holds
TLA+ modules of it, TLC configurations that check them on small instances, and theorems that TLAPS proves for every
value of the constants. Paths below are relative to the repository's root (`src/listeners.cpp` is the file the program
is built from; in `PROJECT.json` the same file is `src/src/listeners.cpp`).

## The system

| Component | State | Operations |
|---|---|---|
| `Mail` (`src/headers/mail-box.h:18-229`) | type, variant of message data, `addToMailQueue`, `sigint` | `getMessageID`, `getRefMessageID`, validators |
| `MailBox` (`mail-box.h:231-662`) | `incomingMails`, `outgoingMails`, mutex, condition variable, `displayName`, `sequenceUDPNumber`, `srvMsgId` | `waitMail`, `addMail`, `sendMail`, `getOutgoingMail`, the `writeMail` family (user line, UDP bytes, TCP text, own mail) |
| `Pipe` (`src/headers/pipes.h`) | what was written and not read | three of them: StdinPipe, ToSendPipe, SignalPipe |
| `FSM` (`src/fsm.cpp`) | `state`, `mail` | `run`: one mail in, at most one mail out |
| `Listener` (`src/listeners.cpp`) | `receivedConfirm`, `toSendRegistered`, `retries`, `refMsgId`, `refAuthId`, `keepRunning`, `sentBye`, `confMail` | `runListener` and its four handlers, `stop`, the destructor, `handleSignal` |
| `StdinListener` (`src/listeners.cpp:375-429`) | `keepRunning` | `runListener`, `stop`, the destructor |
| `UdpProtocol`, `TcpProtocol`, `NetworkConnection` (`src/net.cpp`) | socket, server address and port | open, close, `sendData`, `receiveData` |
| `MailSerializer` (`mail-box.h:664-845`) | `isUDP`, the buffer | `serialize`, for bytes (UDP) and for words (TCP) |
| `StopWatch` (`src/headers/stopwatch.h`) | start, end, stopped | `start`, `stop`, `reset`, `duration` |
| `ArgumentParser` (`src/arg-parser.cpp`) | the six options | `parse`, `usage` |
| `runMain` (`main.cpp`) | the objects above | start, `FSM::run`, the two stops |
| `PipeManager`, utilities | | unused, printing |

Three threads and a signal handler share this. The **main** thread runs the FSM: it waits on the condition variable for
a mail, and answers through `sendMail`, which pushes onto `outgoingMails` under the mutex and, after releasing it,
writes one byte into the ToSendPipe. The **Listener** thread waits in `epoll` for the socket and the three pipes. It
turns lines, datagrams and signals into mails for the FSM, transmits what the FSM has sent, and over UDP runs
stop-and-wait: after a transmission it no longer watches the ToSendPipe until the CONFIRM has come, repeats the mail
when a wait times out, and exits the process when the retries are used up. The **StdinListener** thread waits in
`select` for a second at a time and copies lines into the StdinPipe. **SIGINT**, or the end of the input, writes to the
SignalPipe, and the Listener makes an ERR of it which the FSM answers with BYE. When the FSM reaches END, `runMain`
joins the StdinListener, then the Listener, whose loop ends once `keepRunning` is down, a BYE was sent and nothing
awaits a CONFIRM.

What is hard here: the hand-over from queue to pipe and back, in two steps each; one batch of epoll events that holds a
CONFIRM and a notification in any order; datagrams lost, repeated and late, with one integer to remember them by; a
timer that measures only its last wait; three joins in a row at the end; exceptions, which end the process in one
thread and unwind it in the other; a display name, and for `/print` a queue, shared without the mutex; a signed `char`
in the middle of an identifier; a stream without boundaries, both from standard input and from a TCP peer, that is cut
in other places by each reader; a server that moves to a port of its own. `PROJECT.json` lists these under
`hazards`, each at its line.

What makes each component correct:

- *MailBox*: no mail without its byte and no byte without its mail; identifiers in the order of the queue.
- *Listener*: no blocking read; one unconfirmed mail at a time, which is the one repeated and awaited; each of the
  server's mails to the FSM at most once, in order, and confirmed only if so.
- *FSM*: nothing but BYE after ERR, nothing after BYE, no chatting before AUTH.
- *Shutdown*: an exit code of 0 means that everything was said and confirmed; an interrupt, END, a closed connection or
  an exception does bring the process down.
- *UDP link*: seen from `sendMail` and the server, a reliable queue; a REPLY that is repeated is confirmed in the end.
- *Codec*: what is written is read back, and a datagram or text is read as the rest of the model takes it;
  what is valid fits the buffer, or it is known what does.
- *Standard input*: the user's lines, once, whole and in order, wherever the buffers are cut; the reader ends.
- *Retry timer*: no wait without end, no retry before its time, and a bound on how late it comes.
- *Start*: the whole command line decides; then the client sends where the server hears it.

## The modules

| Module | Models |
|---|---|
| `Mail` | the values: mails, what the peer can send, what the user can type, and the decoding of both |
| `Pipes` | the contents of the three pipes |
| `MailBox` | the shared queues, and the mailbox operations as operators |
| `FSM` | `FSM::run`: the table of states and mails (`Forwards`, `SaysBye`, `SaysErr`, `StaysSilent`), and the actions that follow it |
| `Listener` | `runListener`, one action for each way through a handler |
| `StdinListener` | its loop |
| `ChatClient` | `runMain`: the three threads, the handler, a user and a peer; the properties of the client |
| `UdpLink` | the Listener, a network and the server of `tests/server.py`; refines `ReliableFifo` |
| `ReliableFifo` | the abstract specification of the link |
| `RetryTimer` | the loop's timeout and its `StopWatch`, in discrete time |
| `StdinPath` | the bytes of standard input: terminal or pipe, stdio's buffer, `std::getline` behind `select`, the StdinPipe, `listenStdin`; refines `ReliableFifo` |
| `UdpCodec`, `TcpStream` | datagrams byte by byte, texts word by word: `MailSerializer` and its inverse |
| `Codec` | the two of them behind `isUDP` and `MailBox::writeMail(char **)` |
| `StartUp` | `ArgumentParser`, and opening the connection |
| `UdpPort` | `UdpProtocol`'s port, which follows the server, under the mails of the FSM, their transmission and repetition |
| `Connection` | `StartUp`, and `UdpPort` once a UDP connection runs |
| `MCChatClient`, `MCUdpLink`, `MCCodec`, `MCConnection` | values of the constants for TLC |
| `MailProofs`, `ListenerProofs`, `ChatClientProofs`, `UdpLinkProofs`, `RetryTimerProofs`, `ConnectionProofs`, `StdinPathProofs`, `CodecProofs` | theorems and proofs |

How they fit together: `ChatClient` composes the three threads over `MailBox`, `Pipes` and `Mail`. It takes some things
as single steps or as given, and a module of its own opens each of them up:

| In `ChatClient` and `Listener` | opened up in |
|---|---|
| `WriteUDPMail`, `WriteTCPMail` of a whole datagram or text | `Codec` (`DecodesAsModelled` and `TextsReadBack` say that they agree) |
| a typed line is a step `StdinLine` and one `ListenStdinLine` | `StdinPath` (`IsLineFifo`) |
| a wait times out, or not; `overslept` | `RetryTimer` |
| `Protocol`, `Retries` | `StartUp` |
| one peer that hears everything | `UdpLink` (loss), `Connection` (the port) |

Variables and actions have the names of the code's members and functions; `listenerPc`, `fsmPc`, `stdinPc` and `mainPc`
say where a thread is. The grain of atomicity is what another thread can see:

- `sendMail` is two actions, `FsmPush` and `FsmNotify`. `waitMail`, `addMail` and `getOutgoingMail` each take the mutex
  once and are part of the action that calls them.
- `epoll_wait` is an action that fixes the `batch`; each descriptor of the batch is then handled by an action of its
  own, in any order, with the other threads running in between.
- `listenStdin` is one action for the read and one for each line, as the FSM may answer a line before the next is
  looked at.
- `stop` of either listener is the action that clears the flag; the join is the guard of the next action of `Main`.
- An exception is `Exit1` in the Listener thread (its catch calls `exit(1)`), `fsmPc = "threw"` in the FSM (it unwinds
  `runMain`), and `process = "killed"` where nobody catches it.
- `displayName` is abstracted to `nameOk`, whether it passes the validator. `writeMail(ERR)` on the main thread reads
  it while the Listener may be assigning it; `ValidNames` then lets the read return anything.
- `overslept` stands for the stopwatch: whether the last wait measured longer than `getTimeout()`. The constant
  `Oversleeps` says whether that can happen.
- A TCP text that cannot be parsed leaves `mail.type` unset: `WriteTCPMail` gives it any type.

- `CharIsSigned` says whether `char` has a sign; with it `ReadUInt16` misreads a low byte of 128 or more, for the
  codec and for the identifiers of the whole client alike.
- `/print` copies `incomingMails` without the mutex. `PrintRaces` is the copy meeting a pop: it ends the process, or
  has no effect.
- A TCP connection that the peer has reset makes `recv` fail (`ReceiveReset`), and the exception ends the process.

In `ChatClient` texts, bytes, names and file descriptors are left out, and so is printing everywhere. In `StdinPath` a
byte is the number of its line, in `TcpStream` a stream is a sequence of words, spaces and line ends.

The small operators named after a bug (`MayRetryOnceMore`, `RepeatedButNotLast`, ...) are mutants: put in place of the
definition that follows them, they make a property fail. `PROJECT.json` pairs each property of a passing run with one.

## Checking with TLC

    tlc -config client_udp.cfg MCChatClient
    tlc -config link.cfg MCUdpLink
    tlc -config stdin.cfg StdinPath

| Run | Module | What it shows |
|---|---|---|
| `client_udp` | `MCChatClient` | the safety properties over UDP: the hand-over between the threads, stop-and-wait, the closing sequence; that an interrupt is not forgotten, and that the Listener waits without a timeout only when nothing is left to send or confirm |
| `client_tcp` | `MCChatClient` | over TCP, the closing sequence, chat after AUTH and the meaning of exit code 0, and that a closed connection ends the process |
| `client_close` | `MCChatClient` | UDP: unconfirmed mails are resolved, the queue drains, an interrupt and END end the process, unless the server's BYE has hung it up (no wait oversleeps) |
| `link` | `MCUdpLink` | the link implements `ReliableFifo`; from a server that waits for each CONFIRM nothing is skipped, and nothing is confirmed that the FSM is not given; a REPLY that is repeated is confirmed in the end |
| `codec` | `MCCodec` | what the client writes it can read; what `server.py` writes is read as `Mail` says, if it fits the buffer, which it does up to 999 bytes of content; names, words and contents that look like the protocol do no harm |
| `stdin` | `StdinPath` | standard input implements `ReliableFifo` of its lines, less what overfills `listenStdin`'s buffer; from a terminal every line arrives, and the thread can be joined; the end of input is signalled, after the lines |
| `timer` | `RetryTimer` | a wait for a CONFIRM ends, no retry is early, and every second event delays it by at most one timeout |
| `connection` | `MCConnection` | all command lines of up to four options; the port follows the server, and is led back less often than AUTHs were sent to the known one |

Four more runs each show one disagreement of the code with what the repository says of it:

| Run | Property violated | What happens |
|---|---|---|
| `bye_hang` | `EndEnds` | The server's BYE in OPEN takes the FSM to END without a BYE of the client's own. `sentBye` stays false, the loop at `listeners.cpp:285` goes on, and `Listener::stop` joins it for ever. `README.md:205` promises a clean closure from any state. |
| `timer_sleep` | `UnconfirmedResolved` | `getTimeout() - duration()` (`listeners.cpp:296`) is negative after a wait that measured longer than the timeout, and `epoll_wait` then waits without end: no repetition, no giving up (`README.md:145`). A late wake-up of the thread is enough, the more so with a small `-d`. |
| `reorder` | `ConfirmedIsGiven` | A REPLY overtaken by a later message has a lower identifier than `srvMsgId`: it is confirmed as a repetition, and the FSM never gets it (`CHANGELOG.md:1` claims reordering is handled). |
| `tcp_cut` | `StreamInOrder` | What one `recv` returns is taken for one text (`net.cpp:71`): of several only the first is read, and one that is split becomes two wrong ones. `README.md:71` calls the serialization reversible. |

### What the passing properties leave out

Several properties hold only beside a case in which the code does something else than its documents say. The case is
named in the property or in the run's constants, so that everything else about it is still checked:

| Where | What the code does | The property, and where it makes the exception |
|---|---|---|
| `listeners.cpp:285`, `:296` | After the server's BYE, and after a wait that measured too long, the Listener sleeps while the main thread joins it (the runs `bye_hang` and `timer_sleep`). | `JoinReturns`: `HungUp`, `overslept`; `SleepsOnlyIdle`: `overslept`; `SignalEnds`, `PeerCloseEnds`, `OnlyByeHangs`: `HungUp`; `SignalEnds`, `OnlyByeHangs`, `UnconfirmedResolved`, `OutgoingDrains`: `Oversleeps = {FALSE}` |
| `listeners.cpp:16` | When an exception leaves the FSM (`/rename` stores any name, and the next `writeMail(ERR)` throws), `~Listener` joins a thread that nobody told to stop, and the handler in `main` is not reached. | `SignalEnds`, `PeerCloseEnds`, `JoinReturns`, `InterruptKept`: `fsmPc = "threw"` |
| `listeners.cpp:185` | A repeated mail other than a REPLY is not confirmed again: if its CONFIRM was lost, the server repeats in vain (`CHANGELOG.md:1`). | `ReplyConfirmed` speaks of the REPLYs only |
| `listeners.cpp:166`, `:236` | A second AUTH or JOIN moves `refAuthId`; the REPLY to the first is then stray, dropped and not confirmed. Nothing prevents the second AUTH (`README.md:199`). | `ReplyConfirmed`: `AnswersAnother` |
| `fsm.cpp:103` | In OPEN every JOIN is sent, though the one before has no REPLY yet (`README.md:200`). | no property says otherwise |
| `mail-box.h:656` | `/print` reads the queue without the mutex (`README.md:54`). | `PrintRaces` ends the process: no exit with 0, and `CleanExit` holds |
| `mail-box.h:244` | An identifier with a low byte of 128 or more is misread, so that the client gives up at its 129th mail (`README.md:71`). | `ClientMailsReadBack`: `HasLowByteBelow128`; the theorems `HighIdsMisread` and `SignedCharStalls` |
| `listeners.cpp:407` | Of two lines read at once from a pipe the second waits for the next input (`README.md:173`). | `EveryLineHanded`: `tty` |
| `listeners.cpp:415` | `std::getline` waits for the end of half a line from a pipe, and `stop` for it (`README.md:124`). | `StopEnds`: `tty` |
| `listeners.cpp:64` | What is left of a line at the end of the 1023 bytes that are read at a time is lost. | `IsLineFifo`: `overfull`; `EveryLineHanded`: `cuts` |
| `listeners.cpp:302` | The stopwatch measures one wait, so that events postpone the retry (`README.md:145`). | `DelayBounded` says by how much |
| `arg-parser.cpp:4` | The usage text has `-d <display_name>`; `-d` is the timeout, and a name is 0. | `ParsedAsGiven` says what is taken |
| `net.cpp:199` | Whatever datagram was read last says where the client sends. When a CONFIRM is late and the AUTH is repeated, both copies are confirmed from the known port; the second CONFIRM takes a client that the server has accepted at its own port back to the known one, and its next MSG goes where nobody hears it (`CHANGELOG.md:1`). | `SendsWhereItIsHeard` says how often at most, and never if one AUTH was sent there |
| `listeners.cpp:328` | The buffer has 1024 bytes, `recvfrom` may write 1500 (`net.cpp:179`), and a content may have 1400 (`mail-box.h:57`): a MSG, ERR or REPLY that the validators would accept is written over the buffer's end (`README.md:71`). | `DecodesAsModelled`: `Fits`; `ShortTextsFit` says what fits |

Deadlock is not checked: the process really ends (or, in the runs above, hangs), and the environment's bounds run out.

### Bounds

- `MaxLines`, `MaxArrivals`, `MaxSignals`, `SocketBuffer`: how often user, peer and signal act, and how many datagrams
  wait. `client_udp` has two lines, three arrivals and one signal: enough to authenticate, be accepted, chat and be
  interrupted, with ERR and BYE to spare for either side, and for each kind of datagram to come twice, late or out of
  order. Two lines and two queued mails are the least for which the hand-over can be out of step by more than one.
  `client_tcp` has `SocketBuffer = 2`, so that two texts arrive in one `recv`, and no signal: the close is what ends it.
- `Retries = 1`: one repetition and the giving up after it. `retries` only counts, so that more of them add length and
  no new order of events.
- `IdModulus = 8` (client) and `4` (link) are larger than the number of mails a run sends, so identifiers do not wrap
  in the runs. The theorems hold for every modulus.
- The alphabets of lines and datagrams differ by run (`MCChatClient`): a run has those kinds that its properties tell
  apart. `client_udp` has an AUTH, a text and `/print`; it leaves out the lines and datagrams that a validator refuses,
  which exit the process at once. `client_close` has the bad `/rename`, `/print` and a datagram that is refused; one
  line and three arrivals are enough for CONFIRM, REPLY and BYE, with AUTH, ERR and BYE queued behind each other. `client_tcp` has texts that are refused and malformed.
- `link` sends two mails each way (AUTH and JOIN, REPLY and MSG), the least for which a late CONFIRM, a repetition and
  an overtaking can do harm. The sets `outbound` and `toClient` have no bound of their own: a datagram is in them or
  not, and stays for as long as the network likes, which stands for any number of copies.
- `codec`: identifiers over all pairs of the bytes 0, 1, 127, 128 and 255, the ends of the ranges that a sign or a
  carry tells apart; texts that are empty, refused or look like the protocol; contents of 999 and 1000 bytes, which with a
  name of 20 just fit the buffer and just do not; two texts on a stream.
- `stdin`: three lines of zero or two characters and a buffer of seven bytes. Two lines fit, three can be too much, and
  the cut is then in the middle of a line; the reads of stdio and of `listenStdin` begin and end in all places.
- `timer`: a timeout of 3, up to four events to a mail: the delay grows at the second and at the fourth.
- `connection`: four options are enough for type, server and one option given twice; numbers are beyond the width of
  their fields or of an `int`. `stoi` and `atoi` are given by whether an `int` is found, and by which one `atoi` yields.
- `connection` follows the datagrams of the clients with two options (`MaxFollowed`), which are type and server: three
  mails, each repeated up to three times, two messages of the server and two datagrams under way each way. That is enough
  for two AUTHs and a MSG, for an AUTH that is repeated, confirmed several times and led back each time, and for an ERR
  and BYE before the server has answered.
- ReceiveEof keeps one mail for the end of the connection in the queue instead of one for every turn of the loop; the
  FSM leaves its chatting states at the first it reads or has left them already.

### Fairness

`ChatClient!FairSpec` has weak fairness of each thread and of nothing else: a thread that can run is scheduled. Nothing
is asked of the user, the peer or the signal. `StdinStep` is the one-second timeout of `select`, which needs no input.
`UdpLink!FairSpec` adds, for each of the server's mails, that it is repeated while it is unconfirmed (weak), and that
something sent again and again gets through (strong, in each direction): the usual assumption about a lossy channel,
without which nothing can be promised. It says nothing of the server's confirmations, of which `ReplyConfirmed`
is independent: a client that hears none gives up. `StdinPath!FairSpec` has weak fairness of the two threads, and
nothing is asked of the user: half a line may stay half for ever.

No wait oversleeps in `client_close` (`Oversleeps = {FALSE}`): with one that does, `UnconfirmedResolved` fails (above), and
an interrupted client may not end either. `SignalEnds` exempts the client that the server's BYE has hung up (`HungUp`):
after a BYE in OPEN nobody reads the ERR of an interrupt, and the process does not end. `OnlyByeHangs` and
`PeerCloseEnds` make the same exemption; `EndEnds` makes none, and `bye_hang` shows it violated. `SignalEnds` and
`PeerCloseEnds` also exempt a client whose FSM has thrown.

## Theorems

`ChatClientProofs` proves about `ChatClient!Spec`, for both protocols, every number of retries, every modulus up to
2^16, all alphabets and all bounds, from the assumptions on the constants alone. The others prove about the
specifications of their own modules: `UdpLinkProofs`, `RetryTimerProofs`, `ConnectionProofs` (`ConnectionSpec`),
`StdinPathProofs` and `CodecProofs`; what they assume beyond the constants' assumptions is said below. With them every
invariant, action property and refinement that a passing run checks is a theorem, under the conditions named with it; what is
left to the runs alone is liveness.

| Theorem | Statement |
|---|---|
| `SpecInv` | the inductive invariant `Inv` |
| `TypesHold` | `[]TypeOK` |
| `ReadsDoNotBlock` | `[]NoBlockingRead` |
| `BytesMatchMails` | `[]NotifyMatchesOutgoing` |
| `ConfirmMatchesMail` | `[]AwaitsWhatItRepeats` |
| `StopAndWait` | `OneUnconfirmed` |
| `ClosingHolds` | `[]ClosingSequence` |
| `CleanExitHolds` | `[]CleanExit` |
| `ChatAfterAuthHolds` | `[]ChatAfterAuth` |
| `ServerMailsInOrderHolds` | `[]ServerMailsInOrder` |
| `SleepsOnlyIdleHolds` | `[]SleepsOnlyIdle` |
| `JoinReturnsHolds` | `[]JoinReturns` |
| `InterruptKeptHolds` | `[]InterruptKept` |
| `LinkInvHolds` (`UdpLinkProofs`) | the inductive invariant of the link |
| `LinkTypesHold` | `[]LinkTypeOK` |
| `LinkIsReliableFifo` | `IsReliableFifo`: the link implements `ReliableFifo` |
| `NothingSkippedHolds` | `[]NothingSkipped`, from a server that waits for each CONFIRM |
| `ConfirmedIsGivenHolds` | `[]ConfirmedIsGiven`, from such a server |
| `SignedCharStalls` | with a signed `char` the client's 129th mail is its last, and is never confirmed |
| `LowIdsReadBack`, `UnsignedIdsReadBack`, `HighIdsMisread` (`MailProofs`) | `readUInt16` yields what was written if `char` has no sign or the low byte is beneath 128; with a signed `char`, no other identifier beneath 65280 is read as written |
| `TimerInvHolds` (`RetryTimerProofs`) | the inductive invariant of the timer |
| `WaitsEndHolds` | `[]WaitsEnd` |
| `DelayBoundHolds` | `[]DelayBounded` |
| `NeverEarlyHolds` | `NeverEarly` |
| `ParsedAsGivenHolds` (`ConnectionProofs`) | `[]ParsedAsGiven` |
| `SendsWhereItIsHeardHolds` | `[]SendsWhereItIsHeard`, for all traffic and any loss |
| `StdinTypesHold` (`StdinPathProofs`) | `[]StdinPathTypeOK` |
| `StdinIsLineFifo` | `IsLineFifo`: standard input implements `ReliableFifo` of its lines, but for what overfills the buffer |
| `FittingLinesAreFifo` | `Fifo!Spec` and `[](cuts = 0)`, as long as nothing overfills the buffer |
| `EndIsLastHolds` | the end of the input is signalled only behind the last byte |
| `ClientMailsReadBackHolds` (`CodecProofs`) | `[]ClientMailsReadBack` |
| `DecodesAsModelledHolds` | `[]DecodesAsModelled`, of the datagrams that fit the buffer |
| `ShortTextsFitHolds` | `[]ShortTextsFit` |
| `TextsReadBackHolds` | `[]TextsReadBack`, if each `recv` returns one text and the peer sends no AUTH |

`NoBlockingRead` is not inductive: that the ToSendPipe's turn in a batch finds a mail depends on what the FSM does
between push and byte, and that no mail is unconfirmed then depends on the registration when the wait began. `Inv` adds
what is missing: the counts of bytes and mails agree but for the mail at `FsmNotify` (`NotifyMatchesOutgoing`), so that
`toSendPipe <= Len(outgoingMails)`; a thread that waits has nothing left of its batch, and watches the ToSendPipe only
if nothing is unconfirmed; only TCP connections close. The part about the Listener (`ListenerInv`) speaks only of the
MailBox and the Listener and is preserved by every action of `ListenerNext`, in `ListenerProofs`; `ChatClientProofs`
shows that the FSM, the StdinListener, the main thread and the environment preserve it too, with one lemma for each.
`OneUnconfirmed` follows: only `ListenToSendPipe` assigns `confMail`, and it runs only when the ToSendPipe is in the
batch, which the invariant ties to `receivedConfirm`. `MailProofs` has the lemmas about the operators on mails.

`ClosingSequence` speaks of the queue; what keeps it true is where the FSM is. `Said` adds that a queued BYE means that
the FSM is about to notify it or waits in END, that a queued ERR has BYE behind it or leaves the FSM in ERROR, from
which BYE is the only thing it pushes, and that the mail at `FsmNotify` is the last of the queue. When the Listener takes
a BYE, `NotifyMatchesOutgoing` rules out that it is the mail at `FsmNotify`: the FSM is in END, and the queue is empty.
`CleanExit` follows with `Left`: the loop condition lets the Listener out only after BYE and its CONFIRM, and
`MainExit` waits for that.

`ChatAfterAuth` speaks of the wire, and what leads there is a queue, a retransmission and a table of states.
`Spoken` joins them: beyond START an AUTH is on the wire or queued; chat in the queue has an AUTH in front of it, or
AUTH is on the wire already; the mail a timeout repeats has been on the wire before. That the FSM makes chat only in
OPEN, and leaves START only by queueing AUTH, comes from the table. `ServerMailsInOrder` needs `Listened`: everything in
the queue of the FSM is at most `srvMsgId`, so that what `ReceiveFresh` appends, being above it, comes last.

The last three theorems about the client are the safety its liveness rests on: nobody who could go on sleeps.
`SleepsOnlyIdle` needs `Slept`: while the thread is in `epoll_wait`, whether it watches the ToSendPipe and whether it
has a timeout still agree with `receivedConfirm` and `overslept`, because nothing changes these before the thread is
awake again; and the loop went on for a reason, as a BYE that was said has cleared `keepRunning`. With nothing to read
and no timeout, everything is confirmed, and by `NotifyMatchesOutgoing` nothing is in the queue but the mail at
`FsmNotify`. `JoinReturns` adds that `runMain` stops the Listener only when the FSM is in END or has thrown: what
remains is the hang of `bye_hang`, and the proof that there is no other but those it names. `InterruptKept` needs that
an interrupt is an ERR wherever it is in the queue, which the table of the FSM answers with BYE in every state it waits
in, and that from ERROR the FSM only goes to END (`ErrorAndEnd`); no mail of the user or of the peer is taken for an
interrupt (`LineNoSignal`, `UdpNoSignal`, `TcpNoSignal`).

`UdpLinkProofs` proves about `UdpLink!Spec`, for all lists of mails on either side, every number of retries, buffer and
network. It assumes `LowIds`: UDP, and where `char` is signed at most 128 mails of the server, as `readUInt16` misreads
the identifiers from 128 on (`HighIdsMisread`) and the link cannot do without them; where it is not, there is no bound
but the 16 bits. The client's own mails are bounded in either case by the number of identifiers alone. If `char` is
signed, `Stalling` says why: the CONFIRM of identifier 128 is read as that of 65408, so that the mail stays the one
awaited, and no larger identifier is ever sent (`SignedCharStalls`).

The queue and the server of the refinement are related by `LinkInv`: identifiers follow each other through the queue; a
mail on the wire is one the server has heard or else the one awaited, so that whatever the network brings late or twice
is nothing new; and a CONFIRM under way is for a mail that was heard, so that receiving it never gives up a mail that
was not. Then the server hears a mail for the first time only as the front of the queue (`Produce` and `ServerHears` are
the two steps of the abstract queue, every other step a stutter). In the other direction the same argument fails, because the client
remembers one identifier only: `GivenInv` needs that the server is at most one mail ahead, which is
`ServerWindow = 1`. The run `reorder` has a window of 2 and shows `ConfirmedIsGiven` violated.

`RetryTimerProofs` proves about `RetryTimer!Spec`, for every timeout, number of retries, latency of the FSM and number
of events. That a timeout is never negative needs that no wait lasts longer than its timeout, and that the stopwatch
measures the last wait: `start_time` is when the wait began, and stopped, the duration is what the wait took. The delay
is bounded through two waits at a time: a wait that an event has cut short leaves the next one the rest of its timeout,
so that two waits in a row cost one timeout (`Half`). `RunInv` keeps the length of the last wait together with what was
before it, and `WaitInv` the end of the wait under way.

`ConnectionProofs` has two invariants. `StartInv` says what the walk over the options knows after each of them: every
field has the value of the last option of its letter so far, and nothing fatal came before; at the end that is the
whole command line, whichever options there are and however many. `PortInv` counts. Every AUTH that was sent to the
known port is in one place: under way there, or heard and its CONFIRM under way from there, or that CONFIRM read, or one
of them lost. To be led back the client must read such a CONFIRM after it has read something from the server's own port,
so that each time it uses one up (`Budget`: the times it was led back, with the CONFIRMs and AUTHs that can still lead it
back, are at most the AUTHs sent there). The first of the CONFIRMs is not among them: as long as the network keeps the
order, nothing from the server's own port comes before it, unless it was lost. The theorem assumes nothing about which
mails the FSM makes, when it makes them, or what is lost.

The server is external. `UdpPort` assumes of it that at the known port it hears only AUTHs, that it confirms a mail from
the port it heard it at, and that whatever else it says comes from its own port, in no particular number. The order of
the datagrams is kept; with reordering a CONFIRM of a single AUTH can lead the client back, too.

`StdinPathProofs` proves about `StdinPath!Spec`, for lines of any length and number, buffers of any size, a terminal or
a pipe. The lines of a sequence of bytes (`LinesIn`) are a recursive function, and the refinement needs two facts of
it: a line in front of bytes is the first of their lines (`LinesFront`), and a line behind bytes that are whole, empty
or ended by a newline, is the last of them (`LinesBack`). The induction behind these is one about sets: a set that holds
`<<>>` and, with a sequence, all that are one byte longer, holds every sequence. The invariant is `Wholes`, which says
where the bytes may be cut. The StdinListener writes whole lines only; `listenStdin` can hold a part of one in its
buffer only after a read that has left something in the StdinPipe (`overfull`), and what is behind that part in the
pipe completes it. Every move from one buffer to the next is then a stutter, and the other steps are the two of
`ReliableFifo` and the loss that `IsLineFifo` names. `Ends` is for the end of the input.

`CodecProofs` proves about `Codec!Spec`, for all identifiers, names, contents and words. It assumes of the constants
that an identifier has 16 bits, that a byte of a text is none of the zeroes that end texts, and that a TCP word is
neither empty nor a space or line end (`WordsAssumption`): a validated text is all of that. Of a datagram, `Holds` says
what its bytes from a place on are; the pieces that `serialize` writes one behind the other are held one behind the
other, and `readUInt16` and `readString` end where the next piece begins. `UdpInv` keeps with the buffer the message it
was made of. How long the buffer is follows from `PackLength` and `TextsLength`: the header, and of each text one byte
more than it has. Of a text, the words stand at the odd places with a space behind each (`Ahead1` to `Ahead4`), so that the
`n`-th `>>` finds the `n`-th word and the rest of the line is the content with the spaces it was written with. `TcpInv`
needs `InStep`, that a `recv` returns one text; without it the run `tcp_cut` refutes the claim. It also needs a peer that
sends no AUTH, of which the parser takes display name and secret in the other order.

    for m in Mail Listener ChatClient UdpLink RetryTimer Connection StdinPath Codec; do tlapm ${m}Proofs.tla; done

What stays with TLC:

- Liveness and everything under fairness (`ReplyConfirmed`, `OnlyByeHangs`, `SignalEnds`,
  `PeerCloseEnds`, `UnconfirmedResolved`, `OutgoingDrains`, `EveryLineHanded`, `EndSignalled`, `StopEnds`), and `ENABLED`: they are out of
  the reach of the provers. `EndIsLastHolds` and `FittingLinesAreFifo` are the safety halves of two of them;
  `InterruptKeptHolds`, `SleepsOnlyIdleHolds` and `JoinReturnsHolds` are those of `SignalEnds`, `OutgoingDrains` with
  `UnconfirmedResolved`, and `OnlyByeHangs`: that what must happen can still happen, not that it does.
- The four disagreements with the documents, which are counterexamples.

## Not modelled

- Pipes that are full: 64 KiB of notifications or lines that nobody reads.
- Failing system calls, other than `recv` of a reset connection and `send` to a closed one (SIGPIPE), and the failing
  of `openConnection`, which is one outcome of `StartUp.Opening`. The failing of a `close`.
- `getopt_long`'s treatment of arguments that are no options.
- A second sender of datagrams, and the server's hostname, which is looked up again with every change of the port.
- A `send` that takes less than it is given: a blocking one takes all.
- What a datagram longer than the buffer does to the stack: `UdpCodec` calls it `Overrun` or reads it, and the modules of
  the client and the link have only datagrams that fit. A TCP text of 1024 bytes or more: `recv` takes 1024 of it
  (`net.cpp:71`), which leaves no zero behind it and cuts it; `InStep` excludes it.
- `PipeManager` and `NetworkConnection::setProtocol`, which nothing calls; `net-utils.h` and `utils.h`, an enumeration
  and coloured printing; `tests.py`, whose server is in `UdpLink` and `Codec` as far as the client sees it.
- The wrap of `sequenceUDPNumber` in a run: with a signed `char` no client gets beyond its 129th mail
  (`SignedCharStalls`). The theorems about the client hold for every modulus; those about the link for as many mails as
  there are identifiers.

## Plan

1. `Mail`, `Pipes`, `MailBox`, `FSM`, `Listener`, `StdinListener`, `ChatClient`; the safety runs; the liveness runs.
   *Done.*
2. `UdpLink` and `ReliableFifo`, with the refinement checked (proved in 9). *Done.*
3. `ListenerProofs`, `ChatClientProofs`: types, stop-and-wait, the closing sequence and the clean exit. *Done.*
4. `Codec`, with `UdpCodec` and `TcpStream`. *Done.*
5. `StdinPath`, against `ReliableFifo`. *Done.*
6. `RetryTimer`, with its theorems. *Done.*
7. `Connection`, with `StartUp` and `UdpPort`. *Done.*
8. In `ChatClientProofs`: chat after AUTH, the order of the server's mails. *Done.*
9. `UdpLinkProofs`: the link's types and its refinement, and what reaches the FSM. *Done.*
10. `ConnectionProofs`: the command line and the port. *Done.*
11. `StdinPathProofs`: the refinement of the lines, by induction over the bytes. *Done.*
12. `CodecProofs`: what is written is read back, over UDP and TCP. *Done.*
13. In `ChatClientProofs`: the safety that the liveness of the client rests on, no interrupt forgotten, no wake-up lost,
    no other hang than those found. *Done.*
