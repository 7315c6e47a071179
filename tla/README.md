# A TLA+ model of the STM32F4 PTP daemon

This directory models the logic of `ptpd-2.0.0`, the IEEE 1588 (PTP version 2)
ordinary clock of this repository, as it runs on an STM32F4 under the RTX
kernel with lwIP, together with the Ethernet interface, the search for an
address and the console around it. TLC checks the models on small instances.
TLAPS proves, for every value of the constants, every safety property that a
passing run checks: of the port state machine, the main loop, the delay
mechanisms, the servo in its loop, the transmit and receive path, the address
configuration and the console; that the table of foreign masters and the ring of
received messages each implement an abstract queue; and that the time arithmetic
is exact. What stays with TLC alone is liveness.

Paths below are relative to `src/libraries/ptpd-2.0.0/src/` unless they start
with `src/`.

## The system

Six threads and an interrupt take part.

| thread | priority | does |
|---|---|---|
| PTPD (`ptpd.c`) | above normal | `doState` over and over: the protocol engine with everything it calls |
| TCP/IP (lwIP) | high | UDP receive callbacks (`dep/net.c`): queue the message, alert the PTP thread |
| RTX timer | high | `timerCallback` (`dep/timer.c`): set the expired flag, alert the PTP thread |
| Ethernet input (`ethernetif.c`) | realtime | drains the receive descriptors after the interrupt |
| telnet | normal | console |
| DHCP (`netconf.c`) | below normal | address |

### Inventory

| component | state | operations | interacts with | hard because | correct if |
|---|---|---|---|---|---|
| protocol engine, `protocol.c` | `portState`, `recommendedState`, `events`, `waitingForFollowUp`, sequence ids, time stamps | `doState`, `toState`, one handler per message type, one `issue...` per message sent | calls the BMC, servo, timers, network | flags and recommendations are raised in one call and consumed in a later one; every pair of states has its own exit and entry tasks | follows what the BMC selected, is calibrated while SLAVE, loses no timer, leaves none behind, gives up silent masters |
| best master clock, `bmc.c` | `foreignMasterDS` (ring of records, `count`, `i`, `best`), `parentDS` | `addForeign`, `bmc`, `bmcStateDecision`, `m1`, `s1`, `p1` | called by `doState` and `handleAnnounce` | ring indices that survive a reset of the count; the sign of the comparison | one record for each port, the oldest replaced, the best one selected |
| timers, `dep/timer.c` | RTX timers, `ptpdTimersExpired[]` | `timerStart`, `timerStop`, `timerExpired`, callback | RTX timer thread | the callback may run inside `timerStart` | an expiry is neither lost nor taken for that of a later period |
| network queues, `dep/net.c` | two rings of pbufs with a mutex | `netQPut`, `netQGet`, `netQCheck`, `netQEmpty` | TCP/IP and PTP thread | two threads, a full queue, ownership of pbufs | FIFO, every pbuf freed exactly once, the TCP/IP thread never blocked for good |
| main loop and alerts, `ptpd.c` | mailbox of 8 alerts | loop, `ptpd_alert` | all three threads | a message may arrive between the look at the queues and the sleep; alerts are dropped when the mailbox is full | no sleep over work; messages in order |
| delay mechanisms, `protocol.c` | sequence ids, send time, wait for a follow-up | `issueDelayReq`, `issuePDelayReq`, handlers of the answers | network, servo | answers are lost, late or repeated, a request may have no time stamp | a delay combines times of one exchange with the present master |
| servo, `dep/servo.c`; arithmetic, `arith.c` | filters, drift, delays | `initClock`, `updateOffset`, `updateDelay`, `updatePeerDelay`, `updateClock` | engine, system time | 32 bit shifts and sums, a loop through the hardware clock | a filter yields something between its samples, the clock settles |
| message packing, `dep/msg.c` | none | pack, unpack | engine | layout only | unpacking inverts packing |
| system time, `dep/sys_time.c` | hardware clock | `getTime`, `setTime`, `adjFreq` | Ethernet MAC | hardware | - |
| lwIP port to RTX, `sys_arch.c` | RTX objects | semaphores, mutexes, mailboxes, timers | everything | return conventions | - |
| Ethernet interface, `ethernetif.c`, `src/code/src/stm32f4x7_eth_bsp.c`, `stm32f4xx_it.c` | transmit and receive semaphore, DMA descriptors | output, input, drain loop, interrupt | lwIP | interrupt against thread, exhausted pools | every frame is drained, none is sent without the semaphore |
| address configuration, `src/code/src/netconf.c`, lwIP's `dhcp.c` | state of the task; state, tries and timers of the client | DHCP task; replies, ARP answers and timeouts of the client | TCP/IP thread, servers, other hosts | polls the state of another thread and stops it; tries are reset at each change of state | ends with an address, which stays |
| telnet and shell, `src/code/src/telnet.c`, `shell.c` | option state, line and output buffer | negotiation, line editing | console | options split over reads, a client that does not read | takes in what was typed, shows what it took, never waits for the client for ever |
| main, RTX configuration; vendored CMSIS, RTX, drivers, lwIP | - | - | - | third party or set-up | not modelled |

`PROJECT.json` lists the same components with their status and, under
`hazards`, what in this code is hard to test, each at its line, with the
properties that are about it.

## The modules

| module | what it is |
|---|---|
| `Bmc` | the data of the best master clock algorithm: data sets, comparison, foreign master table, scan |
| `PtpPort` | the state machine of one port with its timers, events, table and parent |
| `MCPtpPort` | small networks: data sets of two to four foreign masters |
| `MCPtpLive` | the port in a network that changes once and for all; liveness |
| `MasterQueue`, `PtpMasters` | what the table of masters promises, and the refinement mapping |
| `NetQueue`, `BoundedFifo` | one network queue, statement by statement, and the FIFO that it implements |
| `PtpThread` | the main loop with the receive and the timer callbacks, the mailbox and both queues |
| `EthTx` | the sending of frames: several threads, the semaphore, the DMA and the time stamps |
| `EthRx` | the receiving of frames: DMA, interrupt, semaphore, drain loop, mailbox of TCP/IP |
| `DelayExchange` | both delay mechanisms against a network that loses, repeats and reorders |
| `Arith` | time arithmetic and the exponential filter, with their widths |
| `Servo`, `MCServo` | the servo in a loop with the clock it steers, and its small instance |
| `Dhcp` | the DHCP task, the part of lwIP's client that it lets run, the PTP thread that waits |
| `Telnet` | the console: telnet commands, line editor, output buffer, one client after the other |
| `MCThreads`, `MCClock` | independent modules side by side, for one run each |
| `PtpPortProofs`, `PtpMastersProofs` | proofs about the port; about its table, what the BMC selects from it, and `MCPtpLive` |
| `NetQueueProofs` | proofs about the ring of received messages |
| `ThreadsProofs` | proofs about `PtpThread`, `EthTx`, `EthRx` and `MCThreads` |
| `ServoProofs` | proofs about `Arith` and `Servo` |
| `TelnetProofs` | proofs about `Telnet` |
| `ClockProofs` | proofs about `DelayExchange`, `Dhcp` and `MCClock` |
| `Induction` | induction over numbers, recursive functions, powers of two, for these proofs |

Definitions marked "Defect:" are wrong variants of the one that follows them.
They stand for plausible mistakes in the code and are used by no specification;
the `mutants` of `PROJECT.json` put each in the place of the right definition
and expect a property to fail.

`MCThreads` and `MCClock` do not compose components that interact: a variable
`part` says which module steps, the others keep their initial states. So the
states add up instead of multiplying, and one run checks all behaviours of each
module. Where components do interact, the module that needs the other one has
it as its environment: `PtpPort` extends `Bmc` and has the timer thread in it,
`Servo` extends `Arith` and has the clock in it, `PtpThread` has the queues as
the atomic operations that `NetQueue` shows them to be, `EthTx` and `EthRx`
have DMA and interrupt, `Dhcp` has the TCP/IP and the PTP thread.

### PtpPort: one call of doState

`doState` is walked through in five places of `pc`:

    decide -> recommend -> act -> receive -> delayreq -> decide

| place | code | actions |
|---|---|---|
| decide | `protocol.c` 246-282, `bmc` | `DecideState`, `NoDecision` |
| recommend | 284-366 | `BecomeMaster`, `BecomePassive`, `BecomeListening`, `BecomeUncalibrated`, `BecomeSlave`, `LoseSynchronization`, `KeepState` |
| act | 368-446 | `InitializePort`, `FailInitialization`, `ClearFault`, `AnnounceReceiptTimeout`, `GoOnWaiting`, `IssueSyncAndAnnounce` |
| receive | `handle` and the handlers | `HandleNothing`, `HandleShortMessage`, `HandleAnnounce`, `HandleTwoStepSync`, `HandleOneStepSync`, `HandleFollowUp`, `HandlePassiveSync` |
| delayreq | `issueDelayReqTimerExpired` | `IssueDelayReq`, `NoDelayReq` |

The timer thread's `Expire` may come between any two of them, and within
`timerStart` between the clearing of the flag and the start (`SetTimers`).
`ToState` has the exit and the entry tasks of `toState`. With `ZeroIntervals`
the random interval of the next request may be 0, which RTX refuses: the timer
then stays stopped.

Abstracted: durations (a running timer may end at any time), time stamps (an
offset is one of the three classes that `updateOffset` tells apart), messages
(an Announce is a data set, a Sync or Follow_Up a sender and a sequence id),
which message arrives (any, at any time: loss, duplication and reordering are
included). Clock identities are numbers in the order of `memcmp`. A message
never comes with the port's own identity; those the code ignores. The answers
to delay requests, and those this port gives, are in `DelayExchange`: they
change nothing that `PtpPort` models.

### DelayExchange

A port that sends `DelayReq` or `PDelayReq`, in any state and with any change
of state and master, and ports that answer. A time is named by the request it
belongs to, counted backwards from the last (`age`), so nothing grows; the
sequence ids wrap. `wire` is the set of messages on the way: a message that is
delivered may stay there (duplication), `Lose` takes it away, and a request
makes all of them one request older. A request may be sent without a valid time
stamp, or not at all while `netSend` reports success (`dep/net.c` 401). The
last step's `sample` holds the times that a delay has been computed from; the
properties compare them.

### Servo

One step of `Sync` is a second: the clock gains `freq + adj` and the servo
handles a Sync (`updateOffset`, `updateClock`), `DelayAnswer` is `updateDelay`.
The sums of the filters are words that wrap. When the clock is set it is read
first, low half before high half, and may be read a second ahead (`torn`).
`MCServo` scales: a second has 10^6 ns and a word 10 bits less, so that the
ratio of offset, second and word is nearly that of the code. `MaxFrequency` and
`MaxError` bound what the clock gains in a second by itself and what an answer
is wrong by. `LoopAssumption` says what the controller is made for: its range
covers both, its limit is reached before the clock is set instead, and the
filters have room. With the constants of the build that is a clock off by less
than 0.05 % and delays of less than 32 ms.

### NetQueue and PtpThread

`NetQueue` keeps the steps inside the critical sections apart, so that what
the mutex protects can be seen: `netQPut` moves `head` before it writes the
slot, `netQGet` moves `tail` before it reads it. The refinement mapping to
`BoundedFifo` does not count a slot that is claimed and not written, and still
counts one that is passed and not read. Having shown that the operations are
atomic, `PtpThread` uses them so. Its `waiting` is the set of the messages in
both queues and `before` the order in which they arrived; the head of a queue is
the one that no other of that queue came before. Two details of `handle` matter there: after `toState`, `messageActivity`
makes it receive without selecting, and a discarded message counts as an empty
queue.

### EthTx and EthRx

`EthTx` is `low_level_output` and `ETH_Prepare_Transmit_Descriptors_TimeStamp`
with `txPc[t]` as the place of thread `t`; the DMA sends what it owns and
writes the stamp. The wait for the semaphore may time out, and the code then
goes on. The flag of a stamp is cleared in two steps, a read and a write of the
status word. `EthRx` has the interrupt in its two steps (signal, clear), the
input thread in its three places (wait, input, pass) and counts frames, tokens
and mailbox slots.

### Dhcp and Telnet

`Dhcp` interleaves the task of `netconf.c`, which polls the address and the
tries of lwIP's client four times a second, with the client, which belongs to
the TCP/IP thread. The task looks at the address, at the tries, stops the client
and sets the static address in steps of their own, and the client may run
between any two of them. Offers, acknowledgements and refusals may come or not.
An acknowledged offer is first checked by ARP (`DHCP_DOES_ARP_CHECK` is on by
default): the client is in CHECKING for two of its ticks and binds only then,
while an answer of another host makes it decline the address and wait in
BACKING_OFF for ten seconds. Every change of state resets the tries. An offer
that names no server is dropped after its timer has been stopped. A short lease
may have to be renewed or rebound before the task has stopped the client, and
is then bound at the acknowledgement, or refused.

Time is abstracted to what decides the order: a timer that has just been set
(`"new"`) ends only after the task has polled once more (`"old"`), as messages
wait for a second at least and the second ARP request for a whole tick of
500 ms, against 250 ms between two polls. The first ARP request may be timed out
at once, by a tick that was about to come. Two lines of the client are left
out because the task never lets it get there: releasing the address after a
sixth try (the task has stopped it by then, see `TriesCounted`), and the wrap of
the lease's counters after 45 days.

`Telnet` has the octets between client and console, in segments of any length
up to the buffer; octets are classes (a visible character, CR, BS, 255 and two commands). The
client's terminal is part of the model, since the property is about what the
user sees.

## The runs

| run | module | what it shows | bounds | states |
|---|---|---|---|---|
| `slave_only` | `MCPtpLive` | the port as built: slave only, end to end; safety, refinement of the table and liveness | 3 masters, one with two data sets, table of 2, 2 sequence ids | 270680 |
| `ordinary` | `MCPtpPort` | class 248, peer to peer, may be master | 3 masters, table of 2 | 111735 |
| `primary` | `MCPtpPort` | class 6: master or passive | 2 masters | 1436 |
| `threads` | `MCThreads` | network queue; main loop; transmit; receive | queue of the real size 4 (3 usable slots) and 4 pbufs; 3 event and 2 general messages, one bad of each, queues of 2, mailbox of 2; 2 threads, 2 transmit descriptors; 3 receive descriptors, mailbox of 2, semaphore limit 6 | 663518 |
| `clock` | `MCClock` | path delay; servo; address; console | 2 peers, 3 sequence ids, life time 2, 3 messages on the way; 2 offsets, 2 frequencies; 5 tries; lines of 2 characters, segments of up to 4 octets, 4 units typed | 804890 |
| `resend`, `pairing`, `best`, `asking`, `delay`, `eth`, `dhcp` | | disagreements, see below | | |

Why the bounds are enough. More masters than the table holds make the ring
wrap, `best` go stale and records be overwritten; two records suffice for the
scan to have a choice. A second sequence id makes a Follow_Up fail to match.
`ordinary` has masters that are better and worse than the local clock, so it
becomes master both by decision and by timeout. Four pbufs fill the three
slots and leave one to be rejected. A mailbox of two overflows as soon as two
messages and a timer alert at once. With two transmit descriptors the ring
wraps at every other frame, and two threads are all that send. Six tokens are
more than three descriptors, two mailbox slots and the frame on its way can
call for; the proof has the relation in general. Three sequence ids wrap after
three requests, the shortest cycle that a life time of two allows. The typed
units fill a line, overrun it and step back, and every command is cut by a
segment at every octet. Named bounds are `MaxMessages`, `MaxSets` (a counter that stops
beyond what is claimed), `MaxUnits`; `LifeTime` is an assumption on the network.

### Properties worth knowing

- `ParentIsSelected`, `SlaveCalibrated`, `EventsAreFresh`: the recommendation,
  the parent and the calibration flags agree when the port acts, though they
  are set in different calls and records may be overwritten in between.
- `WatchesMaster`, `DelayTimerKept`, `NoStrayTimer`: every path between states
  keeps the timers that are needed and stops the others, whatever the timer
  thread interrupts.
- `NeverReinitialized`: what keeps `doInit` from running twice is only that a
  fault does not reset `recommendedState`. `doInit` relies on it: it would
  drop queued pbufs and zero the control blocks of running timers.
- `MissingMasterGivenUp`: a master that falls silent or stops announcing is
  given up. The premise that its Syncs do not keep raising synchronization
  faults is needed: the way back from SLAVE to UNCALIBRATED starts the announce
  receipt timer anew, and TLC refutes the property without it.
- `SteadyMasterFollowed`: a steady master is followed in the end, unless the
  table holds a record worse than the local clock: the scan then selects that
  one (see `best`), and a port that listens has no running timer that would
  make it forget the record.
- `RingIsMasterQueue`, `RingIsFifo`: the two rings are what they are meant to
  be, a queue of masters and a queue of messages.
- `NoLostWakeup`: the alert for work that came too late to be seen is in the
  mailbox or on its way. `LoopHandlesEvents` says the same with liveness: it
  assumes no fairness of the 100 ms timeout.
- `EventsFirst`: why a Follow_Up is not taken before the Sync that arrived
  before it, and the two cases in which it may be.
- `EndToEndSample`, `PeerSample`: a delay is made of times that belong
  together. For a peer delay only the follow-up is known to be of the last
  request; the answer can be of an earlier one.
- `SetAtMostThrice`, `ServoSettles`: the clock is set for its own offset and
  twice more for a mean path delay that `initClock` keeps, and is steered from
  then on. `FilterWithinSamples`: no sum leaves its word. The order of a
  filter is judged by the larger of two signed values (`dep/servo.c` 104), so a
  long run of samples near minus a second would overflow; but the filter of the
  offsets is emptied as soon as its mean would be one to set the clock for, and
  `LoopAssumption` leaves room for one sample of a second on top of such a mean.
- `TransmitNeverJams`, `FullRingIsDrained`, `FrameIsAwaited`: the DMA is always
  woken up again. What the properties except is what does go wrong: a wait that
  timed out, a time stamp that was given up, a frame that found no pbuf.
- `PtpStarts`: the PTP thread gets an address whatever replies are lost. Each
  exception is a way in which the code does wait for ever, and TLC refutes the
  property without any one of them: a client that could not be started; servers
  that refuse, or hosts that answer for the address, again and again; offers that
  name no server; a refused renewal between the task's look and its stop.
- `AddressRemains`: the address that the PTP thread has started with stays until
  a server refuses to renew a lease. No lease is bound while the task gives up:
  the check by ARP counts its tries anew and outlasts the step from the task's
  look to its stop. If the client bound at the acknowledgement (the mutant), the
  static address could replace a lease that is in use.
- `ConfiguredIsUpUnlessRefused`: a lease, new or renewed, brings up an interface
  that a refusal has set down; a static address does not (run `dhcp`).
- `ConsoleFaithful`: the shell reads what the user typed, wherever segments
  end, and the user sees the line that will be executed. Excepted are a 255
  within an option, which the code takes for its end, a typed 255, which the
  echo does not quote, and output that was dropped. `ConsoleServed`: the console
  never waits for a client for ever, except with an answer to an option.

### Fairness

`PtpPort!Fairness`: the PTP thread runs, being woken at least every 100 ms,
and a running timer ends. `MCPtpLive` adds that what a steady master sends is
handled again and again (strong fairness: the port cannot handle it while it
is busy with other things) and in time (`InTime`). The runs `threads` and
`clock` have no fairness in their specification; each temporal property has
that of its part as a premise, and holds trivially for behaviours of the
others. `QueueFairness`: both threads run, and the RTX mutex is handed to the
thread that waits for it (strong fairness of the two lock steps).
`ThreadFairness`: callbacks return and the PTP thread runs, the 100 ms timeout
excepted; the premise `TimersAreSlow` excludes that a timer of a second expires
before every single call of `doState`. `EthTxFairness`: threads and DMA go on.
`ServoFairness`: Syncs go on and answers get through again and again.
`DhcpFairness`: the task, the PTP thread's polling and the client's request
timer run; nothing is assumed of servers, other hosts or the lease's timers. `TelnetFairness`: the console runs; nothing is assumed of the client.

## Where the code and its words disagree

Each has a run that ends with the violation; `PROJECT.json` quotes the words.

- `resend`: the timers of a master are once-only (`dep/timer.c` 35) and are
  not restarted in `protocol.c` 426-436, so a master sends one Sync and one
  Announce. The other roles are not affected; the build is slave only.
- `pairing`: on a change of parent the wait for a Follow_Up survives, so a
  Sync of one master can be paired with a Follow_Up of another.
- `best`: `bmc` keeps record *i* when the comparison says that the other one is
  better (`bmc.c` 414 with 232-233), so the worst record is selected.
- `asking`: a random interval of 0 is refused by RTX, and nothing but its own
  expiry restarts the request timer: the slave never measures its delay again.
- `delay`: a request without a valid time stamp is answered all the same, and
  the delay is computed from the send time of an earlier one.
- `eth`: a wait for the transmit semaphore that times out counts as success.
- `dhcp`: after a refusal the fallback gives a static address to an interface
  that is down.

## What is proved

All proofs are for arbitrary constants under the named assumptions, which TLC
evaluates in the runs: any set of masters and data sets, any capacity, clock
quality, role and delay mechanism (`CapacityAssumption`,
`IdentityAssumption`, `PortAssumption`, `SequenceAssumption`), any number of
sequence ids above the life time of a message (`DelayAssumption`), any number
of threads, descriptors and mailbox slots (`TxAssumption`, `RxAssumption`), any
ring of more than one slot and any set of pbufs (`QueueAssumption`), any sets of
messages and limits of the queues and of the mailbox (`ThreadAssumption`), any
limit of tries in the code's range (`DhcpAssumption`), any length of the second
that fits the word (`ArithAssumption`), any gains, stiffness and first values of
the servo (`ServoAssumption`) within `LoopAssumption`, any sizes of the line and
of the input buffer and any number of typed units (`TelnetAssumption`). For
`MCPtpLive` the steady master has to be one of the masters (`SteadyAssumption`).

**`PtpPortProofs`** proves that `IInv` is inductive. None of the invariants is
so by itself, and `IInv` says why they hold:

- `DecisionSoonTaken`: a state decision event is pending only until the next
  decide step, in a state that takes it, and the table is not empty then. So
  `bmc` never reads a missing record (`DecisionHasRecord`).
- `CalibrationSoonTaken`: a calibration flag lives only from the message that
  raised it to the next recommend step, with SLAVE recommended and no decision
  in between. So it is consumed in its own state (`EventsAreFresh`).
- `FollowsRecommendation`: when the port acts it is where it was recommended
  to be, which gives `ParentIsSelected` its premise.
- `TableInOrder` and `DistinctMasters`: slots are filled in order, `i` is the
  next one, and `best` is below `count` unless a decision is pending. The last
  part makes the search of `addForeign` complete, hence records distinct.
- `RecommendedParent`, `NotRecommended`, `CalibratedUntilLeaving`: what a
  recommendation says of the parent, of the role and of the calibration.

`InitEstablishes` and `StepsPreserve` give `Invariance`; the theorems listed
in `PROJECT.json` are its consequences. `InitializedOnce` is an action
property and follows step by step from `IInv`.

**`PtpMastersProofs`** proves that `PtpPort` implements `MasterQueue`. The
mapping orders the records by age, starting `count` slots behind `i`.
`addForeign` maps to `Refresh` or `Enter`, the timeout and `doInit` to
`Forget`, every other step to a stutter. The proof rests on `TableInOrder` and
`DistinctMasters`. `WorstIsSelected` shows that the violation `best` is no
accident: whenever the records announce different grandmasters, the comparison
is a total order of them (`ScanEndsAtWorst`), and the scan, by induction over the
records, ends at its worst end. `LiveImplementsPort` maps the network that
changes once and for all to the port, so all that is proved of the port holds in
the run `slave_only`.

**`ClockProofs`**, path delay: the sequence id of a message that is not older than
its life time determines its request, though the ids wrap and the comparison
in the code is with an int that may be -1 (`CurrentIsLast`). With the facts
that the send time is known when the last request was stamped, that a slave has
times of its present master and that a follow-up is awaited only after an
answer, both properties of the samples are inductive.

**`NetQueueProofs`** proves that the ring implements `BoundedFifo` and that no
pbuf has two owners. The mutex is held by whoever is inside (`MutexHeld`), so
one step moves `head` or `tail` at a time, and goes round the ring once at most
(`Round`): claiming or passing a slot leaves the contents (`ClaimIsSilent`,
`PassIsSilent`), storing appends to them (`StoreAppends`), loading or freeing
takes the first (`ReadTakesFirst`). Ownership is proved of the sequence that the
ring stands for (`Owned`) and not of the slots, which may hold stale pointers.

**`ThreadsProofs`**, main loop: an alert stays until the thread wakes, even when the
mailbox is full (`AlertsRemain`), and whatever comes after the loop has looked
for it leaves one (`LateWorkAlerts`). `NoLostWakeup` alone is not inductive: it
says nothing of an event message that comes between the two looks of
`netSelect`. For `EventsFirst`, what `netSelect` has found is still there when
`netRecv` looks (`SelectedWaits`), and a message that comes meanwhile takes the
place of no head (`HeadsRemain`).

**`ThreadsProofs`**, receiving: the heart is a balance, `TokensPaid`: tokens, signals that
are due and the drain that runs are at most one more than the frames in the
ring and the pbufs on the way. The mailbox empties only while there are no
tokens (the input thread has a higher priority than the TCP/IP thread), which
keeps the balance, and with it the tokens below the limit of the semaphore
(`InterruptReturns`). `SignalGiven` and `FullAwaitsDrain` say where the drain
for a waiting frame comes from.

**`ThreadsProofs`**, sending: until a wait times out the semaphore is a lock (`TxLock`),
and until a time stamp is given up the ring holds one frame at a time
(`TxOneFrame`): the descriptor next to be set is where the DMA waits, and all
others are free and without a stamp. Nothing is overwritten then, and the stamp
found is that of the frame.

**`ClockProofs`**, address: `DhcpInv` is inductive. Once the task has stopped the
client, nothing moves it any more, and while the interface has an address it
only keeps it (`ClientIdle`), so no late answer changes the address. A timer
that is about to end has been seen by the task, so the tries are within its
limit (`TriesCounted`). `LeaseHeld` says why binding and giving up exclude each
other as long as no lease has been refused: a lease that comes after the task's
last look has reset the tries, which stops the task from giving up, and once it
has decided to, a client in CHECKING whose timer is about to end has made its
first ARP request only. Only a refusal sets the interface down
(`UpUnlessRefused`).

**`ServoProofs`**, arithmetic: the quotient and remainder of C, which round
toward zero, and the corrections of `normalizeTime` make sums, differences and
halves exact, for times of any sign. The 32 bit width of the seconds is not part
of it.

**`ServoProofs`**, filters: the mean is the sum shifted by the order, rounded
down, and a step moves it towards the sample without passing it (`MeanMoves`), by
a share of the distance that the order gives (`MeanCatchesUp`). The order rises
by one at most and is low enough for the sum to be shifted (`FilterStep`). With
`FilterOK` this keeps times normal and adjustments bounded (`ServoInvariance`).

**`ServoProofs`**, the loop: `SetAtMostThrice` has the invariant `LoopInv`. Its
part `SetsAccounted` lists the phases that the servo goes through: not set yet;
steered with the delay that it started with; with a delay that was measured;
after the set for an averaged offset, with an empty filter; and finally steered
for good. Each set leads to a later phase, and the phases are few. What has to be
shown is that a phase that steers (`Locked`) never sets the clock
(`LockedStays`). The mean lags behind the offsets by at most `Lag`
(`LagBounded`), which grows with the stiffness of the filter. Where the mean is
beyond `Drive` the control is at its limit, whatever the drift that has
accumulated (`ControlSaturates`), and its limit is more than the clock gains, so
the next offset is nearer. Hence an offset never exceeds `Drive + Lag + Gain` and
an error, which `LoopAssumption` puts below the threshold for setting. The true
offset and the measured one differ by the error of the delay in use, which an
answer makes at most `MaxError` (`AnswerMeasures`): an answer between two phases
moves the target of the control, which is why `Locked` has it as parameter.
`FiltersFit` says in addition that no sum overflows (`NoOverflow`).

**`TelnetProofs`**: `ProcessResumes` says that `telnet_process` may be given what
a client sends in any pieces, by induction over the octets. On it rests the half
of `TelnetInv` that relates what was typed to what is read: `InputOK` says that the
input buffer and what `telnet_process` will still make of the octets on the way
are the characters not read yet. The other half, `LineOK`, runs the client's
terminal over the output that is not yet flushed: it then shows the line
(`Seen`), which echoing a character or erasing one keeps (`SeenAppend`,
`SeenErase`), wherever the flush comes.

**`ClockProofs`** and **`ThreadsProofs`** also prove that a behaviour of `MCClock`
or `MCThreads` is one of each of its parts (`ClockImplementsParts`,
`ThreadsImplementParts`), so that the theorems about the parts hold of what the
two runs check (`ClockSafe`, `ThreadsSafe`).

**`Induction`**: the induction theorems of the library take a predicate as
parameter, which the provers cannot instantiate. Stated about a set of numbers
instead, and proved from the well-foundedness of the order, induction is within
their reach (`SetInduction`, `BoundedInduction`). It gives the values of a
function that is defined by recursion along a sequence or a table, and the powers
of two, the latter from the number of subsets.

Each action has its step, and each conjunct that it can disturb has one below.

Only model-checked: the temporal properties `MissingMasterGivenUp`,
`SteadyMasterFollowed`, `SlaveGoesOnAsking`, `ServoSettles`, `PtpStarts`,
`ConsoleServed`, `LoopHandlesEvents`, `TransmitNeverJams` and
`QueueCallbackReturns`, all of them liveness under fairness, which is out of the
prover's reach; and the findings, which are single counterexamples.

## Not modelled

- Message packing (`dep/msg.c`): copies between octets and structures, without
  state or decisions.
- `netInit` and `netShutdown` beyond their success, the raw UDP interface of
  lwIP that two threads use at once, and the rate of event messages that could
  keep general ones waiting: the hazards without a property.
- What the shell commands print, `telnet_printf`, the values of telnet options.
- The configuration of MAC, PHY, clock tree and kernel, and the creation of the
  threads, done once before anything runs concurrently.
- CMSIS, RTX, the peripheral drivers, the board support and the rest of lwIP.
  They are third-party code and more than nine tenths of the lines of the
  repository, so the share of all lines that the models cover stays small though
  most of the daemon's own control is in them. They appear where the daemon's
  own behaviour depends on them: semaphores, mutexes and timers of RTX, the DHCP
  client of lwIP, the two frame functions of the Ethernet driver.
