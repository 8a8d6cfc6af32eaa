# rust-user-net: a TLA+ model of the user-level network stack

`rust-user-net` is a TCP/IP stack in user space: Ethernet frames come from a TAP
device, go through ARP, IP, ICMP, UDP and TCP, and end in small commands (`tcp
send`, `udp receive`, ...). This directory models the stack from the frames of the
TAP device to the commands, checks it with TLC on small instances and proves with
TLAPS, for every value of the constants, the safety invariants of the transport layer,
the threads and the network, that TCP implements the diagram of a connection's life,
and that the way from the device to the protocols is a queue for each of them. File names below are relative to `src/src/`.

## 1. The system

### Threads and shared state

| thread | started at | what it does |
|---|---|---|
| main | `main.rs:42-63` | loops over signals: SIGUSR1 runs the protocol queues, the device interrupts read one frame, TERM ends the loop; then it tells the application thread, closes all sockets and joins |
| application | `app.rs:195-384` | one command: opens a socket, then a loop of calls; looks for a termination message once per turn |
| retransmission | `app.rs:166-191` | every 100 ms calls `tcp::retransmit` |

They share four mutexes: the devices, the protocol queues, the protocol contexts
(routes, ARP, IP id) and the control blocks (the tables `TcpPcbs` and `UdpPcbs`). A blocking call stores the sender of an mpsc channel in its control
block, unlocks the table, and sleeps in `recv()`; who changes the block sends a
Boolean token (true: look again; false: give up).

### Components

| component | state | operations | what makes it correct |
|---|---|---|---|
| TCP (`protocols/ip/tcp.rs`) | 16 blocks: state, endpoints, send and receive sequence variables, receive buffer, retransmission queue, backlog, sender | `segment_arrives`, `retransmit`, `rfc793_open`, `open`, `bind`, `listen`, `accept`, `connect`, `send`, `receive`, `close`, `close_sockets` | sequence space in order, window and buffer consistent, no wakeup lost, bytes delivered in order, retransmission until acknowledged |
| UDP (`protocols/ip/udp.rs`) | 16 blocks: state, local endpoint, queue, sender | `open`, `bind`, `send_to`, `receive_from`, `input`, `close_sockets` | one block per endpoint, every datagram is delivered, the source port is that of the block |
| commands (`app.rs`) | loop variables | `udp_send`, `udp_receive`, `tcp_send`, `tcp_receive` | print what arrives, end with Ctrl+C |
| signal loop (`main.rs`) | termination message, join | signals, shutdown | a TERM signal ends the process |
| IP (`protocols/ip/mod.rs`) | routes, identification counter | `input`, `output`, route lookup | every packet that is accepted for sending leaves or is reported; nothing unwraps an error of the peer |
| ARP (`protocols/arp.rs`) | table with time stamps | `arp_resolve`, `input`, request, reply | a complete entry is one that was received; requests are answered |
| ICMP (`protocols/ip/icmp.rs`) | none | echo | the reply carries the request's data |
| devices, queues (`devices/`, `protocols/mod.rs`, `interrupt.rs`) | device list, loopback slot, protocol queues | `open`, `transmit`, `isr`, `handle_irq`, `handle_data` | each frame is read and handled once, in order |
| TAP driver (`drivers/`) | file descriptor | system calls | - |
| utilities (`utils/`) | none | byte order, checksum, list | they compute what they say |

### What is hard here

* A call reads its block under the lock and sleeps after the unlock: anything may
  happen in between, including release and reuse of the block.
* `send` and `connect` sleep while their caller holds the device.
* The mutexes are taken in different orders: `handle_protocol` devices, protocols,
  contexts, blocks (`app.rs:152-158`); the retransmission thread and `rfc793_open`
  blocks, devices, contexts (`app.rs:183-189`).
* Unsigned arithmetic without wrap-around on sequence numbers and windows; the
  build of the repository's README is the debug build, in which overflow panics.
* A block that is released keeps its endpoints, buffer, mode and parent.
* Shutdown races with the application thread's check for the message.
* Almost every error is unwrapped: a panic in the main thread ends the process, one in
  another thread poisons the mutexes it holds.

`PROJECT.json` lists these hazards at their lines, with the properties for each.

## 2. Modules

| module | models | extends |
|---|---|---|
| `TcpPcb` | one TCP control block as a record and the functions on it: queue, release, matching, acceptance test, ACK/text/FIN stages, retransmission of one block | |
| `Tcp` | the table, the segments that arrive, the retransmission thread, all user calls, TERM | `TcpPcb` |
| `Udp` | the UDP table, its calls, datagrams, `close_sockets` | |
| `UdpApp` | the two UDP commands, the signal loop, shutdown and join | `Udp` |
| `TcpLifecycle` | abstract: the life of a control block, without segments, numbers and calls | |
| `TcpImpl` | the refinement mapping from `Tcp` to `TcpLifecycle` | `Tcp` |
| `Ip` | pure operators: byte order, checksum, routes, IPv4 header, echo reply | |
| `Net` | frames, signals, protocol queues, ARP, IP input and output, ICMP | `Ip` |
| `Inbox` | abstract: one first-in-first-out queue per protocol | |
| `Threads` | the four commands, the signal loop and the retransmission thread at the granularity of the mutexes | uses `TcpLifecycle` |
| `MCTcp`, `MCUdp`, `MCUdpApp`, `MCNet` | constants and bounds of the runs | `TcpImpl`, `Udp`, `UdpApp`, `Net` |
| `TcpPcbProofs` | lemmas about the operators of `TcpPcb` | `TcpPcb` |
| `TcpProofs` | invariants and theorems of `Tcp` | `Tcp`, `TcpPcbProofs` |
| `DataLemmas` | induction over numbers and sequences, counting the tokens of a channel | |
| `TcpQueueProofs` | queues, `send` and `accept` | `TcpProofs`, `DataLemmas` |
| `TcpImplProofs` | the refinement of `TcpLifecycle` | `TcpImpl`, `TcpQueueProofs` |
| `UdpProofs` | invariants and theorems of `Udp` and `UdpApp` | `UdpApp`, `DataLemmas` |
| `ThreadsProofs` | invariants and theorems of `Threads` | `Threads` |
| `NetProofs` | the checksum, invariants and theorems of `Net`, the refinement of `Inbox` | `Net`, `DataLemmas` |

### TCP: state and actions

| variable | code |
|---|---|
| `pcbs` | `TcpPcbs.entries` |
| `call` | where the application thread is inside a call, with the call's locals (`pcb`, remaining `data`, a length `n`, `next`/`got` of `accept`) |
| `chan` | the mpsc channel of that call |
| `out` | the segments the last step gave to `ip::output` |
| `handles` | block ids the application has been given |
| `phase` | `running`, `closing` (after TERM), `panic` |

An action is one critical section of the table mutex. `segment_arrives` is one
action per outcome, each with the guard of its branch and of every early return
before it: `Refuse`, `RefuseAck`, `ListenSyn`, `SynSentReset`, `SynSentArrives`,
`Unacceptable`, `Reset`, `AckAhead`, `Process`, and `ArrivalPanics` for the
arithmetic that leaves its type and for a listener without a free block. What the
code drops without effect is a stuttering step. A blocking call is an action up to
its `recv()`, and one (`OpenWakes`, `ReceiveWakes`, ...) for each wakeup. `send` and
`receive` release the lock between reading the block and using it, so they have
separate actions (`SendSegment`, `ReceiveCopies`) that use the values read before.
While `send` or `connect` runs the device is held (`DeviceHeld`): no segment and no
retransmission is handled, exactly as with the mutex.

Time is three ages of a queue entry: `fresh` until the retry interval (200 ms) has
passed, `due` after it, `expired` after 12 s; `RetryIntervalPasses` and
`TimeoutPasses` move all entries on.

Abstractions:

* header bytes and checksums are not modelled: `Segments` are those that `input()`
  hands on. Its panics (too few bytes, an address that is not unicast, a data offset
  beyond the end) and the error of a bad checksum, which `protocols/mod.rs:102`
  unwraps, are `InputPanics`, which ends the process;
* of the data offset a segment keeps what `input()` makes of it: `len`, the length
  minus the announced header, beside `data`, the bytes after the first 20. With options
  `len` is smaller than `data` is long; with an offset below five, which `input()` does
  not refuse (`tcp.rs:1009-1010`), it is larger;
* `Locals` are restricted to the wildcard and the interface address, since
  `ip::output` refuses any other source; the gateway route matches every
  destination;
* `ip::output` itself is the set `out`; whether ARP has the hardware address decides
  only if a too large frame panics, which is a choice (`TransferPanics`,
  `RetransmitMayPanic`);
* `Swap` is `le_to_be_u16` on a port, which `connect` applies once too often;
* a panic is the end of the behaviour (`phase = "panic"`): in the main thread it ends
  the process; in another, the next thread to lock a poisoned mutex panics too;
* `irs`, `mtu`, `mss`, `urg_ptr` and the value of `wait_time` are read by nobody.

### UDP: state and actions

`pcbs` is `UdpPcbs.entries`; `told` says that a `receive_from` has ever stored a
sender in the block, whose receiver is alive only while that call waits (`call`).
`Input` is a datagram that reaches a sleeping call; `InputPanics` collects the
`unwrap`s on the way (bad length or checksum, no block, no living receiver). `UdpApp`
adds the program counters of the application and main threads: `Check` is the look
for the termination message at the top of the loop, `OpenAndBind`, `SendTurn` and
`ReceiveTurn` one turn each, `Received` the return; `Term`, `TellApp`, `Close` and
`Join` follow the end of `main.rs`.

### Threads and mutexes: state and actions

`Threads` leaves out what happens inside a critical section, except for the state of the
one control block of the command, and keeps who waits for what. `pc[t]` names the
section a thread is in, `got[t]` how many of the section's mutexes (`Sections`, in the
order of the code) it has; `Acquire(t)` takes the next one, or dies of it when it is
poisoned. The other actions happen with all mutexes of the section in hand, and drop
or keep them as the scopes of the guards in the code do: `send` sleeps (`sendwait`) with
the devices and contexts of `tcp_send_command`. `Dies` is a panic: in the main thread
the end of the process, elsewhere the end of the thread, with its mutexes poisoned.
The control block moves along the edges `Arrivals` of `TcpLifecycle`, which `Tcp`
implements; so a step of `Threads` is one that `Tcp` allows. `missed` is a history
variable: `close_sockets` found no call that listens. Where a computation may fail for
reasons that are not kept here (a window that overflows, a packet that is refused)
the panic is a choice.

### Network: state and actions

| variable | code |
|---|---|
| `tap` | frames in the device, not yet read |
| `pending` | signals of each kind that the main thread has not taken |
| `queues` | `NetProtocol.input_head` of ARP and IP |
| `contexts` | the ARP table and the last IP identification |
| `wire` | the frames the last step transmitted |
| `main`, `phase` | the main thread (idle, draining the queues); running, poisoned, ended, panic |
| `kept` | another thread keeps a mutex that `handle_irq` and `handle_protocol` wait for |
| `arrived`, `said` | history: number of frames, address pairs announced to us |

`FrameArrives` is the kernel: a frame and a signal, the latter lost when `Slots` of them
wait (the kernel queues real-time signals up to a limit, the signal iterator has a
bounded queue of its own). `HandleIrq` reads one frame and raises SIGUSR1,
`HandleProtocol` starts a draining, `HandleInput` handles one packet: it computes the new
contexts, the frames sent, and whether it came to its end (`Begin`, `Failed`,
`Transmit`). `Sends` is a packet of another thread, `Clock` the passing of four hours or a
clock that is set. `MutexKept` is another thread that gets to where it keeps the devices
or the control blocks from the main thread (`send` asleep, or the deadlock with
`handle_protocol`, both of which `Threads` has in detail); `MutexGivenBack` need not come.
IPv4 headers and ICMP messages are modelled byte by byte, as the checksum is computed over
them. What follows a header is taken from where the header says it ends (`Given`): one that
announces less than 20 bytes gives part of itself to ICMP. Of TCP and UDP only the
reactions count: at most two replies, or a panic. `Output` panics also when the total
length does not fit 16 bits, for payloads from 65516 bytes on, before it looks at ARP.

## 3. Runs

### Runs that pass

* **tcp_connection** (`MCTcp.cfg`): one block, opened actively or passively, that
  sends, receives, is reset, times out, is closed and opened again, against a peer
  whose segments carry old, expected, early and out-of-range numbers, open and
  closed windows, text longer than the window, options, data offsets below five, and the
  end of the sequence space. About 96,000 states. Properties:
  * `TypeOK`: in particular no window or sequence number leaves its integer type
    other than by a panic;
  * `NeverHalfClosed`: no block gets into a state that follows a FIN of this side
    (`close()` sends RST and nothing sends FIN), so the `unwrap`s of the TIME-WAIT
    code are not reached;
  * `SendSpace`: `iss <= una <= next`;
  * `QueueOrdered`: the retransmission queue holds entries of this connection only,
    in order;
  * `NoLostWakeup`: `rfc793_open` and `receive` never sleep without a token when
    there is something for them to do;
  * `SendStarves`: while `send` sleeps with a full window, nothing opens the window: its
    caller holds the device, so no acknowledgment is handled before TERM;
  * `AckMonotone` (action property): `una` and `next` only grow, and `una` only to
    what was sent;
  * `ReceiveMonotone` (action property): what has been acknowledged to the peer is not
    asked for again: `rcv.next` of an established connection never moves back. The text
    stage sets it from the segment alone, so this rests on the acceptance test;
  * `FollowsLifecycle` (refinement): each block goes through its states as
    `TcpLifecycle` says: a connection is established only out of a handshake, by a
    segment, before TERM; a block in use is taken over only by a socket call.
* **tcp_sockets** (`MCTcpSockets.cfg`): two blocks, the socket calls, two peers;
  blocks freed and taken again by a listener while a call sleeps on them.
  `NoLostWakeup` again; `ConnectStarves`: no answer to `connect`'s SYN is processed
  before TERM, as its caller holds the device; `AcceptStarves`: every wakeup of
  `accept` comes with a backlog entry, for which it loops and sleeps again, so it
  returns no connection while the listener is there; `FollowsLifecycle` with
  listeners that spawn. The two `...Starves` (and `SendStarves` above) state what the
  code does, not what one would wish; no line of the repository promises otherwise.
* **udp** (`MCUdp.cfg`): three blocks bound and bound again to wildcard and specific
  endpoints, sending and receiving. `EndpointsDisjoint`: no two bound blocks serve one
  endpoint; `TokenHasDatagram`: a call that is woken with true finds a datagram.
* **udp_app_send** (`MCUdpAppSend.cfg`): the whole send command with TERM at any time.
  `SleeperEnds` (liveness): a TERM signal that finds the application thread asleep in
  `receive_from` leads to the end of the process (a panic in the main thread counts
  as one).
* **threads** (`MCThreads.cfg`): all four commands, every interleaving of their locks with
  the signal loop, the retransmission thread, panics and TERM. About 27,000 states.
  * `DeadlockNeedsReversal`: whenever threads wait for each other's mutexes, one of them
    holds the control blocks and wants the devices. Only the retransmission thread and
    `rfc793_open` do that: with the order of the others there would be no deadlock;
  * `HangsAreKnown`: the complete list of how the process hangs, that is, of how every
    thread comes to wait for a mutex, a token, a thread it joins or a signal, to loop in
    `receive`, or to be gone (`Stuck`). After TERM: `receive`
    loops on a freed block; a call that began after `close_sockets` is woken by nobody. At
    any time: that deadlock, or `send` asleep with the devices. Nothing else, in
    particular no forgotten sleeper;
  * `SleeperEnds` (liveness): a call that sleeps when TERM is handled does not keep the
    process from ending.
* **net** (`MCNet.cfg`): ARP requests and replies, echo requests, TCP segments, and frames
  that are short, foreign, padded, of unknown type, not for us or with a header that
  announces less than 20 bytes, in any order, with signals pending and lost, packets of
  other threads, mutexes that they keep, and a clock that jumps. About 395,000 states.
  * `NoPacketStranded`: a packet in a queue has a SIGUSR1 to come, or is being handled;
  * `ReadFindsFrame`: an interrupt always finds a frame, so `read()` does not block with the
    mutexes held;
  * `ToAnnounced`: an IP packet goes only to a hardware address that was announced to us
    for its next hop and has not timed out;
  * `SentVerifies`: header and echo reply carry the checksum that RFC 1071 asks for
    (a sum that is a multiple of 65535), which is not how `cksum16` computes it;
  * `AnnouncementTaken` (liveness): if the other threads at some time stop keeping the
    mutexes of the signal loop, an ARP message that was signalled gets into the table
    or the process ends first. Without the condition it is false of the code: that
    the main thread can be shut out for ever is what `SendStarves`, `HangsAreKnown` and
    threads_transmit show;
  * `FollowsInbox` (refinement): seen from the protocols, device, signals and queues are one
    first-in-first-out queue each. It says that nothing is repeated, reordered or lost
    behind another packet; a packet that were taken from the head and not handled would
    still be a step of the abstract queue.

### Runs that find a violation

Each states a sentence of the repository and has an entry under "findings".

| run | the sentence | what the code does |
|---|---|---|
| tcp_order | "the idealized segment that begins at RCV.NXT", `tcp.rs:719` | a segment that begins before `rcv.next` is appended whole; one that begins after it likewise, and the gap is acknowledged |
| tcp_retransmit | "elapsed errors when time is before now", `tcp.rs:360` | it errors when the time is after now: entries are sent again before the interval and dropped after it |
| udp_app_term | "Ctrl+C to end.", `app.rs:454` | TERM between the check and the first `receive_from` leaves the thread asleep and `join()` with it |
| udp_app_stranded | "printing out each segment received", `app.rs:454` | the second of two datagrams stays in the queue, its token is lost with the old channel |
| threads_transmit | "transmit check interval: 100ms", `app.rs:171` | the retransmission thread (control blocks, then devices) and `handle_protocol` (devices, then control blocks) wait for each other for ever, even when every mutex that comes free again and again is got (strong fairness of `Acquire`) |
| net_broadcast | "change original destination when addressed to broadcast address", `icmp.rs:81` | `ip::input` refuses every destination but the unicast address, and the refusal is unwrapped: the process ends |

Seen while modelling and left without a run of their own: `select` compares the remote
address only, although its comment says "Both remote address and port match"
(`tcp.rs:298`), so a connection takes text from another port of its peer; a bound UDP
block sends from port 0, as `send_to` fills in a port only for a block that has none
(`udp.rs:315-336`); no route for the Ethernet's own network is registered, so packets
for neighbours go to the gateway (`app.rs:74-76`); a FIN with text sets
`rcv.next` to `seq + 1` (`tcp.rs:921`); a RST outside the window is answered with an
ACK while other such segments are dropped silently (`tcp.rs:713-716`); option bytes
are taken for text (`tcp.rs:892`, `1030`); `input` does not refuse a data offset below
five (`tcp.rs:1009-1010`), and such a segment moves `rcv.next` and the window over
bytes that never arrived, unlike the `memcpy` of the comment at `tcp.rs:891`;
`delete_entry` (`udp.rs:87-99`) is called by
nobody.

### Bounds

Sequence numbers end at `SeqMax = 6`, the buffer (and largest window) is 2, `Mss` 1, so
a send of two bytes takes two rounds, a segment of two bytes can fill or overrun the
window, and the end of the sequence space is three bytes away. One block is enough
for what happens to a connection, since segments and calls meet other blocks only
through the backlog and `new_entry`; two are enough for a listener and its child, for
a full table and for reuse by somebody else. The UDP run has three blocks, so that
two are bound when a third is bound or bound again. `MaxChan`, `MaxBuf`, `MaxQueue`
and `MaxBacklog` (constraint `Bounded`) cap what the code leaves unbounded; each is at
least one more than the interesting case needs. `VIEW Internal` hides `out` in the TCP
runs: no guard reads it. The properties that are checked over a whole run do not
read it either, except `TypeOK`, whose conjunct on `out` and the action property
`RetransmitAfterInterval` are evaluated on the states and steps that TLC generates
(the former is also proved). The UDP command runs have no constraint, as they check
liveness: datagrams stop arriving when the queue is full (`BoundedNext`).

`Threads` has one control block, which is all a command opens; `MaxPuts = 2` lets `send`
meet other threads between two segments, `MaxChan = 2` bounds the tokens that wait:
which of two tokens comes first matters, a third one brings nothing new. In `Net`,
`MaxFrames = 3` lets two frames of one queue and one of the other be under way, or one
be left behind by a lost signal and still be read; `Slots = 2` is the smallest number
for which a signal can be pending while another is handled and a third is lost;
`IdMax = 130` lets two packets go out and the third overflow the identification.

TLC's deadlock check is off: the program really may stop, by a panic, at its end, or
with every thread asleep and no traffic.

### Fairness

`UdpApp`: weak fairness of the application thread and of the main thread after a TERM
signal, since the operating system schedules both. `Threads`: weak fairness of every
thread, for taking a free mutex and for going on with what it holds; signals and packets
need not come. Strong fairness of `Acquire` is assumed (`FairSpec`) only in
threads_transmit, where it makes the counterexample stronger. `Net`: weak fairness of
the main thread when it has a signal to take and no other thread keeps its mutexes, or
when a queue is not empty, which is what the operating system gives. Nothing is assumed
of a thread that keeps a mutex: `AnnouncementTaken` has `<>[]~kept` as its condition.
Frames, sends, the clock, `MutexGivenBack` and TERM need not happen.

## 4. Proofs

All theorems hold for every value of the constants that satisfies the named
assumptions: any number of blocks, any sequence space, buffer and segment size, any
set of segments, endpoints, payloads and calls.

* `TcpPcbProofs`: what each operator on a block preserves: types (`Pcb`), the send
  sequence space, the window/buffer relation, the states reached. The relation holds
  under `WholeText` only: no segment announces a data offset below five.
* `TcpProofs`: the invariant is `IInv == TableOK /\ CallOK /\ OutOK /\ WaitOK`.
  `TableOK` has each block typed, not half closed, with its send space and, under
  `WholeText`, its window in order; `CallOK` types the call and channel and says the channel is empty between
  calls; `WaitOK` holds `NoLostWakeup`, `ConnectStarves` and `SendingOK`. The
  strengthening is needed because `send` goes on with a block without reading its
  state again: `SendSpace` survives that step only if the block is not one in SYN-SENT
  (`SendingOK`). `NoLostWakeup` needs that a new call starts with an empty channel
  (`CallOK`), and `ConnectStarves` that no other step touches the block of a call that
  holds the device. From `Invariance` follow `TypeCorrect`, `HalfClosedUnreachable`,
  `SendSpaceHolds`, `WakeupsArrive`, `ConnectNeverAnswered` and, with one more step per
  action, `AcksAdvance` and `ReceivedStays`; for the latter an acceptable segment is
  shown to end at or after `rcv.next` (`AcceptableEnds`). `WindowCovered` is conditional:
  `WholeText => (Spec => []WindowCoversBuffer)`; the program does not have the
  conclusion without the condition, so no run checks it: the segments of tcp_connection
  include short offsets.
* `DataLemmas`: induction, and how many true tokens a channel holds after one is appended or
  taken. The library's induction theorems take an operator, which the provers cannot
  instantiate; its `WFMin` takes a set. `LeastElement` applies it to the naturals, and
  `Induction` and `InductionUpTo` restate induction as a fact about a set of numbers: one
  that has 0 and with each number the next has them all. A recursive function is then shown
  to exist as the function whose first values satisfy its equation, which gives that
  equation for the CHOOSE it stands for.
* `TcpQueueProofs`: on top of `IInv`, `Starving == QueuesOK /\ SendStarves /\ AcceptStarves`.
  `QueueOrdered` is not inductive: `add_data_queue` appends at `snd.next`, so the entries
  before it must lie strictly below. `QueuesOK` adds that a free block of any mode and a
  listener of `rfc793_open` have an empty queue (a block is reused without clearing it
  again), and that a `send` between its two critical sections has data, room for at least one byte
  and a block that is still a connection, so that `snd.next` grows strictly with every entry.
  `SendStarves` follows because the caller holds the device, `AcceptStarves` by
  counting: true tokens in the channel against entries in the backlog. From
  `QueueInvariance` follow `QueuesOrdered`, `SendNeverWoken` and `AcceptNeverReturns`.
* `TcpImplProofs`: every step of `Tcp` maps to a step of `TcpLifecycle` or to a stutter, with a
  lemma for each kind of action: `Process` and its kin to `Arrive`, a listener's SYN to `Spawn`, the
  calls to `Take` and `Reuse`, releases to `Drop`, TERM and panics to `End`. One fact
  beyond `IInv` is needed, `ConnectMode`: the block of a sleeping `connect` is a socket's, and a
  token means that it has been freed. Without it the step that wakes `connect`, which writes
  CLOSED into the block, would have no counterpart in the diagram (`Reuse`).
* `UdpProofs`: `IInv == TypeOK /\ FreeUnset /\ EndpointsDisjoint /\ TokenHasDatagram`. `FreeUnset` (a block that
  is not open has no endpoint) is needed since `bind` compares with open blocks only.
  From it `TypeCorrect`, `EndpointsStayDisjoint` and `TokensHaveDatagrams`. For the
  commands, `AppIInv` adds their types and that the application thread waits exactly when
  `receive_from` does, on its own block; from it `AppTypeCorrect` and
  `CommandsKeepUdpSafe`: the same two invariants through open-and-bind under one lock,
  TERM and shutdown.
* `ThreadsProofs`: `IInv == LockOK /\ PcOK /\ CountOK /\ ChanOK /\ FlagsOK`. `LockOK` says that a
  thread has a first part of the mutexes of its section and that no mutex has two
  holders; `PcOK`, that each thread is at a place of its own program; `ChanOK` bounds the
  tokens by the three who may send after the bound on packets is reached.
  `DeadlocksNeedReversal` then follows from the orders of the sections, by
  contradiction. Who waits for protocols or contexts holds the devices, as does whoever
  has these two, so nobody in a cycle waits for them. Who waits for the control blocks waits for
  a thread that wants the devices, which is the reversal. So all want the devices,
  and the one that has them wants something else.

  `HangsKnown` needs `EndOK` besides (`EndInvariance`): it follows what `close_sockets` leaves
  behind. Before it runs the application has its message, so a check after it ends
  the thread; after it no packet is handled, so the block is free until the application
  opens it anew, and neither `receive` nor `send` can go to sleep on a connection; a call
  that it found asleep has a token, and the application does not begin another one, unless
  it was between its check and a call (`missed`). Then let all threads have stopped. If one
  waits for a mutex, its holder waits for a mutex too, or is `send` asleep with devices and
  contexts. Either those that wait are deadlocked, which is the reversal, or a thread
  wants one of the two from `send`; it would have devices if it wanted contexts, so it wants
  devices. If nobody waits for a mutex, only `join` is left for the main thread, the
  retransmission thread is gone, and the application loops on a free block or
  sleeps without a token, which `EndOK` allows for a missed call only.
* `NetProofs`, the checksum: the loop that folds the carries takes a multiple of 65535 off the
  sum and never gives 0 for a positive one, so `Carried[n]` is `((n - 1) % 65535) + 1`
  (`CarriedIs`, by induction on the sum). `cksum16` is 0 exactly when the sum of the
  words is a positive multiple of 65535 (`ChecksumVerifies`). A word that is stamped into two
  bytes that were zero adds itself to the sum (`WordAdded`, by induction over the words), and
  the complement of the folded sum brings it to a multiple of 65535. Applied to the header
  (bytes 11 and 12) and to the echo reply (3 and 4): `HeaderVerifies`, `EchoVerifies`. With the
  other tests of `ip::input`: `OwnHeaderAccepted`.
* `NetProofs`, the invariant: `IInv == ShapeOK /\ ContextsOK /\ Heard /\ WireOK /\ NoPacketStranded /\ ReadFindsFrame`.
  `ToAnnounced` speaks of the last step's frames only, so what comes before them must be
  remembered: `ContextsOK` says that each entry of the ARP table was announced, and
  `Heard` the same of each ARP message for us that waits in the device or in the queue, since it will
  get into the table later. `WireOK` relates the frames sent to the table of the same
  state, as a failing step may have sent and changed it, and has the checksums of what was
  sent. One lemma about
  `ip::output` covers its three ends (it fails, asks by ARP, reaches the next hop) and is
  used for the reply to an echo request, for both replies of the transport, and for packets
  of other threads; it needs that the lookup finds a route for every address (`RouteFound`).
* `NetProofs`, the refinement of `Inbox`: the abstract queue of a protocol is its queue followed
  by what of the frames in the device it will accept. `Accepted` is a recursive
  function; `AcceptedMore` says what a frame more at the end adds to it, `AcceptedLess` what the first
  frame takes from it (by induction over the frames). So a frame that arrives is an
  abstract arrival or a stutter, an interrupt moves a packet inside the abstract queue, which
  does not change, and handling a packet takes the first one.

The assumptions on constants are named beside their declaration: `TableAssumption`,
`SeqAssumption`, `BufAssumption`, `PortAssumption`, `AddressAssumption`, `TrafficAssumption`,
`UdpAssumption`, `CommandAssumption`, `ChanAssumption`, `SignalAssumption`, `IdAssumption`,
`HardwareAssumption`, `FrameAssumption`, `PacketAssumption`, `SendingAssumption` and
`BoundAssumption`. They type the constants, bound numbers to their integer types and say
which addresses differ; TLC evaluates them on each run. None restricts what a peer may
send: `FrameAssumption` only says that the hardware addresses in well-formed ARP messages
are among those the model knows, `PacketAssumption` that a packet's header has fields of
the widths of `IPHeader` and that its data are bytes, `TrafficAssumption` that segments
have the fields of `Segment`. The one theorem with a condition on the peer, `WindowCovered`,
names it in its statement. `SendingAssumption` says that TCP and UDP are what the other threads send, and
`BoundAssumption` that a frame's payload has a 16 bit length (1500 in the code).

Only model-checked:

* `SleeperEnds` and `AnnouncementTaken`: liveness under fairness is beyond the prover.

The violations are counterexamples and need no proof.

## 5. Not modelled

Not modelled: opening the TAP device (system calls); the loopback device, on which
nothing transmits; the linked list of `utils/` (a sequence); the conversion of addresses
to and from strings; padding of the frames that go out; the bytes of TCP and UDP headers
(their checksum is the flag `sum` of a packet, and `cksum16` is checked on IP and ICMP);
two stacks that talk over a lossy link (retransmission does not work, run
tcp_retransmit, so there is no end-to-end promise to check).

Every safety invariant, every action property and both refinements of the passing runs are
proved; what stays with TLC is listed at the end of section 4.
