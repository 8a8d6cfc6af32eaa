-------------------------------- MODULE Net --------------------------------
(***************************************************************************)
(* From the TAP device to the IP protocols and back: the signals of main.rs, *)
(* the interrupt handler of devices/, the protocol queues of protocols/,    *)
(* ARP, the input and output of IP, and ICMP.                               *)
(*                                                                          *)
(* The main thread reads one frame per Ethernet signal into the queue of    *)
(* its protocol and raises SIGUSR1; that signal drains all queues.  What    *)
(* TCP and UDP do with a packet is in modules Tcp and Udp; here they take   *)
(* it, answer it, or panic.  Another thread that sends holds the devices    *)
(* mutex meanwhile, so its steps do not come into a draining; it may keep   *)
(* the mutexes that the main thread's handlers wait for.                    *)
(***************************************************************************)
EXTENDS Ip, FiniteSets

CONSTANTS
  MyHw, Hws,              \* the device's hardware address, and others
  HwBroadcast, HwZero,    \* ff:ff:ff:ff:ff:ff and 00:00:00:00:00:00
  Frames,                 \* the frames that may arrive
  Sendings,               \* the packets the other threads send
  Slots,                  \* signals of one kind that wait to be taken
  FirstId, IdMax,         \* 128 and u16::MAX
  MaxPayload,             \* ETH_PAYLOAD_MAX
  MaxFrames               \* bound on the frames that arrive

ASSUME SignalAssumption == Slots \in Nat \ {0}
ASSUME IdAssumption == FirstId \in Nat /\ IdMax \in FirstId..65535
ASSUME HardwareAssumption ==
  Cardinality({MyHw, HwBroadcast, HwZero}) = 3
  /\ {MyHw, HwBroadcast, HwZero} \intersect Hws = {}
ASSUME FrameAssumption ==
  \A frame \in Frames :
    frame.type = "Arp" /\ frame.data.valid =>
      frame.data.senderHw \in Hws \union {MyHw, HwBroadcast, HwZero}
ASSUME PacketAssumption ==
  \A frame \in Frames :
    frame.type = "IP" /\ ~frame.data.short =>
      /\ frame.data.hdr \in Header
      /\ frame.data.data \in Seq(Byte) /\ frame.data.pad \in Nat
ASSUME SendingAssumption ==
  \A s \in Sendings :
    s.protocol \in {TcpProto, UdpProto} /\ s.len \in Nat /\ s.dst \in Address
ASSUME BoundAssumption == MaxFrames \in Nat /\ MaxPayload \in Nat /\ MaxPayload < 65536

VARIABLES
  tap,       \* frames that can be read from the device
  pending,   \* signals the main thread has not taken yet, per kind
  queues,    \* NetProtocol.input_head, per protocol
  contexts,  \* ARP table and last IP identification
  wire,      \* the frames the last step sent
  main,      \* the main thread: idle, or draining the queues
  kept,      \* whether another thread keeps a mutex the handlers wait for
  phase,     \* running, poisoned (another thread panicked), ended or panic
  arrived,   \* number of frames that have arrived
  said       \* the pairs of addresses that arrived in ARP messages for us

vars ==
  <<tap, pending, queues, contexts, wire, main, kept, phase, arrived, said>>

Protocols == {"Arp", "IP"}
Ages == {"fresh", "expired", "future"}
ArpEntry == [hw : Hws \union {MyHw, HwBroadcast, HwZero}, age : Ages]

Init ==
  /\ tap = <<>>
  /\ pending = [ETHERNET |-> 0, USR1 |-> 0]
  /\ queues = [protocol \in Protocols |-> <<>>]
  /\ contexts = [arp |-> <<>>, id |-> FirstId]
  /\ wire = {}
  /\ main = "idle" /\ kept = FALSE /\ phase = "running"
  /\ arrived = 0 /\ said = {}

(* One more signal of a kind; there is room for Slots of them. *)
Raised(signals, kind) == [signals EXCEPT ![kind] = Min({@ + 1, Slots})]

-----------------------------------------------------------------------------
(* ARP *)

(* Mutant: entries do not time out. *)
ForEver(table, ip) ==
  IF ip \in DOMAIN table THEN {table[ip].hw} ELSE {}

(* The hardware address, if there is a usable entry. *)
ArpGet(table, ip) ==
  IF ip \in DOMAIN table /\ table[ip].age = "fresh" THEN {table[ip].hw} ELSE {}

Without(table, ip) == [k \in DOMAIN table \ {ip} |-> table[k]]

(* Mutant: only an entry that is there is updated. *)
ArpUpdateKnown(table, ip, hw) ==
  [k \in DOMAIN table |->
     IF k = ip THEN [hw |-> hw, age |-> "fresh"] ELSE table[k]]

ArpUpdate(table, ip, hw) ==
  [k \in DOMAIN table \union {ip} |->
     IF k = ip THEN [hw |-> hw, age |-> "fresh"] ELSE table[k]]

ArpFrame(dst, op, iface, targetHw, targetIp) ==
  [dst |-> dst, type |-> "Arp", src |-> MyHw,
   data |-> [valid |-> TRUE, op |-> op, senderHw |-> MyHw,
             senderIp |-> iface.unicast, targetHw |-> targetHw,
             targetIp |-> targetIp]]
ArpRequest(iface, ip) == ArpFrame(HwBroadcast, "request", iface, HwZero, ip)
ArpReply(iface, hw, ip) == ArpFrame(hw, "reply", iface, hw, ip)

-----------------------------------------------------------------------------
(* A computation on the contexts: their new value, the frames it has sent   *)
(* and whether it came to its end.                                          *)

Begin == [ctx |-> contexts, out |-> {}, ok |-> TRUE]
Failed(r) == [r EXCEPT !.ok = FALSE]
Transmit(r, frame) == [r EXCEPT !.out = @ \union {frame}]

ArpInput(msg) ==
  LET r == [Begin EXCEPT
              !.ctx.arp = ArpUpdate(@, msg.senderIp, msg.senderHw)]
  IN  IF ~msg.valid THEN Failed(Begin)
      ELSE IF msg.targetIp # Ethernet.unicast THEN Begin
      ELSE IF msg.op = "request"
           THEN Transmit(r, ArpReply(Ethernet, msg.senderHw, msg.senderIp))
      ELSE r

(* Mutant: the packet is sent although its next hop is not resolved. *)
ResolvedOrZero(r, hop) ==
  IF ArpGet(r.ctx.arp, hop) = {} THEN {HwZero} ELSE ArpGet(r.ctx.arp, hop)

Resolved(r, hop) == ArpGet(r.ctx.arp, hop)

(* ip::output of len bytes.  Its errors are unwrapped by every caller.  The *)
(* broadcast branch cuts seven bytes for an address of six; an ARP entry    *)
(* stamped in the future has no age; the total length of the header is the  *)
(* u16 sum of 20 and the length as a u16; a packet that does not fit into   *)
(* the frame buffer panics only once it is put there.  A packet whose next  *)
(* hop is not resolved is dropped, with an ARP request in its place.        *)
Output(r, protocol, data, len, src, dst) ==
  LET iface == LookupIpRoute(dst).interface
      hop == NextHop(dst)
      table == r.ctx.arp
      next == [r EXCEPT !.ctx.id = @ + 1]
      header == CreateIpHeader(protocol, iface.unicast, dst, len, next.ctx.id)
      panics == \/ src \notin {ANY, iface.unicast}
                \/ r.ctx.id = IdMax
                \/ HeaderSize + (len % 65536) > 65535
                \/ dst \in {iface.broadcast, BROADCAST}
                \/ hop \in DOMAIN table /\ table[hop].age = "future"
                \/ Resolved(r, hop) # {} /\ HeaderSize + len > MaxPayload
  IN  IF ~r.ok \/ panics THEN Failed(r)
      ELSE IF Resolved(r, hop) = {}
      THEN Transmit([next EXCEPT !.ctx.arp = Without(@, hop)],
                    ArpRequest(iface, hop))
      ELSE Transmit(next, [dst |-> CHOOSE hw \in Resolved(r, hop) : TRUE,
                           type |-> "IP", src |-> MyHw, hdr |-> header,
                           data |-> data])

-----------------------------------------------------------------------------
(* IP input.  A packet is its header, what follows it, and the zeros that   *)
(* fill the frame up; sum says whether the TCP or UDP checksum is right     *)
(* over what TCP or UDP is given, the padding left out.                     *)

(* What lies behind the length that the header announces: a header that     *)
(* announces less than its 20 bytes gives its own end away.                 *)
Given(packet) ==
  LET bytes == (HeaderBytes(packet.hdr) \o packet.data)
               \o [i \in 1..packet.pad |-> 0]
  IN  SubSeq(bytes, HeaderLen(packet.hdr) + 1, Len(bytes))

IcmpInput(packet) ==
  LET msg == Given(packet)
  IN  IF cksum16(msg) # 0 THEN Failed(Begin)
      ELSE IF msg[1] # EchoType THEN Begin
      ELSE IF Len(msg) < 8 THEN Failed(Begin)
      ELSE Output(Begin, IcmpProto, EchoReply(msg), Len(msg),
                  packet.hdr.dst, packet.hdr.src)

(* TCP answers a segment with at most two; it and UDP may panic for reasons *)
(* of their own.  They are given the length of the frame, not total_len: a  *)
(* padded packet fails the length or the checksum test.                     *)
UpperInput(packet) ==
  LET Reply(r) == Output(r, TcpProto, <<>>, 20, packet.hdr.dst, packet.hdr.src)
      once == {Reply(Begin)}
      twice == {Reply(r) : r \in once}
  IN  IF ~packet.sum \/ packet.pad > 0 THEN {Failed(Begin)}
      ELSE IF packet.hdr.protocol = UdpProto THEN {Begin, Failed(Begin)}
      ELSE {Begin, Failed(Begin)} \union once \union twice

IpInput(packet) ==
  LET len == HeaderSize + Len(packet.data) + packet.pad
  IN  CASE packet.short -> {Failed(Begin)}
        [] ~packet.short /\ (\/ ~CheckIpHeader(packet.hdr, len)
                             \/ packet.hdr.dst # Ethernet.unicast) -> {Failed(Begin)}
        [] OTHER ->
             CASE packet.hdr.protocol = IcmpProto -> {IcmpInput(packet)}
               [] packet.hdr.protocol \in {TcpProto, UdpProto} -> UpperInput(packet)
               [] OTHER -> {Begin}

-----------------------------------------------------------------------------
(* Steps *)

ForUs(frame) == frame.dst \in {MyHw, HwBroadcast}

Announces(frame) ==
  /\ frame.type = "Arp" /\ ForUs(frame)
  /\ frame.data.valid /\ frame.data.targetIp = Ethernet.unicast

(* External: the kernel queues a frame and sends a signal for it. *)
FrameArrives(frame) ==
  /\ phase = "running" /\ arrived < MaxFrames
  /\ tap' = Append(tap, frame)
  /\ pending' = Raised(pending, "ETHERNET")
  /\ said' = IF Announces(frame)
             THEN said \union {<<frame.data.senderIp, frame.data.senderHw>>}
             ELSE said
  /\ arrived' = arrived + 1
  /\ wire' = {}
  /\ UNCHANGED <<queues, contexts, main, kept, phase>>

Took(signals, kind) == [signals EXCEPT ![kind] = @ - 1]

(* Mutant: everything there is is read for one signal. *)
AfterReadingAll == <<>>

AfterReading == Tail(tap)

(* Mutant: the newest packet comes first. *)
PushFront(queue, data) == <<data>> \o queue

PushBack(queue, data) == Append(queue, data)

(* Mutant: what is not ARP is IP. *)
QueueOfTheRest(protocol, frame) ==
  protocol = IF frame.type = "Arp" THEN "Arp" ELSE "IP"

QueueOf(protocol, frame) == protocol = frame.type

(* ethernet::read_data: a frame for another station is read and dropped. *)
ReadData(frame) ==
  CASE frame.type = "runt" -> "panic"
    [] frame.type # "runt" /\ ~ForUs(frame) -> "none"
    [] OTHER -> "data"

(* The interrupt handler.  read() would block, with the mutexes held, if    *)
(* there were no frame.  Data of an unknown type has no queue but raises    *)
(* the signal.                                                              *)
HandleIrq ==
  LET frame == Head(tap)
      isData == ReadData(frame) = "data"
      rest == Took(pending, "ETHERNET")
  IN  /\ phase = "running" /\ main = "idle" /\ ~kept
      /\ pending.ETHERNET > 0 /\ tap # <<>>
      /\ tap' = AfterReading
      /\ queues' = [protocol \in Protocols |->
                      IF isData /\ QueueOf(protocol, frame)
                      THEN PushBack(queues[protocol], frame.data)
                      ELSE queues[protocol]]
      /\ pending' = IF isData THEN Raised(rest, "USR1") ELSE rest
      /\ phase' = IF ReadData(frame) = "panic" THEN "panic" ELSE phase
      /\ wire' = {}
      /\ UNCHANGED <<contexts, main, kept, arrived, said>>

HandleProtocol ==
  /\ phase = "running" /\ main = "idle" /\ ~kept /\ pending.USR1 > 0
  /\ pending' = Took(pending, "USR1")
  /\ main' = "draining"
  /\ wire' = {}
  /\ UNCHANGED <<tap, queues, contexts, kept, phase, arrived, said>>

(* The effect of a computation; where a failure leads depends on who made   *)
(* it: a panic of the main thread ends the process.                         *)
Apply(r, failure) ==
  /\ contexts' = r.ctx
  /\ wire' = r.out
  /\ phase' = IF r.ok THEN phase ELSE failure

(* The first protocol that has data: ARP was registered before IP. *)
Turn(protocol) ==
  /\ queues[protocol] # <<>>
  /\ protocol = "IP" => queues["Arp"] = <<>>

Input(protocol, data) ==
  IF protocol = "Arp" THEN {ArpInput(data)} ELSE IpInput(data)

HandleInput(protocol) ==
  /\ phase = "running" /\ main = "draining" /\ Turn(protocol)
  /\ queues' = [queues EXCEPT ![protocol] = Tail(@)]
  /\ UNCHANGED <<tap, pending, main, kept, arrived, said>>
  /\ \E r \in Input(protocol, Head(queues[protocol])) : Apply(r, "panic")

(* Mutant: the queue of ARP only. *)
ArpDrained == queues["Arp"] = <<>>

AllDrained == \A protocol \in Protocols : queues[protocol] = <<>>

Drained ==
  /\ phase = "running" /\ main = "draining"
  /\ AllDrained
  /\ main' = "idle"
  /\ wire' = {}
  /\ UNCHANGED <<tap, pending, queues, contexts, kept, phase, arrived, said>>

(* Another thread sends a packet; if it panics, the mutexes it holds are    *)
(* poisoned.                                                                *)
Sends(s) ==
  /\ phase = "running" /\ main # "draining" /\ ~kept
  /\ LET iface == LookupIpRoute(s.dst).interface
         src == IF s.protocol = UdpProto THEN iface.unicast ELSE Ethernet.unicast
     IN  Apply(Output(Begin, s.protocol, <<>>, s.len, src, s.dst), "poisoned")
  /\ UNCHANGED <<tap, pending, queues, main, kept, arrived, said>>

(* Another thread gets to where it has mutexes that the handlers wait for   *)
(* and does not give them back: send() sleeps with the devices, or the      *)
(* retransmission has the blocks and waits for the devices while            *)
(* handle_protocol() has the devices and waits for the blocks.  The main    *)
(* thread then waits at the start of its handler, as if it were idle.       *)
MutexKept ==
  /\ phase = "running" /\ main = "idle" /\ ~kept
  /\ kept' = TRUE
  /\ wire' = {}
  /\ UNCHANGED <<tap, pending, queues, contexts, main, phase, arrived, said>>

(* The end of that, which for a wait in send() depends on the peer and for  *)
(* the two that wait for each other never comes.                            *)
MutexGivenBack ==
  /\ phase = "running" /\ kept
  /\ kept' = FALSE
  /\ wire' = {}
  /\ UNCHANGED <<tap, pending, queues, contexts, main, phase, arrived, said>>

(* The next signal then unwraps the error of a poisoned mutex. *)
PoisonFound ==
  /\ phase = "poisoned"
  /\ pending.ETHERNET + pending.USR1 > 0
  /\ phase' = "panic"
  /\ wire' = {}
  /\ UNCHANGED <<tap, pending, queues, contexts, main, kept, arrived, said>>

Term ==
  /\ phase = "running" /\ main = "idle"
  /\ phase' = "ended"
  /\ wire' = {}
  /\ UNCHANGED <<tap, pending, queues, contexts, main, kept, arrived, said>>

(* Four hours pass, or the clock is set back, behind the time stamps or to  *)
(* where they were young.                                                   *)
Clock(age) ==
  /\ phase = "running"
  /\ LET Stamped(entry) == [entry EXCEPT !.age = age]
         table == contexts.arp
     IN  contexts' = [contexts EXCEPT
                        !.arp = [ip \in DOMAIN table |-> Stamped(table[ip])]]
  /\ wire' = {}
  /\ UNCHANGED <<tap, pending, queues, main, kept, phase, arrived, said>>

Main ==
  \/ HandleIrq
  \/ HandleProtocol
  \/ \E protocol \in Protocols : HandleInput(protocol)
  \/ Drained
  \/ PoisonFound

Next ==
  \/ Main
  \/ \E frame \in Frames : FrameArrives(frame)
  \/ \E s \in Sendings : Sends(s)
  \/ \E age \in Ages : Clock(age)
  \/ MutexKept
  \/ MutexGivenBack
  \/ Term

(* The operating system runs the main thread when it has a signal to take   *)
(* and the mutexes for it, or a queue to drain.  Nothing makes a thread     *)
(* that keeps a mutex give it back.                                         *)
Spec == Init /\ [][Next]_vars /\ WF_vars(Main)

Over == phase # "running"

-----------------------------------------------------------------------------
(* Invariants *)

Data(protocol) == {f.data : f \in {g \in Frames : g.type = protocol}}

NetTypeOK ==
  /\ tap \in Seq(Frames)
  /\ pending \in [{"ETHERNET", "USR1"} -> 0..Slots]
  /\ \A protocol \in Protocols : queues[protocol] \in Seq(Data(protocol))
  /\ \A ip \in DOMAIN contexts.arp : contexts.arp[ip] \in ArpEntry
  /\ contexts.id \in FirstId..IdMax
  /\ main \in {"idle", "draining"}
  /\ kept \in BOOLEAN
  /\ phase \in {"running", "poisoned", "ended", "panic"}
  /\ arrived \in 0..MaxFrames

(* No packet is left in a queue: although signals of a kind are counted     *)
(* only up to Slots and one SIGUSR1 drains both queues, a packet in a queue *)
(* has a SIGUSR1 to come, or the main thread is at it.                      *)
NoPacketStranded ==
  phase = "running" /\ (\E protocol \in Protocols : queues[protocol] # <<>>) =>
    pending.USR1 > 0 \/ main = "draining"

(* handle_irq never blocks in read() with the devices and protocols mutexes *)
(* held: there are at least as many frames as signals for them.  Frames     *)
(* whose signal was lost stay behind; every interrupt reads one.            *)
ReadFindsFrame == phase = "running" => pending.ETHERNET <= Len(tap)

(* An IP packet goes out only to a hardware address that a station has      *)
(* announced to us for the packet's next hop, and while the ARP entry is    *)
(* fresh: never to the zero address that output() starts with, never to an  *)
(* address that has timed out.                                              *)
ToAnnounced ==
  \A frame \in wire :
    frame.type = "IP" =>
      LET hop == NextHop(frame.hdr.dst)
      IN  /\ <<hop, frame.dst>> \in said
          /\ contexts.arp[hop] = [hw |-> frame.dst, age |-> "fresh"]

(* RFC 1071: the 16 bit words sum up to a multiple of 65535 that is not 0. *)
Verifies(data) ==
  LET sum == SumOf[data]
  IN  sum > 0 /\ sum % 65535 = 0

(* Every header and every echo reply that goes out carries the checksum     *)
(* that its receiver will compute: with carries, with data of odd length,   *)
(* with the padding of the request.                                         *)
SentVerifies ==
  \A frame \in wire :
    frame.type = "IP" =>
      /\ Verifies(HeaderBytes(frame.hdr))
      /\ frame.hdr.protocol = IcmpProto => Verifies(frame.data)

-----------------------------------------------------------------------------
(* Temporal properties *)

Signalled(frame) == \E i \in 1..pending.ETHERNET : tap[i] = frame

(* If the other threads stop keeping the mutexes of handle_irq() and        *)
(* handle_protocol() at some time, an ARP message that has been signalled   *)
(* gets into the table, whatever is in front of it, unless the process ends *)
(* first: two signals and two queues later, and although it may have waited *)
(* for a mutex on its way.                                                  *)
AnnouncementTaken ==
  <>[]~kept =>
    \A frame \in {f \in Frames : Announces(f)} :
      Signalled(frame) ~>
        Over \/ frame.data.senderIp \in DOMAIN contexts.arp

(* The packets of each protocol are handled in the order in which their     *)
(* frames arrived, each of them once: what lies between the device and the  *)
(* protocols is one queue for each.                                         *)
Accepted(frames, protocol) ==
  LET taken[i \in 0..Len(frames)] ==
        IF i = 0 THEN <<>>
        ELSE IF frames[i].type = protocol /\ ForUs(frames[i])
        THEN Append(taken[i - 1], frames[i].data)
        ELSE taken[i - 1]
  IN  taken[Len(frames)]

Mailbox == INSTANCE Inbox WITH
  Kinds <- Protocols,
  Packets <- [protocol \in Protocols |-> Data(protocol)],
  inbox <- [protocol \in Protocols |->
              queues[protocol] \o Accepted(tap, protocol)]

FollowsInbox == Mailbox!Spec

-----------------------------------------------------------------------------
(* What a comment says and the code does not do *)

(* "change original destination when addressed to broadcast address" (icmp  *)
(* input): an echo request for the network's broadcast address is answered, *)
(* or at least does not end the process.                                    *)
BroadcastEcho(packet) ==
  /\ ~packet.short /\ packet.hdr.dst = Ethernet.broadcast
  /\ packet.hdr.protocol = IcmpProto /\ packet.data[1] = EchoType

BroadcastEchoSurvives ==
  [][HandleInput("IP") /\ BroadcastEcho(Head(queues["IP"])) =>
       phase' = "running"]_vars
=============================================================================
