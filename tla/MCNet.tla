------------------------------- MODULE MCNet -------------------------------
(* Constants of the runs of module Net. *)
EXTENDS Net

CONSTANTS GwHw, NewHw

MCHws == {GwHw, NewHw}

Far == <<198, 51, 100, 7>>
Me == Ethernet.unicast

Arp(dst, valid, op, hw, target) ==
  [dst |-> dst, type |-> "Arp",
   data |-> [valid |-> valid, op |-> op, senderHw |-> hw, senderIp |-> Gateway,
             targetHw |-> MyHw, targetIp |-> target]]

Ip(dst, packet) == [dst |-> dst, type |-> "IP", data |-> packet]

Packet(protocol, src, dst, data, pad) ==
  [short |-> FALSE, sum |-> TRUE, data |-> data, pad |-> pad,
   hdr |-> CreateIpHeader(protocol, src, dst, Len(data), 1)]

(* An ICMP message with nine bytes, the last word of the checksum is odd. *)
Message(type) ==
  LET msg == <<type, 0, 0, 0, 250, 251, 252, 253, 254>>
      sum == cksum16(msg)
  IN  [msg EXCEPT ![3] = sum \div 256, ![4] = sum % 256]

Echo(src, dst) == Packet(IcmpProto, src, dst, Message(EchoType), 1)

(* A header that announces three words: its addresses become the message,   *)
(* an echo request, because the source begins with 8.                       *)
ShortHeader ==
  LET src == <<EchoType, 0, 8, 8>>
      data == <<EchoType, 0, 0, 0>>
      h == [CreateIpHeader(IcmpProto, src, Me, Len(data), 1) EXCEPT
              !.ver_len = 67, !.ttl = 63, !.check_sum = 0]
      front == SubSeq(HeaderBytes(h), 1, HeaderLen(h))
      sum == cksum16(src \o Me \o data)
  IN  [short |-> FALSE, sum |-> TRUE, pad |-> 0,
       hdr |-> [h EXCEPT !.check_sum = le_to_be_u16(cksum16(front))],
       data |-> [data EXCEPT ![3] = sum \div 256, ![4] = sum % 256]]
Segment == Packet(TcpProto, Far, Me, [i \in 1..20 |-> 0], 0)

ArpFrames ==
  {Arp(MyHw, TRUE, "reply", GwHw, Me),
   Arp(HwBroadcast, TRUE, "request", NewHw, Me),
   Arp(HwBroadcast, TRUE, "request", GwHw, Far),
   Arp(MyHw, FALSE, "reply", GwHw, Me)}

(* Packets that are taken ... *)
IpFrames ==
  {Ip(MyHw, Echo(Gateway, Me)), Ip(MyHw, ShortHeader), Ip(MyHw, Segment)}

(* ... and packets that are not: from the loopback network, padded TCP,     *)
(* packets and frames for others.                                           *)
BadFrames ==
  {Ip(MyHw, Echo(<<127, 0, 0, 9>>, Me)),
   Ip(MyHw, [Segment EXCEPT !.pad = 6]),
   Ip(HwBroadcast, Packet(UdpProto, Far, Far, [i \in 1..8 |-> 0], 0)),
   Ip(NewHw, Segment),
   [dst |-> MyHw, type |-> "Unknown", data |-> [valid |-> FALSE]],
   [dst |-> MyHw, type |-> "runt", data |-> [valid |-> FALSE]]}

MCFrames == ArpFrames \union IpFrames \union BadFrames

BroadcastFrames == {Ip(HwBroadcast, Echo(Gateway, Ethernet.broadcast)),
                    Ip(MyHw, Echo(Gateway, Me))}

MCSendings ==
  {[protocol |-> TcpProto, len |-> 20, dst |-> Far],
   [protocol |-> TcpProto, len |-> 1481, dst |-> Far],
   [protocol |-> UdpProto, len |-> 65516, dst |-> Far],
   [protocol |-> TcpProto, len |-> 20, dst |-> Loopback.unicast],
   [protocol |-> UdpProto, len |-> 12, dst |-> Loopback.unicast],
   [protocol |-> UdpProto, len |-> 12, dst |-> Ethernet.broadcast]}
NoSendings == {}
=============================================================================
