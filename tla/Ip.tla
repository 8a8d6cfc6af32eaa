-------------------------------- MODULE Ip --------------------------------
(***************************************************************************)
(* The pure part of the network layer: the checksum and byte order of       *)
(* utils/, the addresses and routes that app.rs sets up, the IPv4 header    *)
(* of protocols/ip/mod.rs and the echo reply of protocols/ip/icmp.rs.       *)
(*                                                                          *)
(* The host is little endian.  An address is the sequence of its four       *)
(* octets, which is how the u32 of the code lies in memory; the other       *)
(* fields of a header hold the number that the struct's field holds, so a   *)
(* 16 bit field holds its value with the bytes swapped.                     *)
(***************************************************************************)
EXTENDS Integers, Sequences, FiniteSetsExt

-----------------------------------------------------------------------------
(* Bytes *)

Byte == 0..255
Word == 0..65535

le_to_be_u16(v) == (v % 256) * 256 + v \div 256
be_to_le_u16(v) == le_to_be_u16(v)

(* A u16 in memory. *)
Mem(v) == <<v % 256, v \div 256>>

(* The 16 bit blocks of cksum16; an odd last byte is the high one. *)
Blocks(data) ==
  [i \in 1..((Len(data) + 1) \div 2) |->
     data[2 * i - 1] * 256 + (IF 2 * i <= Len(data) THEN data[2 * i] ELSE 0)]

Carried[sum \in Nat] ==
  IF sum < 65536 THEN sum ELSE Carried[(sum % 65536) + sum \div 65536]

(* The loop of cksum16: sum[i] is its sum after i blocks. *)
SumOf[data \in Seq(Nat)] ==
  LET blocks == Blocks(data)
      sum[i \in 0..Len(blocks)] == IF i = 0 THEN 0 ELSE sum[i - 1] + blocks[i]
  IN  sum[Len(blocks)]

(* Mutant: the carry is lost. *)
CksumNoCarry(data) == 65535 - (SumOf[data] % 65536)

cksum16(data) == 65535 - Carried[SumOf[data]]

-----------------------------------------------------------------------------
(* Addresses and routes *)

Address == [1..4 -> Byte]
ANY == <<0, 0, 0, 0>>
BROADCAST == <<255, 255, 255, 255>>

(* The program's netmasks consist of octets 0 and 255. *)
And(addr, mask) == [i \in 1..4 |-> IF mask[i] = 255 THEN addr[i] ELSE 0]

IPInterface(unicast, netmask) ==
  [unicast |-> unicast, netmask |-> netmask,
   broadcast |-> [i \in 1..4 |-> IF netmask[i] = 255 THEN unicast[i] ELSE 255]]

Loopback == IPInterface(<<127, 0, 0, 1>>, <<255, 255, 255, 0>>)
Ethernet == IPInterface(<<192, 0, 2, 2>>, <<255, 255, 255, 0>>)
Gateway == <<192, 0, 2, 1>>

InterfaceRoute(iface) ==
  [network |-> And(iface.unicast, iface.netmask), netmask |-> iface.netmask,
   next_hop |-> ANY, interface |-> iface]
GatewayRoute(gateway, iface) ==
  [network |-> ANY, netmask |-> ANY, next_hop |-> gateway, interface |-> iface]

(* No route for the Ethernet's own network is registered. *)
Routes == <<InterfaceRoute(Loopback), GatewayRoute(Gateway, Ethernet)>>

Shorter(mask, other) ==
  \E i \in 1..4 : mask[i] < other[i] /\ \A j \in 1..(i - 1) : mask[j] = other[j]

(* Of the routes that match, the first one with the longest mask. *)
LookupIpRoute(dst) ==
  LET matching == {i \in DOMAIN Routes :
                     And(dst, Routes[i].netmask) = Routes[i].network}
  IN  Routes[CHOOSE i \in matching :
               \A j \in matching :
                 IF j < i THEN Shorter(Routes[j].netmask, Routes[i].netmask)
                 ELSE ~Shorter(Routes[i].netmask, Routes[j].netmask)]

NextHop(dst) ==
  LET route == LookupIpRoute(dst)
  IN  IF route.next_hop # ANY THEN route.next_hop ELSE dst

-----------------------------------------------------------------------------
(* The IPv4 header *)

IcmpProto == 1
TcpProto == 6
UdpProto == 17

HeaderSize == 20

Header ==
  [ver_len : Byte, service_type : Byte, total_len : Word, id : Word,
   offset : Word, ttl : Byte, protocol : Byte, check_sum : Word,
   src : Address, dst : Address]

HeaderBytes(h) ==
  <<h.ver_len, h.service_type>> \o Mem(h.total_len) \o Mem(h.id)
  \o Mem(h.offset) \o <<h.ttl, h.protocol>> \o Mem(h.check_sum)
  \o h.src \o h.dst

(* The length that a header announces: header_len of ip::input. *)
HeaderLen(h) == (h.ver_len % 16) * 4

CreateIpHeader(protocol, src, dst, len, id) ==
  LET h == [ver_len |-> 69, service_type |-> 0,
            total_len |-> le_to_be_u16(HeaderSize + len),
            id |-> le_to_be_u16(id), offset |-> 0, ttl |-> 255,
            protocol |-> protocol, check_sum |-> 0, src |-> src, dst |-> dst]
  IN  [h EXCEPT !.check_sum = le_to_be_u16(cksum16(HeaderBytes(h)))]

(* A header that announces options is longer than the struct and the        *)
(* checksum runs over its end: a panic, like every refused header.          *)
CheckIpHeader(h, len) ==
  LET header_len == HeaderLen(h)
  IN  /\ h.ver_len \div 16 = 4
      /\ len >= header_len /\ header_len <= HeaderSize
      /\ len >= be_to_le_u16(h.total_len)
      /\ cksum16(SubSeq(HeaderBytes(h), 1, header_len)) = 0
      /\ be_to_le_u16(h.offset) % 16384 = 0

-----------------------------------------------------------------------------
(* ICMP messages are sequences of bytes: type, code, checksum, four bytes   *)
(* of values, data.                                                         *)

EchoReplyType == 0
EchoType == 8

EchoReply(msg) ==
  LET reply == <<EchoReplyType, msg[2], 0, 0>> \o SubSeq(msg, 5, Len(msg))
      sum == cksum16(reply)
  IN  [reply EXCEPT ![3] = sum \div 256, ![4] = sum % 256]
=============================================================================
