------------------------------- MODULE MCTcp -------------------------------
(* Constants of the runs of module Tcp. *)
EXTENDS TcpImpl

CONSTANTS Peer, Other, byte

MCAddrs == {Me, Peer, Other}
MCBytes == {byte}

At(a, k) == [addr |-> a, port |-> k]

(* Port 7 is the application's, 8 and 9 are the peers', 5 and 6 dynamic. *)
MCPorts == 5..9
MCSwap == [k \in MCPorts \union {0} |->
             CASE k = 7 -> 8 [] k = 8 -> 7 [] OTHER -> k]

Seg(src, flags, seq, ack, window, data, len) ==
  [src |-> src, dst |-> At(Me, 7), flags |-> flags, seq |-> seq, ack |-> ack,
   window |-> window, data |-> data, len |-> len]

(* What one peer may send to a connection with initial sequence number 1    *)
(* here and 2 there: old, expected, early and out of range numbers, windows *)
(* that open and close, data with and without options, a data offset below  *)
(* five.                                                                    *)
ConnectionSegments ==
  {Seg(At(Peer, 9), f, s, 2, 2, <<>>, 0) :
     f \in {{"SYN"}, {"SYN", "ACK"}, {"RST"}, {"RST", "ACK"}}, s \in {2, 3, 6}}
  \union
  {Seg(At(Peer, 9), f, s, a, 2, d, Len(d)) :
     f \in {{"ACK"}, {"ACK", "FIN"}}, s \in {3, 4}, a \in {1, 2},
     d \in {<<>>, <<byte, byte>>}}
  \union {Seg(At(Peer, 9), {"ACK"}, 3, 4, w, d, 1) :
            w \in {0, 2}, d \in {<<>>, <<byte>>, <<byte, byte>>}}
  \union {Seg(At(Peer, 9), {"ACK"}, s, 2, 2, <<byte, byte>>, 2) : s \in {2, 6}}
  \union {Seg(At(Peer, 9), f, 3, 6, 2, <<>>, 0) : f \in {{}, {"ACK"}, {"ACK", "FIN"}}}

(* The ones among them without options and with the right data offset. *)
PlainSegments == {seg \in ConnectionSegments : seg.len = Len(seg.data)}

(* Two peers that connect, acknowledge and reset. *)
SocketSegments ==
  {Seg(src, f, 2, 2, 2, <<>>, 0) :
     src \in {At(Peer, 9), At(Other, 9)}, f \in {{"SYN"}}}
  \union {Seg(At(Peer, 9), {"SYN", "ACK"}, 2, 2, 2, <<>>, 0)}
  \union {Seg(src, f, 3, 2, 2, <<>>, 0) :
            src \in {At(Peer, 9), At(Other, 9)},
            f \in {{"ACK"}, {"RST", "ACK"}}}

(* A handshake, data in order and a reset. *)
OrderlySegments ==
  {Seg(At(Peer, 9), {"SYN", "ACK"}, 2, 2, 2, <<>>, 0),
   Seg(At(Peer, 9), {"ACK"}, 3, 2, 2, <<byte>>, 1),
   Seg(At(Peer, 9), {"RST"}, 4, 2, 2, <<>>, 0)}

NoPayloads == {}
OnePayload == {<<byte, byte>>}
MeAt7 == {At(Me, 7)}
AnyAt7 == {At(AnyAddr, 7)}
PeerAt9 == {At(Peer, 9)}

(* What a run sees of a state: the segments sent by the step into it do not
   influence what follows. *)
Internal == <<pcbs, call, chan, handles, phase>>

(* Bounds of the exploration. *)
CONSTANTS MaxChan, MaxBuf, MaxQueue, MaxBacklog
Bounded ==
  /\ Len(chan) <= MaxChan
  /\ \A p \in Pcbs : /\ Len(pcbs[p].buf) <= MaxBuf
                     /\ Len(pcbs[p].queue) <= MaxQueue
                     /\ Len(pcbs[p].backlog) <= MaxBacklog
=============================================================================
