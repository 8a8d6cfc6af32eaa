------------------------------- MODULE MCUdp -------------------------------
(* Constants of the runs of module Udp. *)
EXTENDS Udp

CONSTANTS Peer, MaxQueue

At(a, k) == [addr |-> a, port |-> k]
MCAddrs == {Me, Peer}
MCPorts == {7, 8, 9}

(* Port 7 and 8 are bound, 8 and 9 are tried by send_to. *)
MCLocals == {At(AnyAddr, 7), At(Me, 7), At(Me, 8), At(Peer, 7)}
MCRemotes == {At(Peer, 9)}
MCDatagrams ==
  {[src |-> At(Peer, 9), dst |-> At(Me, k), valid |-> v] :
     k \in {0, 7, 8}, v \in BOOLEAN}

Bounded ==
  /\ Len(chan) <= MaxQueue
  /\ \A p \in Pcbs : Len(pcbs[p].queue) <= MaxQueue
=============================================================================
