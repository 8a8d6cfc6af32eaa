----------------------------- MODULE MCUdpApp -----------------------------
(* Constants of the runs of module UdpApp. *)
EXTENDS UdpApp

CONSTANTS Peer, MaxQueue

At(a, k) == [addr |-> a, port |-> k]
MCAddrs == {Me, Peer}
MCPorts == {7, 8, 9}
MCLocals == {At(AnyAddr, 7)}
MCWell == At(AnyAddr, 7)
MCTarget == At(Peer, 9)
MCRemotes == {MCTarget}
MCDatagrams ==
  {[src |-> At(Peer, 9), dst |-> At(Me, k), valid |-> TRUE] : k \in {0, 7}}

(* Datagrams stop when the queue is full, so that the runs with fairness    *)
(* need no state constraint.                                                *)
BoundedNext ==
  /\ AppNext
  /\ \A p \in Pcbs : Len(pcbs'[p].queue) <= MaxQueue
  /\ Len(chan') <= MaxQueue + 1

BoundedSpec ==
  AppInit /\ [][BoundedNext]_appVars /\ WF_appVars(App) /\ WF_appVars(Main)
=============================================================================
