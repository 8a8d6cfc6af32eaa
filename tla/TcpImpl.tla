------------------------------ MODULE TcpImpl ------------------------------
(* Module Tcp implements module TcpLifecycle. *)
EXTENDS Tcp

Lifecycle == INSTANCE TcpLifecycle WITH
  Blocks <- Pcbs,
  st <- [p \in Pcbs |-> pcbs[p].state],
  sock <- [p \in Pcbs |-> pcbs[p].mode = "Socket"],
  up <- phase = "running"

(* Whatever segments arrive, whatever the application calls and whenever    *)
(* the retransmission thread runs, a control block goes through its states  *)
(* along the diagram of TcpLifecycle: a connection is established only out  *)
(* of a handshake, by a segment and before the TERM signal; only a socket   *)
(* listener that stays has others spawned; a block in use is taken over     *)
(* only by a socket call on its own handle.                                 *)
FollowsLifecycle == Lifecycle!Spec
=============================================================================
