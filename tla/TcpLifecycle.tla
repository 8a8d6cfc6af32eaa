--------------------------- MODULE TcpLifecycle ---------------------------
(***************************************************************************)
(* What the TCP of protocols/ip/tcp.rs promises about the life of a control *)
(* block: the part of the RFC 793 state diagram that the program really     *)
(* walks.  There are no sequence numbers, segments or calls here; module    *)
(* TcpImpl shows that module Tcp implements this one.                       *)
(***************************************************************************)
CONSTANT Blocks

VARIABLES
  st,    \* the state of each block
  sock,  \* whether the block was last used through the socket calls
  up     \* the signal thread still takes segments

vars == <<st, sock, up>>

Stages == {"Free", "Closed", "Listen", "SynSent", "SynReceived",
           "Established", "CloseWait"}

(* The edges that only a segment of the peer can cause.  Nothing here ends  *)
(* in a state that follows a FIN of this side: the program sends none.      *)
Arrivals ==
  {<<"Listen", "SynReceived">>, <<"SynSent", "SynReceived">>,
   <<"SynSent", "Established">>, <<"SynReceived", "Established">>,
   <<"SynReceived", "CloseWait">>, <<"Established", "CloseWait">>}

Init ==
  /\ st = [p \in Blocks |-> "Free"]
  /\ sock = [p \in Blocks |-> FALSE]
  /\ up = TRUE

Move(p, s) == st' = [st EXCEPT ![p] = s]

Arrive(p) ==
  /\ up
  /\ \E s \in Stages : <<st[p], s>> \in Arrivals /\ Move(p, s)
  /\ UNCHANGED <<sock, up>>

(* A listening socket stays as it is and a free block takes the connection. *)
Spawn(p) ==
  /\ up /\ st[p] = "Free"
  /\ \E q \in Blocks \ {p} : st[q] = "Listen" /\ sock[q]
  /\ Move(p, "SynReceived")
  /\ sock' = [sock EXCEPT ![p] = TRUE]
  /\ UNCHANGED up

(* A reset, a timeout, a close or a failed open. *)
Drop ==
  /\ \E S \in SUBSET Blocks :
       st' = [p \in Blocks |-> IF p \in S THEN "Free" ELSE st[p]]
  /\ UNCHANGED <<sock, up>>

(* rfc793_open and open take a free block ... *)
Take(p) ==
  /\ st[p] = "Free"
  /\ \/ /\ \E s \in {"Listen", "SynSent"} : Move(p, s)
        /\ sock' = [sock EXCEPT ![p] = FALSE]
     \/ /\ Move(p, "Closed")
        /\ sock' = [sock EXCEPT ![p] = TRUE]
  /\ UNCHANGED up

(* ... while listen and connect do not look at the state of the socket, and *)
(* a connect that fails leaves a closed one.                                *)
Reuse(p) ==
  /\ sock[p]
  /\ \/ \E s \in {"Listen", "SynSent"} : Move(p, s)
     \/ st[p] = "Free" /\ Move(p, "Closed")
  /\ UNCHANGED <<sock, up>>

(* The TERM signal drops every block; a panic drops none, or only those the *)
(* retransmission thread had given up on.                                   *)
End ==
  /\ up /\ up' = FALSE
  /\ \E S \in SUBSET Blocks :
       st' = [p \in Blocks |-> IF p \in S THEN "Free" ELSE st[p]]
  /\ UNCHANGED sock

Next ==
  \/ \E p \in Blocks : Arrive(p) \/ Spawn(p) \/ Take(p) \/ Reuse(p)
  \/ Drop
  \/ End

Spec == Init /\ [][Next]_vars
=============================================================================
