------------------------------- MODULE Inbox -------------------------------
(***************************************************************************)
(* What the way from the device to the protocols promises: a queue per      *)
(* protocol, first in, first out.  The device, the signals and the two      *)
(* steps on the way are not seen.                                           *)
(***************************************************************************)
EXTENDS Sequences

CONSTANTS Kinds, Packets

VARIABLE inbox

Init == inbox = [k \in Kinds |-> <<>>]

Arrive(k) == \E x \in Packets[k] : inbox' = [inbox EXCEPT ![k] = Append(@, x)]

Handle(k) == inbox[k] # <<>> /\ inbox' = [inbox EXCEPT ![k] = Tail(@)]

Next == \E k \in Kinds : Arrive(k) \/ Handle(k)

Spec == Init /\ [][Next]_inbox
=============================================================================
