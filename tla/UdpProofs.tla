----------------------------- MODULE UdpProofs -----------------------------
(***************************************************************************)
(* Proofs about modules Udp and UdpApp, for any number of blocks, addresses *)
(* and ports: the types, that no two blocks serve the same endpoint and     *)
(* that every token in receive_from's channel has its datagram.             *)
(***************************************************************************)
EXTENDS UdpApp, TLAPS, SequenceTheorems, DataLemmas

(* A block that was never opened has no endpoint: bind() works on open      *)
(* blocks only and nothing frees a block.  EndpointsDisjoint needs it,      *)
(* because bind() compares with open blocks only.                           *)
FreeUnset == \A p \in Pcbs : pcbs[p].state = "Free" => pcbs[p].local = Unset

IInv == TypeOK /\ FreeUnset /\ EndpointsDisjoint /\ TokenHasDatagram

-----------------------------------------------------------------------------

(* TokenHasDatagram in terms of DataLemmas. *)
LEMMA TokensCounted ==
  TokenHasDatagram <=> (call # NoPcb => Count(chan) <= Len(pcbs[call].queue))
BY DEF TokenHasDatagram, Count, Trues

(* A step that leaves the waiting call, its channel and the queue of its    *)
(* block alone.                                                             *)
LEMMA SameTokens ==
  ASSUME TokenHasDatagram, call' = call, chan' = chan,
         call # NoPcb => pcbs'[call].queue = pcbs[call].queue
  PROVE  TokenHasDatagram'
BY DEF TokenHasDatagram, NoPcb

(* A step that changes no endpoint and frees no block keeps the endpoints   *)
(* disjoint.                                                                *)
LEMMA SameEndpoints ==
  ASSUME IInv, TypeOK', TokenHasDatagram',
         \A p \in Pcbs : /\ pcbs'[p].local = pcbs[p].local
                         /\ pcbs'[p].state = "Free" => pcbs[p].state = "Free"
  PROVE  IInv'
<1>1. FreeUnset'
  BY DEF IInv, FreeUnset, Pcbs, Unset
<1>2. EndpointsDisjoint'
  BY DEF IInv, EndpointsDisjoint, Overlap, Pcbs
<1> QED
  BY <1>1, <1>2 DEF IInv

(* The table that UdpPcbs::new() builds. *)
LEMMA InitOK ==
  ASSUME Init
  PROVE  IInv
<1>1. Unset \in Endpoint
  BY DEF Unset, Endpoint
<1>2. TypeOK
  BY <1>1, EmptySeq DEF Init, TypeOK, Pcb, NoPcb
<1>3. FreeUnset /\ EndpointsDisjoint /\ TokenHasDatagram
  BY DEF Init, FreeUnset, EndpointsDisjoint, Unset, TokenHasDatagram
<1> QED
  BY <1>2, <1>3 DEF IInv

(* A panic leaves everything as it was. *)
LEMMA PanicOK ==
  ASSUME IInv, Panic
  PROVE  IInv'
<1>1. TypeOK'
  BY DEF IInv, TypeOK, Panic
<1>2. TokenHasDatagram'
  BY SameTokens DEF IInv, Panic
<1> QED
  BY <1>1, <1>2, SameEndpoints DEF Panic

(* input(): the datagram goes to the queue of its block. *)
LEMMA InputOK ==
  ASSUME IInv, NEW d \in Datagrams, Input(d)
  PROVE  IInv'
<1>1. PICK p \in Pcbs : /\ call = p
                        /\ pcbs' = [pcbs EXCEPT ![p].queue = Append(@, d.src)]
                        /\ chan' = Append(chan, TRUE)
  BY DEF Input
<1>2. d.src \in Endpoint
  BY UdpAssumption DEF Datagram
<1>3. pcbs[p] \in Pcb /\ pcbs \in [Pcbs -> Pcb]
  BY DEF IInv, TypeOK
<1>4. /\ Append(pcbs[p].queue, d.src) \in Seq(Endpoint)
      /\ Len(pcbs[p].queue) \in Nat
      /\ Len(Append(pcbs[p].queue, d.src)) = Len(pcbs[p].queue) + 1
  BY <1>2, <1>3, AppendProperties, LenProperties DEF Pcb
<1>5. pcbs' \in [Pcbs -> Pcb]
  BY <1>1, <1>3, <1>4 DEF Pcb
<1>6. chan' \in Seq(BOOLEAN)
  BY <1>1, AppendProperties DEF IInv, TypeOK
<1>7. TypeOK'
  BY <1>5, <1>6 DEF IInv, TypeOK, Input
<1>8. TokenHasDatagram'
  <2>1. chan \in Seq(BOOLEAN) /\ call # NoPcb /\ call' = p
    BY <1>1 DEF IInv, TypeOK, Input, Pcbs, NoPcb
  <2>2. Count(chan) \in Nat /\ Count(chan') = Count(chan) + 1
    BY <1>1, <2>1, CountType, CountAppend
  <2>3. Count(chan) <= Len(pcbs[p].queue)
    BY <1>1, <2>1, TokensCounted DEF IInv
  <2>4. Len(pcbs'[p].queue) = Len(pcbs[p].queue) + 1
    BY <1>1, <1>3, <1>4 DEF Pcb
  <2>5. Count(chan') <= Len(pcbs'[call'].queue)
    BY <1>4, <2>1, <2>2, <2>3, <2>4
  <2> QED
    BY <2>5 DEF TokenHasDatagram, Count, Trues
<1> QED
  BY <1>1, <1>3, <1>7, <1>8, SameEndpoints DEF Pcb

(* open() takes a free block. *)
LEMMA OpenOK ==
  ASSUME IInv, NEW p \in Pcbs, Open(p)
  PROVE  IInv'
<1>1. TypeOK'
  BY DEF IInv, TypeOK, Open, Pcb
<1>2. TokenHasDatagram'
  BY SameTokens DEF Open, IInv, TypeOK, Pcb, NoPcb
<1> QED
  BY <1>1, <1>2, SameEndpoints DEF Open, IInv, TypeOK, Pcb

(* An endpoint that no open block serves is given to a block, which is open *)
(* then: it overlaps with no other, because the free ones have none.        *)
LEMMA EndpointOK ==
  ASSUME IInv, NEW p \in Pcbs, NEW local \in Endpoint, ~Used(local), TypeOK',
         pcbs' = [pcbs EXCEPT ![p].state = "Open", ![p].local = local],
         UNCHANGED <<call, chan>>
  PROVE  IInv'
<1>1. pcbs \in [Pcbs -> Pcb]
  BY DEF IInv, TypeOK
<1>2. /\ pcbs'[p].local = local /\ pcbs'[p].state = "Open"
      /\ \A q \in Pcbs : q # p => pcbs'[q] = pcbs[q]
      /\ \A q \in Pcbs : pcbs'[q].queue = pcbs[q].queue
  BY <1>1 DEF Pcb
<1>3. FreeUnset'
  BY <1>2 DEF IInv, FreeUnset, Unset, Pcbs
<1>4. ASSUME NEW q \in Pcbs, q # p
      PROVE  /\ local.port # 0 => ~Overlap(local, pcbs[q].local)
             /\ pcbs[q].local.port # 0 => ~Overlap(pcbs[q].local, local)
  <2>1. CASE pcbs[q].state = "Open"
    BY <2>1 DEF Used, Serves, Overlap
  <2>2. CASE pcbs[q].state = "Free"
    BY <2>2 DEF IInv, FreeUnset, Unset, Overlap
  <2> QED
    BY <1>1, <2>1, <2>2 DEF Pcb
<1>5. EndpointsDisjoint'
  <2> SUFFICES ASSUME NEW r \in Pcbs, NEW q \in Pcbs, r # q,
                      pcbs'[r].local.port # 0
               PROVE  ~Overlap(pcbs'[r].local, pcbs'[q].local)
    BY DEF EndpointsDisjoint, Overlap, Pcbs
  <2>1. CASE r = p
    BY <1>2, <1>4, <2>1
  <2>2. CASE q = p
    BY <1>2, <1>4, <2>2
  <2>3. CASE r # p /\ q # p
    BY <1>2, <2>3 DEF IInv, EndpointsDisjoint
  <2> QED
    BY <2>1, <2>2, <2>3
<1>6. TokenHasDatagram'
  BY <1>2, SameTokens DEF IInv, TypeOK
<1> QED
  BY <1>3, <1>5, <1>6 DEF IInv

(* bind() gives an endpoint to an open block. *)
LEMMA BindOK ==
  ASSUME IInv, NEW p \in Opened, NEW local \in Locals, Bind(p, local)
  PROVE  IInv'
<1>1. /\ p \in Pcbs /\ pcbs[p].state = "Open" /\ local \in Endpoint
      /\ pcbs \in [Pcbs -> Pcb]
  BY UdpAssumption DEF Opened, IInv, TypeOK
<1>2. TypeOK'
  BY <1>1 DEF IInv, TypeOK, Bind, Pcb
<1>3. pcbs' = [pcbs EXCEPT ![p].state = "Open", ![p].local = local]
  BY <1>1 DEF Bind, Pcb
<1> QED
  BY <1>1, <1>2, <1>3, EndpointOK DEF Bind

(* send_to() leaves the table alone. *)
LEMMA SendToOK ==
  ASSUME IInv, NEW p, NEW remote \in Endpoint, SendTo(p, remote)
  PROVE  IInv'
<1>1. PICK port \in Ports \union {0} :
        sent' = {[src |-> [addr |-> Me, port |-> port], dst |-> remote]}
  BY DEF SendTo
<1>2. [addr |-> Me, port |-> port] \in Endpoint /\ remote \in Endpoint
  BY UdpAssumption DEF Endpoint
<1>3. sent' \subseteq [src : Endpoint, dst : Endpoint]
  BY <1>1, <1>2
<1>4. UNCHANGED <<pcbs, call, chan, phase>>
  BY DEF SendTo
<1>5. TypeOK'
  BY <1>3, <1>4 DEF IInv, TypeOK
<1>6. TokenHasDatagram'
  BY <1>4, SameTokens DEF IInv
<1> QED
  BY <1>4, <1>5, <1>6, SameEndpoints

(* receive_from() stores a sender, sleeps, and takes a datagram. *)
LEMMA ReceiveOK ==
  ASSUME IInv, (\E p \in Pcbs : ReceiveStarts(p)) \/ ReceiveReturns
  PROVE  IInv'
<1>1. ASSUME NEW p \in Pcbs, ReceiveStarts(p)
      PROVE  IInv'
  <2>1. TypeOK'
    BY <1>1, EmptySeq DEF IInv, TypeOK, ReceiveStarts, Pcb
  <2>2. pcbs'[p].queue \in Seq(Endpoint) /\ call' = p
    BY <1>1, <2>1 DEF TypeOK, ReceiveStarts, Pcb
  <2>3. Count(chan') = 0 /\ Len(pcbs'[p].queue) \in Nat
    BY <1>1, <2>2, CountEmpty, LenProperties DEF ReceiveStarts
  <2>4. TokenHasDatagram'
    BY <2>2, <2>3 DEF TokenHasDatagram, Count, Trues
  <2> QED
    BY <1>1, <2>1, <2>4, SameEndpoints DEF IInv, TypeOK, ReceiveStarts, Pcb
<1>2. CASE ReceiveReturns
  <2>1. call \in Pcbs /\ pcbs[call] \in Pcb /\ pcbs \in [Pcbs -> Pcb]
    BY <1>2 DEF IInv, TypeOK, ReceiveReturns
  <2>2. pcbs[call].queue # <<>> => Tail(pcbs[call].queue) \in Seq(Endpoint)
    BY <2>1, HeadTailProperties DEF Pcb
  <2>3. /\ pcbs' \in [Pcbs -> Pcb]
        /\ \A p \in Pcbs : /\ pcbs'[p].local = pcbs[p].local
                           /\ pcbs'[p].state = pcbs[p].state
    BY <1>2, <2>1, <2>2 DEF ReceiveReturns, Pcb
  <2>4. TypeOK'
    BY <1>2, <2>3, EmptySeq DEF IInv, TypeOK, ReceiveReturns
  <2>5. TokenHasDatagram'
    BY <1>2 DEF ReceiveReturns, TokenHasDatagram
  <2> QED
    BY <2>3, <2>4, <2>5, SameEndpoints
<1> QED
  BY <1>1, <1>2

(* close_sockets() leaves the table alone. *)
LEMMA CloseSocketsOK ==
  ASSUME IInv, CloseSockets
  PROVE  IInv'
<1>1. Append(chan, FALSE) \in Seq(BOOLEAN)
  BY AppendProperties DEF IInv, TypeOK
<1>2. TypeOK'
  BY <1>1 DEF IInv, TypeOK, CloseSockets
<1>3. CASE call = NoPcb
  BY <1>3, <1>2, SameEndpoints DEF CloseSockets, TokenHasDatagram
<1>4. CASE call # NoPcb
  <2>1. chan' = Append(chan, FALSE) /\ chan \in Seq(BOOLEAN)
    BY <1>4 DEF CloseSockets, IInv, TypeOK
  <2>2. Count(chan') = Count(chan)
    BY <2>1, CountAppend
  <2>3. TokenHasDatagram'
    BY <2>2, TokensCounted DEF IInv, CloseSockets, TokenHasDatagram, Count, Trues
  <2> QED
    BY <1>2, <2>3, SameEndpoints DEF CloseSockets
<1> QED
  BY <1>3, <1>4

(* Every step preserves the inductive invariant. *)
LEMMA NextOK ==
  ASSUME IInv, [Next]_udpVars
  PROVE  IInv'
<1>1. CASE UNCHANGED udpVars
  <2>1. TypeOK'
    BY <1>1 DEF IInv, TypeOK, udpVars
  <2>2. TokenHasDatagram'
    BY <1>1, SameTokens DEF IInv, udpVars
  <2> QED
    BY <1>1, <2>1, <2>2, SameEndpoints DEF udpVars
<1>2. ASSUME NEW d \in Datagrams, InputPanics(d)
      PROVE  IInv'
  BY <1>2, PanicOK DEF InputPanics
<1>3. CASE CallPanics \/ CloseSocketsPanics
  BY <1>3, PanicOK DEF CallPanics, CloseSocketsPanics
<1>4. Opened \subseteq Pcbs /\ Remotes \subseteq Endpoint
  BY UdpAssumption DEF Opened
<1> QED
  BY <1>1, <1>2, <1>3, <1>4, InputOK, OpenOK, BindOK, SendToOK, ReceiveOK,
     CloseSocketsOK DEF Next

(* The inductive invariant holds in every reachable state. *)
THEOREM Invariance == Spec => []IInv
<1>1. Init => IInv
  BY InitOK
<1>2. IInv /\ [Next]_udpVars => IInv'
  BY NextOK
<1> QED
  BY <1>1, <1>2, PTL DEF Spec

(* The types of the table, of receive_from's channel and of what is sent. *)
THEOREM TypeCorrect == Spec => []TypeOK
<1>1. IInv => TypeOK
  BY DEF IInv
<1> QED
  BY <1>1, Invariance, PTL

(* Two blocks that are bound to a port never serve the same endpoint, for   *)
(* any number of blocks and any order of open and bind: a datagram has at   *)
(* most one block.                                                          *)
THEOREM EndpointsStayDisjoint == Spec => []EndpointsDisjoint
<1>1. IInv => EndpointsDisjoint
  BY DEF IInv
<1> QED
  BY <1>1, Invariance, PTL

(* Every TRUE token in receive_from's channel has its datagram in the queue *)
(* of the block, for any number of datagrams, calls and blocks: a wakeup    *)
(* other than that of close_sockets never finds the queue empty.            *)
THEOREM TokensHaveDatagrams == Spec => []TokenHasDatagram
<1>1. IInv => TokenHasDatagram
  BY DEF IInv
<1> QED
  BY <1>1, Invariance, PTL

-----------------------------------------------------------------------------
(* The commands of app.rs and the main thread *)

(* The application thread waits exactly when receive_from does, on the      *)
(* block it has opened, and it takes a turn only with such a block.         *)
ThreadInCall ==
  /\ call = IF pc = "wait" THEN soc ELSE NoPcb
  /\ pc \in {"turn", "wait"} => soc # NoPcb

AppIInv == IInv /\ AppTypeOK /\ ThreadInCall

(* open and bind under one lock. *)
LEMMA OpenAndBindOK ==
  ASSUME IInv, AppTypeOK, OpenAndBind
  PROVE  IInv' /\ soc' \in Pcbs
<1>1. PICK p \in Pcbs :
        /\ pcbs' = [pcbs EXCEPT ![p].state = "Open", ![p].local = Well]
        /\ soc' = p
  BY DEF OpenAndBind
<1>2. Well \in Endpoint /\ ~Used(Well) /\ UNCHANGED <<call, chan, phase>> /\ sent' = {}
  BY CommandAssumption DEF OpenAndBind
<1>3. pcbs' \in [Pcbs -> Pcb]
  BY <1>1, <1>2 DEF IInv, TypeOK, Pcb
<1>4. TypeOK'
  BY <1>2, <1>3 DEF IInv, TypeOK
<1> QED
  BY <1>1, <1>2, <1>4, EndpointOK

(* A step that leaves the table and the call alone. *)
LEMMA ThreadStepOK ==
  ASSUME IInv, UNCHANGED udpVars
  PROVE  IInv'
BY NextOK

(* Every step of the application thread preserves the invariant. *)
LEMMA AppOK ==
  ASSUME AppIInv, App
  PROVE  AppIInv'
<1> USE DEF AppIInv
<1>1. CASE Check
  <2>1. UNCHANGED <<udpVars, call>>
    BY <1>1 DEF Check, udpVars
  <2> QED
    BY <1>1, <2>1, ThreadStepOK
       DEF Check, AppTypeOK, ThreadInCall, IInv
<1>2. CASE OpenAndBind
  <2>1. IInv' /\ soc' \in Pcbs
    BY <1>2, OpenAndBindOK
  <2> QED
    BY <1>2, <2>1 DEF OpenAndBind, AppTypeOK, ThreadInCall, IInv, Pcbs, NoPcb
<1>3. CASE SendTurn
  <2>1. IInv'
    BY <1>3, CommandAssumption, SendToOK DEF SendTurn
  <2> QED
    BY <1>3, <2>1 DEF SendTurn, SendTo, Sends, AppTypeOK, ThreadInCall, IInv
<1>4. CASE ReceiveTurn
  <2>1. soc \in Pcbs
    BY <1>4 DEF ReceiveTurn, ThreadInCall, AppTypeOK
  <2>2. IInv'
    BY <1>4, <2>1, ReceiveOK DEF ReceiveTurn
  <2> QED
    BY <1>4, <2>1, <2>2
       DEF ReceiveTurn, ReceiveStarts, AppTypeOK, ThreadInCall, IInv
<1>5. CASE Received
  <2>1. IInv'
    BY <1>5, ReceiveOK DEF Received
  <2> QED
    BY <1>5, <2>1 DEF Received, ReceiveReturns, AppTypeOK, ThreadInCall, IInv
<1> QED
  BY <1>1, <1>2, <1>3, <1>4, <1>5 DEF App

(* Datagrams, the TERM signal and the steps of the main thread after it. *)
LEMMA MainOK ==
  ASSUME AppIInv, Arrives \/ Term \/ Main
  PROVE  AppIInv'
<1> USE DEF AppIInv
<1>1. CASE Arrives
  <2>1. PICK d \in Datagrams : Input(d) \/ InputPanics(d)
    BY <1>1 DEF Arrives
  <2>2. IInv'
    BY <2>1, InputOK, PanicOK DEF InputPanics
  <2>3. call' = call
    BY <2>1 DEF Input, InputPanics, Panic
  <2> QED
    BY <1>1, <2>2, <2>3 DEF Arrives, AppTypeOK, ThreadInCall, IInv
<1>2. CASE Term \/ TellApp \/ Join
  <2>1. UNCHANGED udpVars /\ call' = call
    BY <1>2 DEF Term, TellApp, Join, udpVars
  <2>2. IInv'
    BY <2>1, ThreadStepOK
  <2> QED
    BY <1>2, <2>1, <2>2 DEF Term, TellApp, Join, AppTypeOK, ThreadInCall, IInv
<1>3. CASE Close
  <2>1. IInv'
    BY <1>3, CloseSocketsOK, PanicOK DEF Close, CloseSocketsPanics
  <2>2. call' = call
    BY <1>3 DEF Close, CloseSockets, CloseSocketsPanics, Panic
  <2> QED
    BY <1>3, <2>1, <2>2 DEF Close, AppTypeOK, ThreadInCall, IInv
<1> QED
  BY <1>1, <1>2, <1>3 DEF Main

(* The invariant of the process that runs a UDP command. *)
THEOREM AppInvariance == AppSpec => []AppIInv
<1>1. AppInit => AppIInv
  <2> SUFFICES ASSUME AppInit
               PROVE  AppIInv
    OBVIOUS
  <2>1. IInv
    BY InitOK DEF AppInit
  <2>2. TypeOK
    BY <2>1 DEF IInv
  <2>3. AppTypeOK
    <3>1. term \in BOOLEAN /\ soc \in Pcbs \union {NoPcb}
      BY Zenon DEF AppInit
    <3>2. count \in 0..2
      BY DEF AppInit
    <3> QED
      BY <2>2, <3>1, <3>2 DEF AppInit, AppTypeOK
  <2>4. ThreadInCall
    BY DEF AppInit, Init, ThreadInCall
  <2> QED
    BY <2>1, <2>3, <2>4 DEF AppIInv
<1>2. AppIInv /\ [AppNext]_appVars => AppIInv'
  <2> SUFFICES ASSUME AppIInv, [AppNext]_appVars
               PROVE  AppIInv'
    OBVIOUS
  <2>1. CASE UNCHANGED appVars
    <3>1. UNCHANGED udpVars /\ UNCHANGED <<call, pc, soc, count, term, main>>
      BY <2>1 DEF appVars, udpVars
    <3>2. IInv'
      BY <3>1, ThreadStepOK DEF AppIInv
    <3> QED
      BY <3>1, <3>2 DEF AppIInv, AppTypeOK, ThreadInCall, IInv
  <2> QED
    BY <2>1, AppOK, MainOK DEF AppNext
<1> QED
  BY <1>1, <1>2, PTL DEF AppSpec

(* The types of the commands' variables; sent_count stops at 2. *)
THEOREM AppTypeCorrect == AppSpec => []AppTypeOK
<1>1. AppIInv => AppTypeOK
  BY DEF AppIInv
<1> QED
  BY <1>1, AppInvariance, PTL

(* What is proved of the calls in any order holds of the commands too,      *)
(* which open and bind under one lock, and of the shutdown around them.     *)
THEOREM CommandsKeepUdpSafe ==
  AppSpec => [](EndpointsDisjoint /\ TokenHasDatagram)
<1>1. AppIInv => EndpointsDisjoint /\ TokenHasDatagram
  BY DEF AppIInv, IInv
<1> QED
  BY <1>1, AppInvariance, PTL
=============================================================================
