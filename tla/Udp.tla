-------------------------------- MODULE Udp --------------------------------
(***************************************************************************)
(* The UDP of protocols/ip/udp.rs: the table of control blocks, the calls   *)
(* of the application thread and the datagrams that arrive.  An action is   *)
(* one critical section of the mutex around the table.                      *)
(***************************************************************************)
EXTENDS Integers, Sequences, FiniteSets

CONSTANTS
  N,             \* UDP_PCB_COUNT
  AnyAddr,       \* IP_ADDR_ANY
  Me,            \* the unicast address of the interface
  Addrs,         \* the addresses other than AnyAddr
  Ports,         \* the ports in use; 0 is the port that is not set
  DynLo, DynHi,  \* UDP_SRC_PORT_MIN and the last port tried by send_to
  Datagrams,     \* the datagrams that may arrive
  Locals,        \* local endpoints the application binds
  Remotes        \* remote endpoints it sends to

Pcbs == 0..(N - 1)
NoPcb == -1
Endpoint == [addr : Addrs \union {AnyAddr}, port : Ports \union {0}]
Unset == [addr |-> AnyAddr, port |-> 0]

(* valid: the length and the checksum of the header are right. *)
Datagram == [src : Endpoint, dst : Endpoint, valid : BOOLEAN]

ASSUME UdpAssumption ==
  /\ N \in Nat \ {0}
  /\ Me \in Addrs /\ AnyAddr \notin Addrs
  /\ Ports \subseteq Nat \ {0}
  /\ DynLo \in Nat /\ DynHi \in Nat /\ DynLo..DynHi \subseteq Ports
  /\ Datagrams \subseteq Datagram
  /\ Locals \subseteq Endpoint
  /\ Remotes \subseteq Endpoint

VARIABLES
  pcbs,   \* UdpPcbs.entries
  call,   \* the block receive_from waits on, or NoPcb
  chan,   \* the channel of that call
  sent,   \* the datagram the last step handed to ip::output, in a set
  phase   \* the process: running, closing (sockets closed) or panic

udpVars == <<pcbs, call, chan, sent, phase>>

(* told: a sender was stored by some receive_from; its receiver is alive as *)
(* long as that call waits.  queue: the sources of the datagrams.           *)
Pcb == [state : {"Free", "Open"}, local : Endpoint, told : BOOLEAN,
        queue : Seq(Endpoint)]

TypeOK ==
  /\ pcbs \in [Pcbs -> Pcb]
  /\ call \in Pcbs \union {NoPcb}
  /\ chan \in Seq(BOOLEAN)
  /\ sent \subseteq [src : Endpoint, dst : Endpoint]
  /\ phase \in {"running", "closing", "panic"}

Init ==
  /\ pcbs = [p \in Pcbs |-> [state |-> "Free", local |-> Unset,
                             told |-> FALSE, queue |-> <<>>]]
  /\ call = NoPcb
  /\ chan = <<>>
  /\ sent = {}
  /\ phase = "running"

Panic == phase' = "panic" /\ UNCHANGED <<pcbs, call, chan, sent>>

-----------------------------------------------------------------------------
(* get_by_host, and is_endpoint_used *)

Overlap(a, b) ==
  /\ a.port = b.port
  /\ AnyAddr \in {a.addr, b.addr} \/ a.addr = b.addr

(* Mutant: the wildcard address is nothing special. *)
ServesExactly(p, e) == pcbs[p].state = "Open" /\ pcbs[p].local = e

Serves(p, e) == pcbs[p].state = "Open" /\ Overlap(pcbs[p].local, e)
GetByHost(e, p) == Serves(p, e) /\ \A q \in 0..(p - 1) : ~Serves(q, e)
Used(e) == \E p \in Pcbs : Serves(p, e)

-----------------------------------------------------------------------------
(* Datagrams *)

(* Mutant: a block keeps the latest datagram only. *)
InputKeepsOne(d) ==
  /\ phase = "running"
  /\ d.valid
  /\ \E p \in Pcbs :
       /\ GetByHost(d.dst, p)
       /\ call = p
       /\ pcbs' = [pcbs EXCEPT ![p].queue = <<d.src>>]
       /\ chan' = Append(chan, TRUE)
  /\ sent' = {}
  /\ UNCHANGED <<call, phase>>

Input(d) ==
  /\ phase = "running"
  /\ d.valid
  /\ \E p \in Pcbs :
       /\ GetByHost(d.dst, p)
       /\ call = p
       /\ pcbs' = [pcbs EXCEPT ![p].queue = Append(@, d.src)]
       /\ chan' = Append(chan, TRUE)
  /\ sent' = {}
  /\ UNCHANGED <<call, phase>>

(* The length mismatch panics, and so does whoever gets an Err from input:  *)
(* a wrong checksum, no block.  A block on which no receive_from waits has  *)
(* no sender or one whose receiver is gone.                                 *)
InputPanics(d) ==
  /\ phase = "running"
  /\ ~d.valid \/ \A p \in Pcbs : GetByHost(d.dst, p) => call # p
  /\ Panic

-----------------------------------------------------------------------------
(* Calls, on blocks that open has returned *)

Calling == phase # "panic" /\ call = NoPcb
Opened == {p \in Pcbs : pcbs[p].state = "Open"}

FirstFree(p) ==
  /\ pcbs[p].state = "Free"
  /\ \A q \in 0..(p - 1) : pcbs[q].state # "Free"

(* Mutant: the wrong state. *)
OpenClosing(p) ==
  /\ Calling /\ FirstFree(p)
  /\ pcbs' = [pcbs EXCEPT ![p].state = "Closing"]
  /\ sent' = {}
  /\ UNCHANGED <<call, chan, phase>>

Open(p) ==
  /\ Calling /\ FirstFree(p)
  /\ pcbs' = [pcbs EXCEPT ![p].state = "Open"]
  /\ sent' = {}
  /\ UNCHANGED <<call, chan, phase>>

Bind(p, local) ==
  /\ Calling /\ ~Used(local)
  /\ pcbs' = [pcbs EXCEPT ![p].local = local]
  /\ sent' = {}
  /\ UNCHANGED <<call, chan, phase>>

(* A block bound to no address sends from that of the interface; ip::output *)
(* takes no other.                                                          *)
SourceAddr(p) == IF pcbs[p].local.addr = AnyAddr THEN Me ELSE pcbs[p].local.addr

(* The source port: 0 for a bound block, else the first dynamic port that   *)
(* is not used.                                                             *)
SourcePort(p, port) ==
  LET taken(k) == Used([addr |-> SourceAddr(p), port |-> k])
  IN  IF pcbs[p].local.port # 0 THEN port = 0
      ELSE /\ port \in DynLo..DynHi /\ ~taken(port)
           /\ \A k \in DynLo..(port - 1) : taken(k)

SendTo(p, remote) ==
  /\ Calling /\ SourceAddr(p) = Me
  /\ \E port \in Ports \union {0} :
       /\ SourcePort(p, port)
       /\ sent' = {[src |-> [addr |-> Me, port |-> port], dst |-> remote]}
  /\ UNCHANGED <<pcbs, call, chan, phase>>

ReceiveStarts(p) ==
  /\ Calling
  /\ pcbs' = [pcbs EXCEPT ![p].told = TRUE]
  /\ call' = p
  /\ chan' = <<>>
  /\ sent' = {}
  /\ UNCHANGED phase

(* The call returns with what it finds; tokens left in its channel are lost. *)
ReceiveReturns ==
  /\ phase # "panic" /\ call # NoPcb /\ chan # <<>>
  /\ pcbs' = IF Head(chan) /\ pcbs[call].state = "Open" /\ pcbs[call].queue # <<>>
             THEN [pcbs EXCEPT ![call].queue = Tail(@)] ELSE pcbs
  /\ call' = NoPcb
  /\ chan' = <<>>
  /\ sent' = {}
  /\ UNCHANGED phase

(* No free block; an endpoint in use; no dynamic port left; an address that *)
(* ip::output refuses.                                                      *)
CallPanics ==
  /\ Calling
  /\ \/ Opened = Pcbs
     \/ Opened # {} /\ \E local \in Locals : Used(local)
     \/ \E p \in Opened : \/ SourceAddr(p) # Me
                           \/ \A port \in Ports \union {0} : ~SourcePort(p, port)
  /\ Panic

-----------------------------------------------------------------------------
(* close_sockets: send(false).unwrap() fails when the receiver of a stored  *)
(* sender is gone.                                                          *)

(* Mutant: sleepers are not told. *)
CloseSocketsSilently ==
  /\ phase = "running"
  /\ phase' = "closing" /\ sent' = {}
  /\ UNCHANGED <<pcbs, call, chan>>

CloseSockets ==
  /\ phase = "running"
  /\ \A p \in Pcbs : pcbs[p].told => call = p
  /\ phase' = "closing"
  /\ chan' = IF call # NoPcb THEN Append(chan, FALSE) ELSE chan
  /\ sent' = {}
  /\ UNCHANGED <<pcbs, call>>

CloseSocketsPanics ==
  /\ phase = "running"
  /\ \E p \in Pcbs : pcbs[p].told /\ call # p
  /\ Panic

Next ==
  \/ \E d \in Datagrams : Input(d) \/ InputPanics(d)
  \/ \E p \in Pcbs : Open(p)
  \/ \E p \in Opened : \/ \E local \in Locals : Bind(p, local)
                        \/ \E remote \in Remotes : SendTo(p, remote)
                        \/ ReceiveStarts(p)
  \/ ReceiveReturns
  \/ CallPanics
  \/ CloseSockets
  \/ CloseSocketsPanics

Spec == Init /\ [][Next]_udpVars

-----------------------------------------------------------------------------
(* Properties *)

(* Two open blocks that are bound to a port never serve the same endpoint:  *)
(* every datagram has at most one block, and get_by_host need not choose.   *)
(* bind() checks against the other blocks, but nothing fixes the endpoint   *)
(* of a block that is bound again.                                          *)
EndpointsDisjoint ==
  \A p, q \in Pcbs :
    p # q /\ pcbs[p].local.port # 0 => ~Overlap(pcbs[p].local, pcbs[q].local)

(* Every TRUE token in the channel of a waiting receive_from has its        *)
(* datagram in the queue, so that the call never returns None for it.       *)
TokenHasDatagram ==
  call # NoPcb =>
    Cardinality({i \in DOMAIN chan : chan[i]}) <= Len(pcbs[call].queue)
=============================================================================
