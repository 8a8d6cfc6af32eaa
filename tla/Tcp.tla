-------------------------------- MODULE Tcp --------------------------------
(***************************************************************************)
(* The TCP of protocols/ip/tcp.rs: the table of control blocks, the calls   *)
(* the application makes on it, the segments that arrive and the            *)
(* retransmission thread.                                                   *)
(*                                                                          *)
(* An action is one critical section of the mutex around the table.  There  *)
(* are three threads: the signal thread (segments, CloseSockets), the one   *)
(* application thread (the calls) and the retransmission thread.  A call    *)
(* that holds the device mutex while it works or waits (send and connect    *)
(* take the device by reference) keeps the other two out.  The order in     *)
(* which the four mutexes are taken is not modelled here.                   *)
(*                                                                          *)
(* A segment that the code drops without any effect is a stuttering step.   *)
(***************************************************************************)
EXTENDS TcpPcb

CONSTANTS
  Me,            \* the unicast address of the interface
  DynLo, DynHi,  \* TCP_SRC_PORT_MIN and the last port tried by connect
  Swap,          \* le_to_be_u16 on ports
  Mss,           \* what fits into one frame after both headers
  Locals,        \* local endpoints the application opens and binds
  Remotes,       \* remote endpoints the application opens
  Payloads,      \* byte strings the application sends
  Sizes,         \* buffer sizes it receives with
  Api            \* the calls it makes

ASSUME AddressAssumption ==
  /\ Me \in Addrs
  /\ Locals \subseteq [addr : {AnyAddr, Me}, port : Ports]
  /\ Remotes \subseteq [addr : Addrs, port : Ports]
  /\ DynLo \in Nat /\ DynHi \in Nat /\ DynLo..DynHi \subseteq Ports
  /\ Swap \in [Ports \union {0} -> Ports \union {0}]
ASSUME TrafficAssumption ==
  /\ Segments \subseteq Segment
  /\ Payloads \subseteq Seq(Bytes) \ {<<>>}
  /\ Mss \in Nat \ {0}
  /\ Sizes \subseteq Nat

VARIABLES
  pcbs,     \* TcpPcbs.entries
  call,     \* the call the application thread is in, with its local variables
  chan,     \* the mpsc channel that call has left with its block
  out,      \* the segments the last step handed to ip::output
  handles,  \* the block ids the application has been given
  phase     \* the process: running, closing (a TERM signal came) or panic

vars == <<pcbs, call, chan, out, handles, phase>>

Idle == [pc |-> "idle", pcb |-> NoPcb, data |-> <<>>, n |-> 0,
         next |-> NoPcb, got |-> NoPcb]

(* open, connect, accept, sendwait and recvwait are inside recv(). *)
CallPc == {"idle", "open", "connect", "accept", "sending", "sendwait",
           "recvwait", "recvcopy", "spin"}
Call == [pc : CallPc, pcb : Pcbs \union {NoPcb}, data : Seq(Bytes), n : Nat,
         next : Pcbs \union {NoPcb}, got : Pcbs \union {NoPcb}]

TypeOK ==
  /\ pcbs \in [Pcbs -> Pcb]
  /\ call \in Call
  /\ call.pc # "idle" => call.pcb \in Pcbs
  /\ chan \in Seq(BOOLEAN)
  /\ out \subseteq Segment
  /\ handles \subseteq Pcbs
  /\ phase \in {"running", "closing", "panic"}

Init ==
  /\ pcbs = [p \in Pcbs |-> NewPcb]
  /\ call = Idle
  /\ chan = <<>>
  /\ out = {}
  /\ handles = {}
  /\ phase = "running"

-----------------------------------------------------------------------------
(* Helpers *)

(* Mutants: receive stores no sender; release wakes nobody up. *)
TokenToOpener(q, go) == IF call.pc = "open" /\ call.pcb = q THEN <<go>> ELSE <<>>
TokenOfSuccess(q, go) ==
  IF go /\ call.pc # "idle" /\ call.pcb = q THEN <<go>> ELSE <<>>

(* Every call stores a new sender in its block, so a token sent through     *)
(* block q reaches a receiver only while the current call is on q.          *)
Token(q, go) == IF call.pc # "idle" /\ call.pcb = q THEN <<go>> ELSE <<>>

Waiting(pc, pcb) == [Idle EXCEPT !.pc = pc, !.pcb = pcb]
Return == call' = Idle /\ chan' = <<>>

Panic == phase' = "panic" /\ UNCHANGED <<pcbs, call, chan, out, handles>>

(* Mutant: connect gives the device back while it waits. *)
DeviceHeldBySend == call.pc \in {"sending", "sendwait"}
(* Mutant: send gives it back while it waits. *)
DeviceHeldAwake == call.pc \in {"sending", "connect"}

DeviceHeld == call.pc \in {"sending", "sendwait", "connect"}

(* Mutant: a closed block counts as free. *)
NewEntryUnconnected(p) ==
  /\ pcbs[p].state \in {"Free", "Closed"}
  /\ \A q \in 0..(p - 1) : pcbs[q].state \notin {"Free", "Closed"}

(* new_entry takes the first free block. *)
NewEntry(p) ==
  /\ pcbs[p].state = "Free"
  /\ \A q \in 0..(p - 1) : pcbs[q].state # "Free"
TableFull == \A p \in Pcbs : pcbs[p].state # "Free"

(* select: the first block with the remote address, whatever its state,     *)
(* otherwise the last listener that has no remote.                          *)
Select(local, remote, p) ==
  LET Exact(q) == ExactMatch(pcbs[q], local, remote)
      Listener(q) == ListenMatch(pcbs[q], local)
  IN  \/ Exact(p) /\ \A q \in 0..(p - 1) : ~Exact(q)
      \/ /\ Listener(p) /\ \A q \in (p + 1)..(N - 1) : ~Listener(q)
         /\ \A q \in Pcbs : ~Exact(q)
Unmatched(local, remote) == \A p \in Pcbs : ~Select(local, remote, p)

-----------------------------------------------------------------------------
(* Segments: segment_arrives in the order of its checks.  The signal thread *)
(* stops taking signals after TERM.                                         *)

(* Mutant: signals are taken until the process ends. *)
SignalsTakenToTheEnd == phase # "panic" /\ ~DeviceHeld

SignalsTaken == phase = "running" /\ ~DeviceHeld
ArrivesAt(seg, p) == SignalsTaken /\ Select(seg.dst, seg.src, p)

(* No block, or a closed one. *)
NoConnection(seg) ==
  \/ Unmatched(seg.dst, seg.src)
  \/ \E p \in Pcbs : Select(seg.dst, seg.src, p) /\ pcbs[p].state = "Closed"

Refuse(seg) ==
  /\ SignalsTaken /\ NoConnection(seg)
  /\ "RST" \notin seg.flags
  /\ IF "ACK" \in seg.flags
     THEN out' = {AckReset(seg)}
     ELSE /\ seg.seq + SegLen(seg) <= SeqMax
          /\ out' = {ResetReply(seg, {"RST", "ACK"}, 0, seg.seq + SegLen(seg))}
  /\ UNCHANGED <<pcbs, call, chan, handles, phase>>

(* LISTEN, SYN-SENT and SYN-RECEIVED answer an acknowledgment they cannot   *)
(* use with a reset and stay as they are.                                   *)
RefusedAck(p, seg) ==
  /\ "ACK" \in seg.flags
  /\ \/ p.state = "Listen" /\ "RST" \notin seg.flags
     \/ p.state = "SynSent" /\ BadSynSentAck(p, seg)
     \/ p.state = "SynReceived" /\ Passes(p, seg) /\ ~AckInRange(p, seg)

RefuseAck(seg, p) ==
  /\ ArrivesAt(seg, p)
  /\ RefusedAck(pcbs[p], seg)
  /\ out' = {AckReset(seg)}
  /\ UNCHANGED <<pcbs, call, chan, handles, phase>>

ListenTakesSyn(p, seg) ==
  /\ p.state = "Listen"
  /\ seg.flags \intersect {"RST", "ACK", "SYN"} = {"SYN"}

(* The block c that answers is a new one in socket mode, else the listener. *)
ListenSyn(seg, p) ==
  /\ ArrivesAt(seg, p)
  /\ ListenTakesSyn(pcbs[p], seg)
  /\ seg.seq < SeqMax
  /\ \E iss \in InitialSeqs, c \in Pcbs :
       LET q == IF pcbs[p].mode = "Socket"
                THEN [pcbs[c] EXCEPT !.mode = "Socket", !.parent = p]
                ELSE pcbs[c]
           s == PassiveSyn(q, seg, iss)
       IN  /\ IF pcbs[p].mode = "Socket" THEN NewEntry(c) ELSE c = p
           /\ pcbs' = [pcbs EXCEPT ![c] = s]
           /\ out' = {Reply(s, {"SYN", "ACK"}, iss, <<>>)}
  /\ UNCHANGED <<call, chan, handles, phase>>

SynSentReset(seg, p) ==
  /\ ArrivesAt(seg, p)
  /\ pcbs[p].state = "SynSent"
  /\ "RST" \in seg.flags /\ GoodSynSentAck(pcbs[p], seg)
  /\ pcbs' = [pcbs EXCEPT ![p] = Release(@)]
  /\ chan' = chan \o Token(p, FALSE)
  /\ out' = {}
  /\ UNCHANGED <<call, handles, phase>>

SynSentTakesSyn(p, seg) ==
  /\ p.state = "SynSent"
  /\ seg.flags \intersect {"RST", "SYN"} = {"SYN"}
  /\ ~BadSynSentAck(p, seg)

SynSentArrives(seg, p) ==
  LET s == SynSentSyn(pcbs[p], seg)
  IN  /\ ArrivesAt(seg, p)
      /\ SynSentTakesSyn(pcbs[p], seg)
      /\ seg.seq < SeqMax
      /\ pcbs' = [pcbs EXCEPT ![p] = s]
      /\ IF s.state = "Established"
         THEN /\ out' = {AckReply(s)}
              /\ chan' = chan \o Token(p, TRUE)
         ELSE /\ out' = {Reply(s, {"SYN", "ACK"}, s.iss, <<>>)}
              /\ UNCHANGED chan
      /\ UNCHANGED <<call, handles, phase>>

(* A segment outside the window is answered only when it is a reset. *)
Unacceptable(seg, p) ==
  /\ ArrivesAt(seg, p)
  /\ pcbs[p].state \in Synchronised
  /\ ~AcceptanceOverflows(pcbs[p], seg) /\ ~Acceptable(pcbs[p], seg)
  /\ "RST" \in seg.flags
  /\ out' = {AckReply(pcbs[p])}
  /\ UNCHANGED <<pcbs, call, chan, handles, phase>>

ResetBy(p, seg) ==
  /\ p.state \in Synchronised
  /\ ~AcceptanceOverflows(p, seg) /\ Acceptable(p, seg)
  /\ p.state \in Final \/ seg.flags \intersect {"RST", "SYN"} # {}

Reset(seg, p) ==
  /\ ArrivesAt(seg, p)
  /\ ResetBy(pcbs[p], seg)
  /\ pcbs' = [pcbs EXCEPT ![p] = Release(@)]
  /\ chan' = chan \o Token(p, FALSE)
  /\ out' = {}
  /\ UNCHANGED <<call, handles, phase>>

(* An acknowledgment of something not sent yet. *)
AckAhead(seg, p) ==
  /\ ArrivesAt(seg, p)
  /\ pcbs[p].state \in Synchronised \ (Final \union {"SynReceived"})
  /\ Passes(pcbs[p], seg)
  /\ "ACK" \in seg.flags /\ seg.ack > pcbs[p].sndNext
  /\ out' = {AckReply(pcbs[p])}
  /\ UNCHANGED <<pcbs, call, chan, handles, phase>>

Overflows(p, seg) ==
  \/ (ListenTakesSyn(p, seg) \/ SynSentTakesSyn(p, seg)) /\ seg.seq = SeqMax
  \/ p.state \in Synchronised /\ AcceptanceOverflows(p, seg)
  \/ Processed(p, seg) /\ ProcessingOverflows(p, seg)

(* The acknowledgment is good: the ACK, text and FIN stages.  A connection  *)
(* that a listener started goes to the backlog of its parent.               *)
Process(seg, p) ==
  LET b == pcbs[p]
      announced == b.state = "SynReceived" /\ b.parent # NoPcb
      acks == (IF HasText(b, seg) THEN {AckReply(AfterText(b, seg))} ELSE {})
              \union
              (IF "FIN" \in seg.flags THEN {AckReply(AfterFin(b, seg))} ELSE {})
  IN  /\ ArrivesAt(seg, p)
      /\ Processed(b, seg) /\ ~Overflows(b, seg)
      /\ pcbs' = [q \in Pcbs |->
                    LET s == IF q = p THEN AfterFin(b, seg) ELSE pcbs[q]
                    IN  IF announced /\ q = b.parent
                        THEN [s EXCEPT !.backlog = Append(@, p)] ELSE s]
      /\ chan' = chan
           \o (IF b.state = "SynReceived" THEN Token(p, TRUE) ELSE <<>>)
           \o (IF announced THEN Token(b.parent, TRUE) ELSE <<>>)
           \o (IF HasText(b, seg) THEN Token(p, TRUE) ELSE <<>>)
           \o (IF "FIN" \in seg.flags
                  /\ b.state \in {"SynReceived", "Established"}
               THEN Token(p, TRUE) ELSE <<>>)
      /\ out' = acks
      /\ UNCHANGED <<call, handles, phase>>

(* The debug build panics on overflow, and on a listener's SYN when there   *)
(* is no free block.                                                        *)
ArrivalPanics(seg) ==
  /\ SignalsTaken
  /\ \/ /\ NoConnection(seg) /\ seg.flags \intersect {"RST", "ACK"} = {}
        /\ seg.seq + SegLen(seg) > SeqMax
     \/ \E p \in Pcbs :
          /\ Select(seg.dst, seg.src, p)
          /\ \/ Overflows(pcbs[p], seg)
             \/ /\ ListenTakesSyn(pcbs[p], seg)
                /\ pcbs[p].mode = "Socket" /\ TableFull
  /\ Panic

(* input() panics before it has a segment to hand over: fewer bytes than a  *)
(* header, an address that is not unicast, a data offset beyond the end; or *)
(* it finds a bad checksum and its error is unwrapped.                      *)
InputPanics == SignalsTaken /\ Panic

SegmentArrives ==
  \E seg \in Segments :
    \/ Refuse(seg)
    \/ ArrivalPanics(seg)
    \/ \E p \in Pcbs :
         \/ RefuseAck(seg, p)
         \/ ListenSyn(seg, p)
         \/ SynSentReset(seg, p)
         \/ SynSentArrives(seg, p)
         \/ Unacceptable(seg, p)
         \/ Reset(seg, p)
         \/ AckAhead(seg, p)
         \/ Process(seg, p)

-----------------------------------------------------------------------------
(* The retransmission thread, and time *)

(* wait_time.elapsed().unwrap() fails while the wait time lies ahead; a     *)
(* payload larger than Mss does not fit into the frame buffer once the      *)
(* peer's hardware address is known.                                        *)
RetransmitMayPanic ==
  \E p \in Pcbs : \/ pcbs[p].state = "TimeWait"
                  \/ \E seg \in Resent(pcbs[p]) : Len(seg.data) > Mss

Retransmit ==
  /\ phase # "panic" /\ ~DeviceHeld
  /\ pcbs' = [p \in Pcbs |-> AfterRetransmit(pcbs[p])]
  /\ out' = UNION {Resent(pcbs[p]) : p \in Pcbs}
  /\ chan' = IF \E p \in Pcbs : /\ call.pcb = p /\ pcbs[p].state # "Free"
                                /\ pcbs'[p].state = "Free"
             THEN chan \o Token(call.pcb, FALSE) ELSE chan
  /\ phase' \in {phase} \union (IF RetransmitMayPanic THEN {"panic"} ELSE {})
  /\ UNCHANGED <<call, handles>>

Age(ages) ==
  /\ phase # "panic"
  /\ pcbs' = [p \in Pcbs |-> Aged(pcbs[p], ages)]
  /\ UNCHANGED <<call, chan, out, handles, phase>>

(* The 200 ms retry interval, or the 12 s timeout, of every entry passes. *)
RetryIntervalPasses ==
  Age([fresh |-> "due", due |-> "due", expired |-> "expired"])
TimeoutPasses ==
  Age([fresh |-> "expired", due |-> "expired", expired |-> "expired"])

-----------------------------------------------------------------------------
(* Calls of the application: opening *)

Calling(name) == phase # "panic" /\ call.pc = "idle" /\ name \in Api

ActiveOpen(local, remote) ==
  /\ Calling("active")
  /\ \E p \in Pcbs, iss \in InitialSeqs :
       LET s == ActiveSyn([pcbs[p] EXCEPT !.mode = "Rfc793"], local, remote, iss)
       IN  /\ NewEntry(p)
           /\ pcbs' = [pcbs EXCEPT ![p] = s]
           /\ out' = {Reply(s, {"SYN"}, iss, <<>>)}
           /\ call' = Waiting("open", p)
  /\ UNCHANGED <<chan, handles, phase>>

(* Without a remote the block keeps the one of its previous connection. *)
PassiveOpen(local) ==
  /\ Calling("passive")
  /\ \E p \in Pcbs :
       /\ NewEntry(p)
       /\ pcbs' = [pcbs EXCEPT ![p].mode = "Rfc793", ![p].local = local,
                               ![p].state = "Listen"]
       /\ call' = Waiting("open", p)
  /\ out' = {}
  /\ UNCHANGED <<chan, handles, phase>>

(* The wait of rfc793_open. *)
OpenWakes ==
  LET p == call.pcb
      s == pcbs[p].state
  IN  /\ phase # "panic" /\ call.pc = "open" /\ chan # <<>>
      /\ out' = {}
      /\ \/ /\ s = "Established"
            /\ handles' = handles \union {p}
            /\ Return
            /\ UNCHANGED pcbs
         \/ /\ s # "Established" /\ (Head(chan) => s # "SynReceived")
            /\ pcbs' = [pcbs EXCEPT ![p] = Release(@)]
            /\ Return
            /\ UNCHANGED handles
         \/ /\ s = "SynReceived" /\ Head(chan)
            /\ chan' = Tail(chan)
            /\ UNCHANGED <<pcbs, call, handles>>
      /\ UNCHANGED phase

SocketOpen ==
  /\ Calling("open")
  /\ \E p \in Pcbs :
       /\ NewEntry(p)
       /\ pcbs' = [pcbs EXCEPT ![p].state = "Closed", ![p].mode = "Socket"]
       /\ handles' = handles \union {p}
  /\ out' = {}
  /\ UNCHANGED <<call, chan, phase>>

BindInUse(local) == \E q \in Pcbs : LocalMatch(pcbs[q], local)

Bind(p, local) ==
  /\ Calling("bind") /\ pcbs[p].mode = "Socket"
  /\ ~BindInUse(local)
  /\ pcbs' = [pcbs EXCEPT ![p].local = local]
  /\ out' = {}
  /\ UNCHANGED <<call, chan, handles, phase>>

Listen(p) ==
  /\ Calling("listen") /\ pcbs[p].mode = "Socket"
  /\ pcbs' = [pcbs EXCEPT ![p].state = "Listen"]
  /\ out' = {}
  /\ UNCHANGED <<call, chan, handles, phase>>

(* The first port nobody matches, or the last one tried. *)
DynamicPort(port, remote) ==
  LET taken(k) == ~Unmatched([addr |-> Me, port |-> k], remote)
  IN  /\ port \in DynLo..DynHi
      /\ \A k \in DynLo..(port - 1) : taken(k)
      /\ port = DynHi \/ ~taken(port)

(* A bound port goes through le_to_be_u16 once more; the state of the block *)
(* is not looked at.  The table is locked three times on the way to the SYN *)
(* with the device held throughout: only close_sockets could come between   *)
(* and it might as well have come before, so the steps are one action.      *)
Connect(p, remote) ==
  /\ Calling("connect") /\ pcbs[p].mode = "Socket"
  /\ \E port \in Ports, iss \in InitialSeqs :
       LET old == pcbs[p].local
           local == [addr |-> IF old.addr = AnyAddr THEN Me ELSE old.addr,
                     port |-> port]
           s == ActiveSyn(pcbs[p], local, remote, iss)
       IN  /\ IF Swap[old.port] = 0 THEN DynamicPort(port, remote)
              ELSE port = Swap[old.port]
           /\ pcbs' = [pcbs EXCEPT ![p] = s]
           /\ out' = {Reply(s, {"SYN"}, iss, <<>>)}
  /\ call' = Waiting("connect", p)
  /\ UNCHANGED <<chan, handles, phase>>

ConnectWakes ==
  LET p == call.pcb
      s == pcbs[p].state
      stays == Head(chan) /\ s = "SynReceived"
  IN  /\ phase # "panic" /\ call.pc = "connect" /\ chan # <<>>
      /\ call' = IF stays THEN call ELSE Idle
      /\ chan' = IF stays THEN Tail(chan) ELSE <<>>
      /\ pcbs' = IF Head(chan) /\ s \in {"Established", "SynReceived"}
                 THEN pcbs ELSE [pcbs EXCEPT ![p].state = "Closed"]
      /\ out' = {}
      /\ UNCHANGED <<handles, phase>>

(* Mutant: a wakeup throws the whole backlog away. *)
RestOfNone(backlog) == <<>>

(* accept returns at once when the backlog is empty; otherwise it takes the *)
(* first entry and waits for one more connection to be announced.           *)
FirstOf(backlog) == IF backlog = <<>> THEN NoPcb ELSE Head(backlog)
RestOf(backlog) == IF backlog = <<>> THEN <<>> ELSE Tail(backlog)

Accept(p) ==
  /\ Calling("accept")
  /\ pcbs[p].mode = "Socket" /\ pcbs[p].state = "Listen"
  /\ pcbs[p].backlog # <<>>
  /\ pcbs' = [pcbs EXCEPT ![p].backlog = Tail(@)]
  /\ call' = [Waiting("accept", p) EXCEPT !.next = Head(pcbs[p].backlog)]
  /\ out' = {}
  /\ UNCHANGED <<chan, handles, phase>>

AcceptWakes ==
  LET p == call.pcb
      next == FirstOf(pcbs[p].backlog)
  IN  /\ phase # "panic" /\ call.pc = "accept" /\ chan # <<>>
      /\ IF ~Head(chan) \/ pcbs[p].state = "Closed"
         THEN Return /\ UNCHANGED <<pcbs, handles>>
         ELSE /\ pcbs' = [pcbs EXCEPT ![p].backlog = RestOf(@)]
              /\ IF next = NoPcb
                 THEN Return /\ handles' = handles \union {call.next}
                 ELSE /\ call' = [call EXCEPT !.got = call.next, !.next = next]
                      /\ chan' = Tail(chan)
                      /\ UNCHANGED handles
      /\ out' = {}
      /\ UNCHANGED phase

-----------------------------------------------------------------------------
(* Calls of the application: data *)

Capacity(p) == pcbs[p].sndWnd - (pcbs[p].sndNext - pcbs[p].sndUna)

(* send looks at the block once and then works on that snapshot until it    *)
(* has sent everything or has to wait.                                      *)
SendFrom(p, data) ==
  IF pcbs[p].state \in {"Established", "CloseWait"}
  THEN [Waiting(IF Capacity(p) < 1 THEN "sendwait" ELSE "sending", p)
          EXCEPT !.data = data, !.n = Capacity(p)]
  ELSE Idle

SendStarts(p, data) ==
  /\ Calling("send")
  /\ pcbs[p].state \in {"Established", "CloseWait"} => Capacity(p) >= 0
  /\ call' = SendFrom(p, data)
  /\ out' = {}
  /\ UNCHANGED <<pcbs, chan, handles, phase>>

(* All the remaining data goes out, sndNext moves over send_len of it. *)
SendSegment ==
  LET p == call.pcb
      len == Min({Mss, Len(call.data), call.n})
      rest == SubSeq(call.data, len + 1, Len(call.data))
  IN  /\ phase # "panic" /\ call.pc = "sending"
      /\ pcbs[p].sndNext + len <= SeqMax
      /\ pcbs' = [pcbs EXCEPT ![p] = WithData(pcbs[p], call.data, len)]
      /\ out' = {Reply(pcbs[p], {"ACK", "PSH"}, pcbs[p].sndNext, call.data)}
      /\ IF rest = <<>> THEN Return
         ELSE call' = [call EXCEPT !.data = rest] /\ UNCHANGED chan
      /\ UNCHANGED <<handles, phase>>

SendWakes ==
  /\ phase # "panic" /\ call.pc = "sendwait" /\ chan # <<>>
  /\ Head(chan) /\ pcbs[call.pcb].state \in {"Established", "CloseWait"} =>
       Capacity(call.pcb) >= 0
  /\ call' = IF Head(chan) THEN SendFrom(call.pcb, call.data) ELSE Idle
  /\ chan' = IF call'.pc = "idle" THEN <<>> ELSE Tail(chan)
  /\ out' = {}
  /\ UNCHANGED <<pcbs, handles, phase>>

(* What receive does with the state and window it has read: return, wait,   *)
(* copy at most lim bytes, or loop without reading them again.              *)
ReceiveFrom(p, size, woken) ==
  LET s == pcbs[p].state
      wnd == pcbs[p].rcvWnd
      lim == IF woken \/ (s = "CloseWait" /\ BufLen > wnd)
             THEN Min({size, BufLen - wnd}) ELSE size
      pc == CASE s \in TextStates -> IF wnd >= BufLen THEN "recvwait" ELSE "recvcopy"
              [] s = "CloseWait" -> "recvcopy"
              [] s \in {"Closed", "Listen", "SynSent", "SynReceived"} -> "idle"
              [] OTHER -> "spin"
  IN  CASE pc = "idle" -> Idle
        [] pc = "recvcopy" -> [Waiting(pc, p) EXCEPT !.n = lim]
        [] OTHER -> [Waiting(pc, p) EXCEPT !.n = size]

ReceiveStarts(p, size) ==
  /\ Calling("receive")
  /\ call' = ReceiveFrom(p, size, FALSE)
  /\ out' = {}
  /\ UNCHANGED <<pcbs, chan, handles, phase>>

ReceiveWakes ==
  /\ phase # "panic" /\ call.pc = "recvwait" /\ chan # <<>>
  /\ call' = IF Head(chan) THEN ReceiveFrom(call.pcb, call.n, TRUE) ELSE Idle
  /\ chan' = IF call'.pc = "idle" THEN <<>> ELSE Tail(chan)
  /\ out' = {}
  /\ UNCHANGED <<pcbs, handles, phase>>

ReceiveCopies ==
  LET p == call.pcb
      len == Min({Len(pcbs[p].buf), call.n})
  IN  /\ phase # "panic" /\ call.pc = "recvcopy"
      /\ pcbs[p].rcvWnd + len <= BufLen
      /\ pcbs' = [pcbs EXCEPT
                    ![p].buf = SubSeq(@, len + 1, Len(@)),
                    ![p].rcvWnd = @ + len]
      /\ Return
      /\ out' = {}
      /\ UNCHANGED <<handles, phase>>

-----------------------------------------------------------------------------
(* Ending *)

Close(p) ==
  /\ Calling("close")
  /\ out' = {Reply(pcbs[p], {"RST"}, pcbs[p].sndNext, <<>>)}
  /\ pcbs' = [pcbs EXCEPT ![p] = Release(@)]
  /\ UNCHANGED <<call, chan, handles, phase>>

(* A TERM signal: the signal thread leaves its loop and releases all blocks. *)
CloseSockets ==
  /\ phase = "running"
  /\ phase' = "closing"
  /\ pcbs' = [p \in Pcbs |-> Release(pcbs[p])]
  /\ chan' = chan \o Token(call.pcb, FALSE)
  /\ out' = {}
  /\ UNCHANGED <<call, handles>>

(* The panics of the calls: a call on a block it cannot work on, a bind to  *)
(* a local endpoint in use, no free block.                                  *)
CallPanics ==
  /\ \/ /\ \E name \in {"active", "passive", "open"} : Calling(name)
        /\ TableFull
     \/ /\ \E name \in {"connect", "bind", "listen", "accept"} : Calling(name)
        /\ \E p \in handles : pcbs[p].mode # "Socket"
     \/ Calling("accept") /\ \E p \in handles : pcbs[p].state # "Listen"
     \/ Calling("bind") /\ handles # {} /\ \E local \in Locals : BindInUse(local)
  /\ Panic

(* The panics of a data transfer: more in flight than the window allows,    *)
(* sndNext or the window beyond its type, a frame larger than its buffer.   *)
TransferPanics ==
  /\ phase # "panic"
  /\ LET p == call.pcb
     IN \/ /\ Calling("send")
           /\ \E q \in handles : /\ pcbs[q].state \in {"Established", "CloseWait"}
                                 /\ Capacity(q) < 0
        \/ /\ call.pc = "sending"
           /\ \/ pcbs[p].sndNext + Min({Mss, Len(call.data), call.n}) > SeqMax
              \/ Len(call.data) > Mss
        \/ /\ call.pc = "recvcopy"
           /\ pcbs[p].rcvWnd + Min({Len(pcbs[p].buf), call.n}) > BufLen
  /\ Panic

Calls ==
  \/ \E local \in Locals : \/ PassiveOpen(local)
                           \/ \E remote \in Remotes : ActiveOpen(local, remote)
                           \/ \E p \in handles : Bind(p, local)
  \/ SocketOpen
  \/ \E p \in handles : \/ Listen(p)
                        \/ Accept(p)
                        \/ Close(p)
                        \/ \E remote \in Remotes : Connect(p, remote)
                        \/ \E data \in Payloads : SendStarts(p, data)
                        \/ \E size \in Sizes : ReceiveStarts(p, size)
  \/ CallPanics

CallSteps ==
  \/ OpenWakes
  \/ ConnectWakes
  \/ AcceptWakes
  \/ SendSegment
  \/ SendWakes
  \/ ReceiveWakes
  \/ ReceiveCopies
  \/ TransferPanics

Next ==
  \/ SegmentArrives
  \/ InputPanics
  \/ Retransmit
  \/ RetryIntervalPasses
  \/ TimeoutPasses
  \/ Calls
  \/ CallSteps
  \/ CloseSockets

Spec == Init /\ [][Next]_vars

-----------------------------------------------------------------------------
(* Invariants *)

(* No block is ever in one of the states that follow a FIN of this side:    *)
(* close() sends a RST and frees the block, nothing sends a FIN.  So        *)
(* retransmit never reaches wait_time.unwrap() and receive never loops on a *)
(* closing connection.                                                      *)
NeverHalfClosed == \A p \in Pcbs : pcbs[p].state \notin HalfClosed

(* The send sequence space of a connection: iss <= una <= next, with the    *)
(* SYN counted in, and una still at iss while the SYN is unanswered.  On it *)
(* rest the unsigned subtraction next - una of send() and the ack checks of *)
(* segment_arrives, which compare without wrap-around.                      *)
SendSpace ==
  \A p \in Pcbs :
    LET c == pcbs[p]
    IN  /\ c.state \in Connecting =>
             c.iss <= c.sndUna /\ c.sndUna <= c.sndNext /\ c.iss < c.sndNext
        /\ c.state = "SynSent" => c.sndUna = c.iss /\ c.sndNext = c.iss + 1

(* The queue of a connection opened by rfc793_open holds entries of that    *)
(* connection only, in the order of their sequence numbers, none of them    *)
(* beyond next: what clean_data_queue relies on when it stops at the first  *)
(* entry that is not before una.  After a TERM signal send() may still      *)
(* queue data on a block that close_sockets has freed.                      *)
QueueOrdered ==
  phase = "running" =>
    \A p \in Pcbs :
      LET c == pcbs[p]
      IN  c.mode = "Rfc793" =>
            /\ c.state = "Free" => c.queue = <<>>
            /\ \A i \in DOMAIN c.queue :
                 /\ c.iss <= c.queue[i].seq /\ c.queue[i].seq < c.sndNext
                 /\ \A j \in 1..i : c.queue[j].seq <= c.queue[i].seq

(* A call that sleeps with no token in its channel has nothing to do:       *)
(* rfc793_open's connection is still being set up, and receive's is         *)
(* established with nothing taken from the window.  Both calls read the     *)
(* block and sleep later, without the lock.                                 *)
NoLostWakeup ==
  chan = <<>> =>
    LET c == pcbs[call.pcb]
    IN  /\ call.pc = "open" => c.state \in {"Listen", "SynSent", "SynReceived"}
        /\ call.pc = "recvwait" => c.state \in TextStates /\ c.rcvWnd = BufLen

(* connect() sleeps with the device mutex in its caller's hands, so the     *)
(* answer to its SYN is never processed: until the TERM signal frees the    *)
(* block it stays in SYN-SENT and its channel stays empty, whatever the     *)
(* peer answers.                                                            *)
ConnectStarves ==
  call.pc = "connect" /\ phase = "running" =>
    pcbs[call.pcb].state = "SynSent" /\ chan = <<>>

(* send() with a full window sleeps the same way, with the devices and      *)
(* contexts mutexes of tcp_send_command: no acknowledgment that would open  *)
(* the window, and no reset or timeout, reaches the block it waits for.     *)
SendStarves ==
  call.pc = "sendwait" /\ phase = "running" =>
    /\ pcbs[call.pcb].state \in {"Established", "CloseWait"}
    /\ Capacity(call.pcb) < 1
    /\ chan = <<>>

(* accept() returns a connection only when it finds the backlog empty after *)
(* a wakeup, but every wakeup comes with an entry: as long as the listener  *)
(* is there, accept() never returns one.                                    *)
AcceptStarves ==
  call.pc = "accept" /\ pcbs[call.pcb].state = "Listen" =>
    Cardinality({i \in DOMAIN chan : chan[i]}) <= Len(pcbs[call.pcb].backlog)

-----------------------------------------------------------------------------
(* Action properties *)

Advances(c, d) ==
  {c.state, d.state} \subseteq {"Established", "CloseWait"} =>
    /\ c.sndUna <= d.sndUna /\ c.sndNext <= d.sndNext
    /\ d.sndUna <= c.sndNext

(* Acknowledgments are never taken back and never run ahead: while a        *)
(* connection lasts, una and next only grow and una moves to a value that   *)
(* had been sent.                                                           *)
AckMonotone == [][\A p \in Pcbs : Advances(pcbs[p], pcbs'[p])]_vars

KeepsReceived(c, d) ==
  c.state = "Established" /\ d.state = "Established" => c.rcvNext <= d.rcvNext

(* What has been acknowledged to the peer is not asked for again: while a   *)
(* connection stays established rcv.next never moves back, whatever old,    *)
(* repeated, overlapping or malformed segments arrive.  The text stage sets *)
(* it from the segment alone; that it grows rests on the acceptance test.   *)
ReceiveMonotone == [][\A p \in Pcbs : KeepsReceived(pcbs[p], pcbs'[p])]_vars

-----------------------------------------------------------------------------
(* What comments of tcp.rs say and the code does not do *)

(* "the segment is the idealized segment that begins at RCV.NXT": rcvNext   *)
(* moves over exactly the bytes that went into the buffer.                  *)
TextInOrder ==
  [][\A p \in Pcbs :
       LET c == pcbs[p]
           d == pcbs'[p]
       IN  c.state = "Established" /\ d.state = "Established"
           /\ Len(d.buf) > Len(c.buf) =>
             d.rcvNext - c.rcvNext = Len(d.buf) - Len(c.buf)]_vars

(* "elapsed errors when time is before now" (retransmit): a segment is sent *)
(* again only after its retry interval.                                     *)
RetransmitAfterInterval ==
  [][Retransmit =>
       \A p \in Pcbs : \A i \in DOMAIN pcbs[p].queue :
         pcbs[p].queue[i].age = "fresh" =>
           Reply(pcbs[p], pcbs[p].queue[i].flags, pcbs[p].queue[i].seq,
                 pcbs[p].queue[i].data) \notin out']_vars
=============================================================================
