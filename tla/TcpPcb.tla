------------------------------- MODULE TcpPcb -------------------------------
(***************************************************************************)
(* One protocol control block (struct TcpPcb) of protocols/ip/tcp.rs and    *)
(* the functions that work on a single block: the retransmission queue, the *)
(* acceptance test, and the ACK, text and FIN stages of segment_arrives.    *)
(*                                                                          *)
(* Left out of the record because no code reads them: irs, mtu, mss,        *)
(* urg_ptr and the value of wait_time.  The sender half of the block's      *)
(* channel is modelled in module Tcp.  The program is the debug build of    *)
(* the README: arithmetic that leaves its integer type panics.              *)
(***************************************************************************)
EXTENDS Integers, Sequences, FiniteSets, SequencesExt

CONSTANTS
  N,            \* TCP_PCB_COUNT
  SeqMax,       \* u32::MAX, the last sequence number
  BufLen,       \* PCB_BUF_LEN, which is also u16::MAX, the largest window
  InitialSeqs,  \* what gen_range(0..u32::MAX) may return
  AnyAddr,      \* IP_ADDR_ANY
  Addrs,        \* the other addresses
  Ports,        \* the ports in use; 0 is the port that is not set
  Bytes,        \* the values of a data byte
  Segments      \* the segments that may arrive

ASSUME TableAssumption == N \in Nat \ {0}
ASSUME SeqAssumption == SeqMax \in Nat /\ InitialSeqs \subseteq 0..(SeqMax - 1)
ASSUME BufAssumption == BufLen \in Nat \ {0}
ASSUME PortAssumption == Ports \subseteq Nat

Pcbs == 0..(N - 1)
NoPcb == -1
SeqNum == 0..SeqMax
Window == 0..BufLen
Endpoint == [addr : Addrs \union {AnyAddr}, port : Ports \union {0}]
Unset == [addr |-> AnyAddr, port |-> 0]

(* URG is never read. *)
Flag == {"SYN", "ACK", "FIN", "RST", "PSH"}

States ==
  {"Free", "Closed", "Listen", "SynSent", "SynReceived", "Established",
   "FinWait1", "FinWait2", "Closing", "TimeWait", "CloseWait", "LastAck"}
(* The states whose sequence number check the code runs ... *)
Synchronised ==
  {"SynReceived", "Established", "FinWait1", "FinWait2", "CloseWait",
   "Closing", "LastAck", "TimeWait"}
(* ... those in which every acceptable segment releases the block ... *)
Final == {"Closing", "LastAck", "TimeWait"}
(* ... and those in which segment text is taken. *)
TextStates == {"Established", "FinWait1", "FinWait2"}
(* For the properties: this side has sent a FIN, or has a connection. *)
HalfClosed == {"FinWait1", "FinWait2", "Closing", "LastAck", "TimeWait"}
Connecting == {"SynSent", "SynReceived", "Established", "CloseWait"}

(* An entry's age stands for its two time stamps: fresh before the retry    *)
(* interval has passed, due after it, expired after the 12 s timeout.       *)
Ages == {"fresh", "due", "expired"}
Entry == [seq : SeqNum, flags : SUBSET Flag, data : Seq(Bytes), age : Ages]

(* A segment as input() hands it over: data are the bytes after the first   *)
(* 20, len is what the data offset of the header leaves of its length.      *)
(* With options len is less than the bytes of data; input() does not check  *)
(* the offset from below, so with one under five it is more.                *)
Segment ==
  [src : Endpoint, dst : Endpoint, flags : SUBSET Flag, seq : SeqNum,
   ack : SeqNum, window : Window, data : Seq(Bytes), len : Nat]

Pcb ==
  [state : States, mode : {"NotSet", "Rfc793", "Socket"},
   local : Endpoint, remote : Endpoint,
   iss : SeqNum, sndNext : SeqNum, sndUna : SeqNum, sndWnd : Window,
   wl1 : SeqNum, wl2 : SeqNum, rcvNext : SeqNum, rcvWnd : Window,
   buf : Seq(Bytes), queue : Seq(Entry),
   parent : Pcbs \union {NoPcb}, backlog : Seq(Pcbs)]

NewPcb ==
  [state |-> "Free", mode |-> "NotSet", local |-> Unset, remote |-> Unset,
   iss |-> 0, sndNext |-> 0, sndUna |-> 0, sndWnd |-> 0, wl1 |-> 0,
   wl2 |-> 0, rcvNext |-> 0, rcvWnd |-> 0, buf |-> <<>>, queue |-> <<>>,
   parent |-> NoPcb, backlog |-> <<>>]

-----------------------------------------------------------------------------
(* Segments out *)

Reply(p, flags, seq, data) ==
  [src |-> p.local, dst |-> p.remote, flags |-> flags, seq |-> seq,
   ack |-> p.rcvNext, window |-> p.rcvWnd, data |-> data,
   len |-> Len(data)]

AckReply(p) == Reply(p, {"ACK"}, p.sndNext, <<>>)

(* The resets sent without a connection: the offending segment's endpoints  *)
(* swapped, window 0.                                                       *)
ResetReply(seg, flags, seq, ack) ==
  [src |-> seg.dst, dst |-> seg.src, flags |-> flags, seq |-> seq,
   ack |-> ack, window |-> 0, data |-> <<>>, len |-> 0]

AckReset(seg) == ResetReply(seg, {"RST"}, seg.ack, 0)

(* SYN and FIN count for one each. *)
SegLen(seg) == seg.len + Cardinality(seg.flags \intersect {"SYN", "FIN"})

-----------------------------------------------------------------------------
(* The retransmission queue and the end of a connection *)

AddDataQueue(p, seq, flags, data) ==
  [p EXCEPT !.queue = Append(@, [seq |-> seq, flags |-> flags,
                                 data |-> data, age |-> "fresh"])]

(* Of the entries at the head that are before una, the last one is removed. *)
CleanDataQueue(p) ==
  LET acked == {i \in DOMAIN p.queue : \A j \in 1..i : p.queue[j].seq < p.sndUna}
  IN  IF acked = {} THEN p
      ELSE [p EXCEPT !.queue = RemoveAt(@, Cardinality(acked))]

(* Mutant: the queue is not cleared. *)
ReleaseKeepsQueue(p) == [p EXCEPT !.state = "Free", !.backlog = <<>>]

(* Endpoints, sequence numbers, buffer, mode and parent stay behind. *)
Release(p) == [p EXCEPT !.state = "Free", !.queue = <<>>, !.backlog = <<>>]

-----------------------------------------------------------------------------
(* Matching a segment, or an address to bind, with a block *)

LocalMatch(p, local) ==
  p.local.addr \in {AnyAddr, local.addr} /\ p.local.port = local.port

ExactMatch(p, local, remote) ==
  LocalMatch(p, local) /\ p.remote.addr = remote.addr

ListenMatch(p, local) ==
  LocalMatch(p, local) /\ p.state = "Listen" /\ p.remote = Unset

-----------------------------------------------------------------------------
(* Starting a connection: a SYN goes out with sequence number iss *)

WithSyn(p, flags, iss) ==
  [AddDataQueue(p, iss, flags, <<>>) EXCEPT
     !.iss = iss, !.sndUna = iss, !.sndNext = iss + 1]

(* Data goes out; sndNext moves over the first len bytes. *)
WithData(p, data, len) ==
  [AddDataQueue(p, p.sndNext, {"ACK", "PSH"}, data) EXCEPT
     !.sndNext = p.sndNext + len]

ActiveSyn(p, local, remote, iss) ==
  [WithSyn(p, {"SYN"}, iss) EXCEPT
     !.local = local, !.remote = remote, !.rcvWnd = BufLen,
     !.state = "SynSent"]

PassiveSyn(p, seg, iss) ==
  [WithSyn(p, {"SYN", "ACK"}, iss) EXCEPT
     !.local = seg.dst, !.remote = seg.src, !.rcvWnd = BufLen,
     !.rcvNext = seg.seq + 1, !.state = "SynReceived"]

-----------------------------------------------------------------------------
(* segment_arrives, SYN-SENT *)

BadSynSentAck(p, seg) ==
  "ACK" \in seg.flags /\ (seg.ack <= p.iss \/ seg.ack > p.sndNext)

GoodSynSentAck(p, seg) == "ACK" \in seg.flags /\ ~BadSynSentAck(p, seg)

(* The peer's SYN: established when our SYN is acknowledged by it or was    *)
(* before, otherwise a simultaneous open that repeats our SYN.              *)
SynSentSyn(p, seg) ==
  LET q == [p EXCEPT !.rcvNext = seg.seq + 1]
      acked == IF GoodSynSentAck(p, seg)
               THEN CleanDataQueue([q EXCEPT !.sndUna = seg.ack]) ELSE q
  IN  IF acked.sndUna > acked.iss
      THEN [acked EXCEPT !.state = "Established", !.sndWnd = seg.window,
                         !.wl1 = seg.seq, !.wl2 = seg.ack]
      ELSE [AddDataQueue(acked, p.iss, {"SYN", "ACK"}, <<>>)
              EXCEPT !.state = "SynReceived"]

-----------------------------------------------------------------------------
(* segment_arrives, the synchronised states *)

WindowEnd(p) == p.rcvNext + p.rcvWnd

(* Mutant: what came before the window is taken again. *)
BelowWindowEnd(p, n) == n < WindowEnd(p)

InWindow(p, n) == p.rcvNext <= n /\ n < WindowEnd(p)

Acceptable(p, seg) ==
  IF p.rcvWnd < 1
  THEN SegLen(seg) < 1 /\ seg.seq = p.rcvNext
  ELSE \/ InWindow(p, seg.seq)
       \/ SegLen(seg) > 0 /\ InWindow(p, seg.seq + SegLen(seg) - 1)

(* u32 sums of the acceptance test, evaluated left to right. *)
AcceptanceOverflows(p, seg) ==
  LET len == SegLen(seg)
  IN  /\ p.rcvWnd > 0
      /\ \/ p.rcvNext <= seg.seq /\ WindowEnd(p) > SeqMax
         \/ /\ len > 0 /\ ~InWindow(p, seg.seq)
            /\ \/ seg.seq + len > SeqMax
               \/ p.rcvNext < seg.seq + len /\ WindowEnd(p) > SeqMax

(* The first two checks pass: in the window, no RST, no SYN, not final.  A  *)
(* released block that still matches skips both.                            *)
Passes(p, seg) ==
  \/ p.state = "Free"
  \/ /\ p.state \in Synchronised \ Final
     /\ ~AcceptanceOverflows(p, seg) /\ Acceptable(p, seg)
     /\ seg.flags \intersect {"RST", "SYN"} = {}

(* Mutant: nobody looks whether the acknowledged data was sent. *)
AckAnything(p, seg) == p.state = "SynReceived" => p.sndUna <= seg.ack

(* The third check, on the acknowledgment. *)
AckInRange(p, seg) ==
  CASE p.state = "Free" -> TRUE
    [] p.state = "SynReceived" -> p.sndUna <= seg.ack /\ seg.ack <= p.sndNext
    [] OTHER -> seg.ack <= p.sndNext

Processed(p, seg) ==
  Passes(p, seg) /\ "ACK" \in seg.flags /\ AckInRange(p, seg)

(* Mutant: an old acknowledgment is taken too. *)
AckStepBackwards(p, seg) ==
  IF p.state = "SynReceived" THEN [p EXCEPT !.state = "Established"]
  ELSE IF p.state = "Free" THEN p
  ELSE CleanDataQueue([p EXCEPT !.sndUna = seg.ack])

AckStep(p, seg) ==
  IF p.state = "SynReceived" THEN [p EXCEPT !.state = "Established"]
  ELSE IF p.state = "Free" \/ seg.ack <= p.sndUna THEN p
  ELSE LET q == CleanDataQueue([p EXCEPT !.sndUna = seg.ack])
       IN  IF \/ p.wl1 < seg.seq
              \/ p.wl1 = seg.seq /\ p.wl2 <= seg.ack
           THEN [q EXCEPT !.sndWnd = seg.window, !.wl1 = seg.seq,
                          !.wl2 = seg.ack]
           ELSE q

(* Text is taken when the state before the segment was one of TextStates. *)
HasText(p, seg) == p.state \in TextStates /\ seg.len > 0

(* The bytes after the 20 byte header are appended, the options too.  The   *)
(* window shrinks by what the data offset leaves.                           *)
TextStep(p, seg) ==
  [p EXCEPT !.buf = @ \o seg.data,
            !.rcvNext = seg.seq + SegLen(seg),
            !.rcvWnd = @ - seg.len]

(* Mutant: the sides of the close are mixed up. *)
FinStateOfCloser(p, seg) ==
  IF p.state \in {"SynReceived", "Established"} THEN "Closing" ELSE p.state

FinState(p, seg) ==
  CASE p.state \in {"SynReceived", "Established"} -> "CloseWait"
    [] p.state = "FinWait1" ->
         IF seg.ack = p.sndNext THEN "TimeWait" ELSE "Closing"
    [] p.state = "FinWait2" -> "TimeWait"
    [] OTHER -> p.state

FinStep(p, seg) ==
  [p EXCEPT !.rcvNext = seg.seq + 1, !.state = FinState(p, seg)]

(* What a processed segment leaves of the block, before and after FIN. *)
AfterText(p, seg) ==
  IF HasText(p, seg) THEN TextStep(AckStep(p, seg), seg) ELSE AckStep(p, seg)
AfterFin(p, seg) ==
  IF "FIN" \in seg.flags THEN FinStep(AfterText(p, seg), seg)
  ELSE AfterText(p, seg)

(* Mutant: text beyond the window is not noticed. *)
OverflowsInSeq(p, seg) ==
  \/ HasText(p, seg) /\ seg.seq + SegLen(seg) > SeqMax
  \/ "FIN" \in seg.flags /\ seg.seq = SeqMax

(* The u32 and u16 sums of those two stages. *)
ProcessingOverflows(p, seg) ==
  \/ HasText(p, seg) /\ seg.seq + SegLen(seg) > SeqMax
  \/ HasText(p, seg) /\ p.rcvWnd < seg.len
  \/ "FIN" \in seg.flags /\ seg.seq = SeqMax

-----------------------------------------------------------------------------
(* retransmit, for one block *)

Expired(p) == \E i \in DOMAIN p.queue : p.queue[i].age = "expired"

(* The whole queue is popped.  An entry is sent again when its retry        *)
(* interval has NOT passed (elapsed() fails on a time still to come).       *)
AfterRetransmit(p) ==
  IF p.state = "Free" THEN p
  ELSE IF p.state = "TimeWait" \/ Expired(p) THEN Release(p)
  ELSE [p EXCEPT !.queue = <<>>]

Resent(p) ==
  IF p.state \in {"Free", "TimeWait"} THEN {}
  ELSE {Reply(p, p.queue[i].flags, p.queue[i].seq, p.queue[i].data) :
          i \in {k \in DOMAIN p.queue :
                   /\ p.queue[k].age = "fresh"
                   /\ \A j \in 1..k : p.queue[j].age # "expired"}}

(* Time passes for every entry. *)
Aged(p, ages) ==
  [p EXCEPT !.queue = [i \in DOMAIN p.queue |->
                         [p.queue[i] EXCEPT !.age = ages[p.queue[i].age]]]]
=============================================================================
