----------------------------- MODULE TcpProofs -----------------------------
(***************************************************************************)
(* The invariants of module Tcp, for any number of blocks, any segments and *)
(* any bounds.  IInv is inductive; each action has its own lemma.           *)
(***************************************************************************)
EXTENDS Tcp, TcpPcbProofs

TableOK == pcbs \in [Pcbs -> Pcb] /\ \A p \in Pcbs : PcbOK(pcbs[p])
CallOK ==
  /\ call \in Call
  /\ call.pc # "idle" => call.pcb \in Pcbs
  /\ call.pc = "idle" => chan = <<>>
  /\ call.pc = "accept" => call.next \in Pcbs
  /\ chan \in Seq(BOOLEAN)
  /\ handles \subseteq Pcbs
  /\ phase \in {"running", "closing", "panic"}
OutOK == out \subseteq Segment
(* A transfer that send() is in the middle of has its connection, or lost   *)
(* it to close_sockets.                                                     *)
SendingOK ==
  call.pc = "sending" =>
    pcbs[call.pcb].state \in {"Established", "CloseWait", "Free"}
WaitOK == NoLostWakeup /\ ConnectStarves /\ SendingOK

IInv == TableOK /\ CallOK /\ OutOK /\ WaitOK

(* What a connection's window lacks is in its buffer, so receive(), which   *)
(* looks at the window, finds a byte to return.  The text stage breaks this *)
(* for a data offset below five: it takes bytes from the window that never  *)
(* arrived.                                                                 *)
WindowCoversBuffer ==
  \A p \in Pcbs : pcbs[p].state \in Connecting =>
                    pcbs[p].rcvWnd + Len(pcbs[p].buf) >= BufLen

(* What follows from the inductive invariant. *)
LEMMA IInvImplies ==
  ASSUME IInv
  PROVE  /\ TypeOK /\ NeverHalfClosed /\ SendSpace
         /\ WholeText => WindowCoversBuffer
<1>1. TypeOK
  BY DEF IInv, TableOK, CallOK, OutOK, TypeOK
<1>2. NeverHalfClosed /\ SendSpace /\ (WholeText => WindowCoversBuffer)
  BY DEF IInv, TableOK, PcbOK, SpaceOK, NeverHalfClosed, SendSpace,
         WindowCoversBuffer
<1> QED
  BY <1>1, <1>2

(* The table that TcpPcbs::new() builds, with no call and no token. *)
LEMMA InitOK ==
  ASSUME Init
  PROVE  IInv
<1>1. TableOK
  BY NewPcbOK DEF Init, TableOK, PcbOK
<1>2. CallOK /\ OutOK /\ WaitOK
  BY EmptySeq
     DEF Init, CallOK, OutOK, WaitOK, NoLostWakeup, ConnectStarves,
         SendingOK, Call,
         CallPc, Idle
<1> QED
  BY <1>1, <1>2 DEF IInv

-----------------------------------------------------------------------------
(* Tokens *)

(* A token is a sequence of at most one Boolean. *)
LEMMA TokenType ==
  ASSUME NEW q, NEW go \in BOOLEAN
  PROVE  Token(q, go) \in Seq(BOOLEAN)
<1>1. <<go>> \in Seq(BOOLEAN)
  OBVIOUS
<1> QED
  BY <1>1, EmptySeq DEF Token

(* No token: the sender of the block is not the current call's. *)
LEMMA TokenEmpty ==
  ASSUME NEW q, NEW go, Token(q, go) = <<>>
  PROVE  call.pc = "idle" \/ call.pcb # q
BY DEF Token

(* A channel that is empty after a send was empty before. *)
LEMMA ConcatEmpty ==
  ASSUME NEW S, NEW s \in Seq(S), NEW t \in Seq(S), s \o t = <<>>
  PROVE  s = <<>> /\ t = <<>>
BY ConcatProperties, EmptySeq, LenProperties

(* With no call in progress no receiver is alive. *)
LEMMA NoTokenWhenIdle ==
  ASSUME NEW q, NEW go, call.pc = "idle"
  PROVE  Token(q, go) = <<>>
BY DEF Token

(* A block changes and, when the change matters to a sleeping call, a token *)
(* goes through it.                                                         *)
LEMMA WakingStep ==
  ASSUME IInv, NEW p \in Pcbs, NEW s, PcbOK(s), NEW go \in BOOLEAN,
         ~DeviceHeld,
         pcbs' = [pcbs EXCEPT ![p] = s],
         chan' = chan \o Token(p, go),
         OutOK',
         UNCHANGED <<call, handles, phase>>
  PROVE  IInv'
<1>1. TableOK'
  BY DEF IInv, TableOK, PcbOK
<1>2. chan \in Seq(BOOLEAN) /\ Token(p, go) \in Seq(BOOLEAN)
  BY TokenType DEF IInv, CallOK
<1>3. chan' \in Seq(BOOLEAN)
  BY <1>2, ConcatProperties
<1>4. CallOK'
  <2>1. call.pc = "idle" => chan' = <<>>
    BY <1>2, NoTokenWhenIdle, ConcatEmptySeq DEF IInv, CallOK
  <2> QED
    BY <1>3, <2>1 DEF IInv, CallOK
<1>5. NoLostWakeup'
  <2> SUFFICES ASSUME chan' = <<>>, call.pc # "idle"
               PROVE  NoLostWakeup'
    BY DEF NoLostWakeup
  <2>1. chan = <<>> /\ Token(p, go) = <<>>
    BY <1>2, ConcatEmpty
  <2>2. call.pcb # p /\ call.pcb \in Pcbs
    BY <2>1, TokenEmpty DEF IInv, CallOK
  <2>3. pcbs'[call.pcb] = pcbs[call.pcb]
    BY <2>2 DEF IInv, TableOK
  <2> QED
    BY <2>1, <2>3 DEF IInv, WaitOK, NoLostWakeup
<1>6. ConnectStarves' /\ SendingOK'
  BY DEF ConnectStarves, SendingOK, DeviceHeld
<1> QED
  BY <1>1, <1>4, <1>5, <1>6 DEF IInv, WaitOK

(* A block changes in a way that a sleeping call need not notice. *)
LEMMA QuietStep ==
  ASSUME IInv, NEW p \in Pcbs, NEW s, PcbOK(s),
         ~DeviceHeld,
         \/ call.pcb # p
         \/ chan # <<>>
         \/ call.pc \notin {"open", "recvwait"}
         \/ call.pc = "open" /\ s.state \in {"Listen", "SynSent", "SynReceived"}
         \/ call.pc = "recvwait" /\ s.state \in TextStates /\ s.rcvWnd = BufLen,
         pcbs' = [pcbs EXCEPT ![p] = s],
         OutOK',
         UNCHANGED <<call, chan, handles, phase>>
  PROVE  IInv'
<1>1. TableOK'
  BY DEF IInv, TableOK, PcbOK
<1>2. CallOK'
  BY DEF IInv, CallOK
<1>3. NoLostWakeup'
  <2> SUFFICES ASSUME chan = <<>>, call.pc \in {"open", "recvwait"}
               PROVE  NoLostWakeup'
    BY DEF NoLostWakeup
  <2>1. call.pcb \in Pcbs
    BY DEF IInv, CallOK
  <2>2. CASE call.pcb # p
    <3>1. pcbs'[call.pcb] = pcbs[call.pcb]
      BY <2>1, <2>2 DEF IInv, TableOK
    <3> QED
      BY <3>1 DEF IInv, WaitOK, NoLostWakeup
  <2>3. CASE call.pcb = p
    <3>1. pcbs'[call.pcb] = s
      BY <2>1, <2>3 DEF IInv, TableOK
    <3> QED
      BY <2>3, <3>1 DEF NoLostWakeup
  <2> QED
    BY <2>2, <2>3
<1>4. ConnectStarves' /\ SendingOK'
  BY DEF ConnectStarves, SendingOK, DeviceHeld
<1> QED
  BY <1>1, <1>2, <1>3, <1>4 DEF IInv, WaitOK

(* A step that only sends. *)
LEMMA SendingStep ==
  ASSUME IInv, OutOK', UNCHANGED <<pcbs, call, chan, handles, phase>>
  PROVE  IInv'
<1>1. TableOK' /\ CallOK'
  BY DEF IInv, TableOK, CallOK
<1>2. WaitOK'
  BY DEF IInv, WaitOK, NoLostWakeup, ConnectStarves,
         SendingOK
<1> QED
  BY <1>1, <1>2 DEF IInv

(* A panic leaves everything behind as it was. *)
LEMMA PanicOK ==
  ASSUME IInv, Panic
  PROVE  IInv'
<1>1. TableOK' /\ CallOK' /\ OutOK'
  BY DEF IInv, TableOK, CallOK, OutOK, Panic
<1>2. WaitOK'
  BY DEF IInv, WaitOK, NoLostWakeup, ConnectStarves,
         SendingOK, Panic
<1> QED
  BY <1>1, <1>2 DEF IInv

-----------------------------------------------------------------------------
(* Segments *)

(* What input() hands to segment_arrives is a segment. *)
LEMMA SegmentType ==
  ASSUME NEW seg \in Segments
  PROVE  seg \in Segment
BY TrafficAssumption

(* segment_arrives without a block, or on a closed one. *)
LEMMA RefuseOK ==
  ASSUME IInv, NEW seg \in Segments, Refuse(seg)
  PROVE  IInv'
<1>1. seg \in Segment
  BY SegmentType
<1>2. CASE "ACK" \in seg.flags
  <2>1. AckReset(seg) \in Segment
    BY <1>1, AckResetType
  <2>2. OutOK'
    BY <1>2, <2>1 DEF Refuse, OutOK
  <2> QED
    BY <2>2, SendingStep DEF Refuse
<1>3. CASE "ACK" \notin seg.flags
  <2>1. /\ 0 \in SeqNum /\ {"RST", "ACK"} \in SUBSET Flag
        /\ seg.seq \in SeqNum /\ SegLen(seg) \in Nat
    BY <1>1, SeqAssumption, SegLenFacts DEF SeqNum, Flag, Segment
  <2>2. seg.seq + SegLen(seg) \in SeqNum
    BY <1>3, <2>1, SeqAssumption DEF Refuse, SeqNum
  <2>3. ResetReply(seg, {"RST", "ACK"}, 0, seg.seq + SegLen(seg)) \in Segment
    BY <1>1, <2>1, <2>2, ResetReplyType
  <2>4. OutOK'
    BY <1>3, <2>3 DEF Refuse, OutOK
  <2> QED
    BY <2>4, SendingStep DEF Refuse
<1> QED
  BY <1>2, <1>3

(* The resets of LISTEN, SYN-SENT and SYN-RECEIVED. *)
LEMMA RefuseAckOK ==
  ASSUME IInv, NEW seg \in Segments, NEW p \in Pcbs, RefuseAck(seg, p)
  PROVE  IInv'
<1>1. AckReset(seg) \in Segment
  BY SegmentType, AckResetType
<1>2. OutOK'
  BY <1>1 DEF RefuseAck, OutOK
<1> QED
  BY <1>2, SendingStep DEF RefuseAck

(* The two answers that repeat what the block expects. *)
LEMMA AnswerOK ==
  ASSUME IInv, NEW seg \in Segments, NEW p \in Pcbs,
         Unacceptable(seg, p) \/ AckAhead(seg, p)
  PROVE  IInv'
<1>1. AckReply(pcbs[p]) \in Segment
  BY AckReplyType DEF IInv, TableOK
<1>2. OutOK'
  BY <1>1 DEF Unacceptable, AckAhead, OutOK
<1> QED
  BY <1>2, SendingStep DEF Unacceptable, AckAhead

(* The assignments to a listener's new block. *)
LEMMA ModeParentOK ==
  ASSUME NEW c, PcbOK(c), NEW p \in Pcbs
  PROVE  PcbOK([c EXCEPT !.mode = "Socket", !.parent = p])
BY DEF PcbOK, SpaceOK, Pcb

(* segment_arrives in LISTEN: a SYN. *)
LEMMA ListenSynOK ==
  ASSUME IInv, NEW seg \in Segments, NEW p \in Pcbs, ListenSyn(seg, p)
  PROVE  IInv'
<1> DEFINE q(c) == IF pcbs[p].mode = "Socket"
                   THEN [pcbs[c] EXCEPT !.mode = "Socket", !.parent = p]
                   ELSE pcbs[c]
           s(c, iss) == PassiveSyn(q(c), seg, iss)
<1>1. PICK iss \in InitialSeqs, c \in Pcbs :
        /\ IF pcbs[p].mode = "Socket" THEN NewEntry(c) ELSE c = p
        /\ pcbs' = [pcbs EXCEPT ![c] = s(c, iss)]
        /\ out' = {Reply(s(c, iss), {"SYN", "ACK"}, iss, <<>>)}
  BY DEF ListenSyn
<1>2. PcbOK(q(c))
  BY ModeParentOK DEF IInv, TableOK
<1>3. seg \in Segment /\ seg.seq < SeqMax
  BY SegmentType DEF ListenSyn
<1> DEFINE d == s(c, iss)
<1>4. PcbOK(d) /\ d.state = "SynReceived"
  <2> HIDE DEF q
  <2> QED
    BY <1>2, <1>3, PassiveSynOK
<1> HIDE DEF q, s, d
<1>5. OutOK'
  <2> DEFINE f == {"SYN", "ACK"}
  <2>1. d \in Pcb /\ f \in SUBSET Flag /\ iss \in SeqNum /\ <<>> \in Seq(Bytes)
    BY <1>4, SeqAssumption, EmptySeq DEF PcbOK, Flag, SeqNum
  <2> HIDE DEF f
  <2>2. Reply(d, f, iss, <<>>) \in Segment
    BY <2>1, ReplyType
  <2>3. out' = {Reply(d, f, iss, <<>>)}
    BY <1>1 DEF d, f
  <2> QED
    BY <2>2, <2>3 DEF OutOK
<1>6. pcbs[c].state \in {"Free", "Listen"}
  BY <1>1 DEF ListenSyn, ListenTakesSyn, NewEntry
<1>7. \/ call.pcb # c
      \/ chan # <<>>
      \/ call.pc \notin {"open", "recvwait"}
      \/ call.pc = "open" /\ d.state \in {"Listen", "SynSent", "SynReceived"}
  BY <1>4, <1>6 DEF IInv, WaitOK, NoLostWakeup, TextStates
<1>8. /\ ~DeviceHeld /\ UNCHANGED <<call, chan, handles, phase>>
      /\ pcbs' = [pcbs EXCEPT ![c] = d]
  BY <1>1 DEF ListenSyn, ArrivesAt, SignalsTaken, d
<1> QED
  BY <1>4, <1>5, <1>7, <1>8, QuietStep

(* The two ways a segment ends a connection. *)
LEMMA ResetOK ==
  ASSUME IInv, NEW seg \in Segments, NEW p \in Pcbs,
         SynSentReset(seg, p) \/ Reset(seg, p)
  PROVE  IInv'
<1>1. PcbOK(Release(pcbs[p]))
  BY ReleaseOK DEF IInv, TableOK
<1>2. /\ ~DeviceHeld /\ UNCHANGED <<call, handles, phase>>
      /\ pcbs' = [pcbs EXCEPT ![p] = Release(pcbs[p])]
      /\ chan' = chan \o Token(p, FALSE)
      /\ OutOK'
  BY DEF SynSentReset, Reset, ArrivesAt, SignalsTaken, OutOK
<1> QED
  BY <1>1, <1>2, WakingStep

(* segment_arrives in SYN-SENT: a SYN. *)
LEMMA SynSentArrivesOK ==
  ASSUME IInv, NEW seg \in Segments, NEW p \in Pcbs, SynSentArrives(seg, p)
  PROVE  IInv'
<1> DEFINE s == SynSentSyn(pcbs[p], seg)
<1>1. /\ PcbOK(pcbs[p]) /\ pcbs[p].state = "SynSent" /\ seg \in Segment
      /\ seg.seq < SeqMax /\ ~BadSynSentAck(pcbs[p], seg)
  BY SegmentType DEF IInv, TableOK, SynSentArrives, SynSentTakesSyn
<1>2. PcbOK(s) /\ s.state \in {"Established", "SynReceived"}
  BY <1>1, SynSentSynOK
<1>3. s \in Pcb /\ s.iss \in SeqNum
  BY <1>2 DEF PcbOK, Pcb
<1>4. /\ ~DeviceHeld /\ UNCHANGED <<call, handles, phase>>
      /\ pcbs' = [pcbs EXCEPT ![p] = s]
  BY DEF SynSentArrives, ArrivesAt, SignalsTaken
<1> HIDE DEF s
<1>5. CASE s.state = "Established"
  <2>1. out' = {AckReply(s)} /\ chan' = chan \o Token(p, TRUE)
    BY <1>5 DEF SynSentArrives, s
  <2>2. OutOK'
    BY <1>3, <2>1, AckReplyType DEF OutOK
  <2> QED
    BY <1>2, <1>4, <2>1, <2>2, WakingStep
<1>6. CASE s.state = "SynReceived"
  <2> DEFINE f == {"SYN", "ACK"}
  <2>1. out' = {Reply(s, f, s.iss, <<>>)} /\ UNCHANGED chan
    BY <1>6 DEF SynSentArrives, s
  <2>2. f \in SUBSET Flag /\ <<>> \in Seq(Bytes)
    BY EmptySeq DEF Flag
  <2> HIDE DEF f
  <2>3. OutOK'
    BY <1>3, <2>1, <2>2, ReplyType DEF OutOK
  <2>4. \/ call.pcb # p
        \/ chan # <<>>
        \/ call.pc \notin {"open", "recvwait"}
        \/ call.pc = "open" /\ s.state \in {"Listen", "SynSent", "SynReceived"}
    BY <1>1, <1>6 DEF IInv, WaitOK, NoLostWakeup, TextStates
  <2> QED
    BY <1>2, <1>4, <2>1, <2>3, <2>4, QuietStep
<1> QED
  BY <1>2, <1>5, <1>6

(* add_backlog touches the backlog only. *)
LEMMA BacklogOK ==
  ASSUME NEW c, PcbOK(c), NEW q \in Seq(Pcbs)
  PROVE  LET d == [c EXCEPT !.backlog = q]
         IN  /\ PcbOK(d) /\ d.state = c.state /\ d.rcvWnd = c.rcvWnd
             /\ d.sndUna = c.sndUna /\ d.sndNext = c.sndNext
             /\ d.rcvNext = c.rcvNext
BY DEF PcbOK, SpaceOK, Pcb

(* Four groups of tokens follow those in the channel. *)
LEMMA FourTokens ==
  ASSUME NEW s \in Seq(BOOLEAN), NEW t \in Seq(BOOLEAN),
         NEW u \in Seq(BOOLEAN), NEW v \in Seq(BOOLEAN),
         NEW w \in Seq(BOOLEAN)
  PROVE  /\ s \o t \o u \o v \o w \in Seq(BOOLEAN)
         /\ s \o t \o u \o v \o w = <<>> <=>
              s = <<>> /\ t = <<>> /\ u = <<>> /\ v = <<>> /\ w = <<>>
<1>1. s \o t \in Seq(BOOLEAN)
  BY ConcatProperties
<1>2. s \o t \o u \in Seq(BOOLEAN)
  BY <1>1, ConcatProperties
<1>3. s \o t \o u \o v \in Seq(BOOLEAN)
  BY <1>2, ConcatProperties
<1>4. s \o t \o u \o v \o w \in Seq(BOOLEAN)
  BY <1>3, ConcatProperties
<1> QED
  BY <1>1, <1>2, <1>3, <1>4, ConcatEmpty, ConcatEmptySeq

(* segment_arrives, from the acknowledgment to the FIN. *)
LEMMA ProcessOK ==
  ASSUME IInv, NEW seg \in Segments, NEW p \in Pcbs, Process(seg, p)
  PROVE  IInv'
<1> DEFINE c == pcbs[p]
           d == AfterFin(c, seg)
           announced == c.state = "SynReceived" /\ c.parent # NoPcb
           old(q) == IF q = p THEN d ELSE pcbs[q]
           new(q) == IF announced /\ q = c.parent
                     THEN [old(q) EXCEPT !.backlog = Append(old(q).backlog, p)]
                     ELSE old(q)
           t == IF c.state = "SynReceived" THEN Token(p, TRUE) ELSE <<>>
           u == IF announced THEN Token(c.parent, TRUE) ELSE <<>>
           v == IF HasText(c, seg) THEN Token(p, TRUE) ELSE <<>>
           w == IF "FIN" \in seg.flags
                   /\ c.state \in {"SynReceived", "Established"}
                THEN Token(p, TRUE) ELSE <<>>
<1>1. /\ seg \in Segment /\ PcbOK(c) /\ Processed(c, seg)
      /\ ~ProcessingOverflows(c, seg)
  BY SegmentType DEF IInv, TableOK, Process, Overflows
<1>2. /\ PcbOK(d)
      /\ ~HasText(c, seg) => d.rcvWnd = c.rcvWnd
      /\ c.state \in {"SynReceived", "Established"} \/ d.state = c.state
      /\ c.state = "Established" /\ "FIN" \notin seg.flags =>
           d.state = "Established"
  BY <1>1, AfterFinOK
<1>3. pcbs' = [q \in Pcbs |-> new(q)]
  BY DEF Process
<1>4. chan' = chan \o t \o u \o v \o w
  BY DEF Process
<1>5. /\ ~DeviceHeld /\ UNCHANGED <<call, handles, phase>>
  BY DEF Process, ArrivesAt, SignalsTaken
<1>6. OutOK'
  <2>1. PcbOK(AfterText(c, seg))
    BY <1>1, AfterTextOK
  <2>2. AckReply(AfterText(c, seg)) \in Segment /\ AckReply(d) \in Segment
    <3> HIDE DEF d
    <3> QED
      BY <1>2, <2>1, AckReplyType DEF PcbOK
  <2>3. out' = (IF HasText(c, seg) THEN {AckReply(AfterText(c, seg))} ELSE {})
              \union (IF "FIN" \in seg.flags THEN {AckReply(d)} ELSE {})
    BY DEF Process
  <2> QED
    BY <2>2, <2>3 DEF OutOK
<1> HIDE DEF d
<1>7. ASSUME NEW q \in Pcbs
      PROVE  PcbOK(new(q)) /\ new(q).state = old(q).state
             /\ new(q).rcvWnd = old(q).rcvWnd
  <2>1. PcbOK(old(q))
    BY <1>2 DEF IInv, TableOK
  <2>2. Append(old(q).backlog, p) \in Seq(Pcbs)
    <3>1. old(q).backlog \in Seq(Pcbs)
      BY <2>1 DEF PcbOK, Pcb
    <3> HIDE DEF old
    <3> QED
      BY <3>1, AppendProperties
  <2> HIDE DEF old, announced, c
  <2> QED
    BY <2>1, <2>2, BacklogOK
<1> HIDE DEF new
<1>8. TableOK'
  BY <1>3, <1>7 DEF TableOK, PcbOK
<1>9. /\ chan \in Seq(BOOLEAN) /\ t \in Seq(BOOLEAN) /\ u \in Seq(BOOLEAN)
      /\ v \in Seq(BOOLEAN) /\ w \in Seq(BOOLEAN)
  BY TokenType, EmptySeq DEF IInv, CallOK
<1>10. CallOK'
  <2>1. chan' \in Seq(BOOLEAN)
    <3> HIDE DEF t, u, v, w
    <3> QED
      BY <1>4, <1>9, FourTokens
  <2>2. call.pc = "idle" => chan' = <<>>
    <3>1. call.pc = "idle" => chan = <<>> /\ t = <<>> /\ u = <<>>
                               /\ v = <<>> /\ w = <<>>
      BY NoTokenWhenIdle DEF IInv, CallOK
    <3> HIDE DEF t, u, v, w
    <3> QED
      BY <1>4, <1>9, <3>1, FourTokens
  <2> QED
    BY <1>5, <2>1, <2>2 DEF IInv, CallOK
<1>11. NoLostWakeup'
  <2> SUFFICES ASSUME chan' = <<>>, call.pc \in {"open", "recvwait"}
               PROVE  NoLostWakeup'
    BY <1>5 DEF NoLostWakeup
  <2>1. chan = <<>> /\ t = <<>> /\ v = <<>> /\ w = <<>>
    <3> HIDE DEF t, u, v, w
    <3>1. chan \o t \o u \o v \o w = <<>>
      BY <1>4, Zenon
    <3> QED
      BY <1>9, <3>1, FourTokens
  <2>2. call.pcb \in Pcbs
    BY DEF IInv, CallOK
  <2>3. old(call.pcb).state = pcbs[call.pcb].state
        /\ old(call.pcb).rcvWnd = pcbs[call.pcb].rcvWnd
    <3>1. CASE call.pcb = p
      <4>1. \A go \in BOOLEAN : Token(p, go) # <<>>
        BY <3>1, TokenEmpty
      <4>2. /\ c.state # "SynReceived" /\ ~HasText(c, seg)
            /\ ~("FIN" \in seg.flags /\ c.state = "Established")
        BY <2>1, <4>1
      <4> QED
        BY <1>2, <3>1, <4>2
    <3> QED
      BY <3>1
  <2>4. /\ pcbs'[call.pcb].state = pcbs[call.pcb].state
        /\ pcbs'[call.pcb].rcvWnd = pcbs[call.pcb].rcvWnd
    <3> HIDE DEF old
    <3> QED
      BY <1>3, <1>7, <2>2, <2>3
  <2> QED
    BY <1>5, <2>1, <2>4 DEF IInv, WaitOK, NoLostWakeup
<1>12. ConnectStarves' /\ SendingOK'
  BY <1>5 DEF ConnectStarves, SendingOK, DeviceHeld
<1> QED
  BY <1>6, <1>8, <1>10, <1>11, <1>12 DEF IInv, WaitOK

(* A segment of the peer, whatever it is, preserves the invariant. *)
LEMMA SegmentArrivesOK ==
  ASSUME IInv, SegmentArrives
  PROVE  IInv'
<1>1. PICK seg \in Segments :
        \/ Refuse(seg)
        \/ ArrivalPanics(seg)
        \/ \E p \in Pcbs :
             \/ RefuseAck(seg, p) \/ ListenSyn(seg, p)
             \/ SynSentReset(seg, p) \/ SynSentArrives(seg, p)
             \/ Unacceptable(seg, p) \/ Reset(seg, p)
             \/ AckAhead(seg, p) \/ Process(seg, p)
  BY DEF SegmentArrives
<1>2. CASE Refuse(seg)
  BY <1>2, RefuseOK
<1>3. CASE ArrivalPanics(seg)
  BY <1>3, PanicOK DEF ArrivalPanics
<1>4. ASSUME NEW p \in Pcbs,
             \/ RefuseAck(seg, p) \/ ListenSyn(seg, p)
             \/ SynSentReset(seg, p) \/ SynSentArrives(seg, p)
             \/ Unacceptable(seg, p) \/ Reset(seg, p)
             \/ AckAhead(seg, p) \/ Process(seg, p)
      PROVE  IInv'
  BY <1>4, RefuseAckOK, ListenSynOK, ResetOK, SynSentArrivesOK, AnswerOK,
     ProcessOK
<1> QED
  BY <1>1, <1>2, <1>3, <1>4

-----------------------------------------------------------------------------
(* Time and the retransmission thread *)

(* retransmit(): a released block wakes up its call. *)
LEMMA RetransmitOK ==
  ASSUME IInv, Retransmit
  PROVE  IInv'
<1>1. ASSUME NEW p \in Pcbs
      PROVE  /\ PcbOK(pcbs'[p])
             /\ \/ pcbs'[p].state = "Free"
                \/ /\ pcbs'[p].state = pcbs[p].state
                   /\ pcbs'[p].rcvWnd = pcbs[p].rcvWnd
  <2>1. pcbs'[p] = AfterRetransmit(pcbs[p]) /\ PcbOK(pcbs[p])
    BY DEF IInv, TableOK, Retransmit
  <2> QED
    BY <2>1, AfterRetransmitOK
<1>2. TableOK'
  <2>1. DOMAIN pcbs' = Pcbs /\ pcbs' = [p \in Pcbs |-> pcbs'[p]]
    BY DEF Retransmit
  <2> QED
    BY <1>1, <2>1 DEF TableOK, PcbOK
<1>3. OutOK'
  <2> SUFFICES ASSUME NEW p \in Pcbs
               PROVE  Resent(pcbs[p]) \subseteq Segment
    BY DEF Retransmit, OutOK
  <2>1. pcbs[p] \in Pcb /\ pcbs[p].queue \in Seq(Entry)
    BY DEF IInv, TableOK, Pcb
  <2>2. \A i \in DOMAIN pcbs[p].queue : pcbs[p].queue[i] \in Entry
    BY <2>1, ElementOfSeq, LenProperties
  <2>3. \A i \in DOMAIN pcbs[p].queue :
          Reply(pcbs[p], pcbs[p].queue[i].flags, pcbs[p].queue[i].seq,
                pcbs[p].queue[i].data) \in Segment
    BY <2>1, <2>2, ReplyType DEF Entry
  <2> QED
    BY <2>3 DEF Resent
<1>4. chan \in Seq(BOOLEAN) /\ Token(call.pcb, FALSE) \in Seq(BOOLEAN)
  BY TokenType DEF IInv, CallOK
<1>5. CallOK'
  <2>1. chan' \in Seq(BOOLEAN)
    BY <1>4, ConcatProperties DEF Retransmit
  <2>2. phase' \in {"running", "closing", "panic"}
    BY DEF Retransmit, IInv, CallOK
  <2>3. call.pc = "idle" => chan' = <<>>
    BY <1>4, NoTokenWhenIdle, ConcatEmptySeq DEF Retransmit, IInv, CallOK
  <2> QED
    BY <2>1, <2>2, <2>3 DEF IInv, CallOK, Retransmit
<1>6. NoLostWakeup'
  <2> SUFFICES ASSUME chan' = <<>>, call.pc \in {"open", "recvwait"}
               PROVE  NoLostWakeup'
    BY DEF NoLostWakeup, Retransmit
  <2>1. call.pcb \in Pcbs /\ Token(call.pcb, FALSE) # <<>>
    BY TokenEmpty DEF IInv, CallOK
  <2>2. chan \o Token(call.pcb, FALSE) # <<>>
    BY <1>4, <2>1, ConcatEmpty
  <2>3. /\ chan = <<>>
        /\ ~(pcbs[call.pcb].state # "Free" /\ pcbs'[call.pcb].state = "Free")
    BY <2>1, <2>2 DEF Retransmit
  <2>4. /\ pcbs[call.pcb].state # "Free"
        /\ pcbs[call.pcb].rcvWnd = BufLen \/ call.pc = "open"
    BY <2>3 DEF IInv, WaitOK, NoLostWakeup, TextStates
  <2>5. /\ pcbs'[call.pcb].state = pcbs[call.pcb].state
        /\ pcbs'[call.pcb].rcvWnd = pcbs[call.pcb].rcvWnd
    BY <1>1, <2>1, <2>3, <2>4
  <2> QED
    BY <2>3, <2>5 DEF IInv, WaitOK, NoLostWakeup, Retransmit
<1>7. ConnectStarves' /\ SendingOK'
  BY DEF ConnectStarves, SendingOK, DeviceHeld, Retransmit
<1> QED
  BY <1>2, <1>3, <1>5, <1>6, <1>7 DEF IInv, WaitOK

(* Time changes the ages of queue entries only. *)
LEMMA AgeOK ==
  ASSUME IInv, NEW ages \in [Ages -> Ages], Age(ages)
  PROVE  IInv'
<1>1. ASSUME NEW p \in Pcbs
      PROVE  /\ PcbOK(pcbs'[p])
             /\ pcbs'[p].state = pcbs[p].state
             /\ pcbs'[p].rcvWnd = pcbs[p].rcvWnd
  <2>1. pcbs'[p] = Aged(pcbs[p], ages) /\ PcbOK(pcbs[p])
    BY DEF IInv, TableOK, Age
  <2> QED
    BY <2>1, AgedOK
<1>2. TableOK'
  <2>1. pcbs' = [p \in Pcbs |-> pcbs'[p]]
    BY DEF Age
  <2> QED
    BY <1>1, <2>1 DEF TableOK, PcbOK
<1>3. CallOK' /\ OutOK'
  BY DEF IInv, CallOK, OutOK, Age
<1>4. WaitOK'
  <2>1. CASE call.pc = "idle"
    BY <2>1 DEF Age, WaitOK, NoLostWakeup, ConnectStarves,
         SendingOK
  <2>2. CASE call.pc # "idle"
    <3>1. call.pcb \in Pcbs
      BY <2>2 DEF IInv, CallOK
    <3> QED
      BY <1>1, <3>1 DEF IInv, Age, WaitOK, NoLostWakeup, ConnectStarves,
         SendingOK
  <2> QED
    BY <2>1, <2>2
<1> QED
  BY <1>2, <1>3, <1>4 DEF IInv

(* The retry interval or the timeout passes. *)
LEMMA TimeOK ==
  ASSUME IInv, RetryIntervalPasses \/ TimeoutPasses
  PROVE  IInv'
<1>1. /\ [fresh |-> "due", due |-> "due", expired |-> "expired"] \in [Ages -> Ages]
      /\ [fresh |-> "expired", due |-> "expired", expired |-> "expired"]
           \in [Ages -> Ages]
  BY DEF Ages
<1> QED
  BY <1>1, AgeOK DEF RetryIntervalPasses, TimeoutPasses

-----------------------------------------------------------------------------
(* Calls *)

(* No call. *)
LEMMA IdleType == Idle \in Call
BY EmptySeq DEF Idle, Call, CallPc

(* A call that waits on a block. *)
LEMMA WaitingType ==
  ASSUME NEW pc \in CallPc, NEW p \in Pcbs
  PROVE  /\ Waiting(pc, p) \in Call
         /\ Waiting(pc, p).pc = pc /\ Waiting(pc, p).pcb = p
BY EmptySeq DEF Waiting, Idle, Call, CallPc

(* A step of the application thread that returns from a call. *)
LEMMA ReturningStep ==
  ASSUME IInv, TableOK', OutOK', call' = Idle, chan' = <<>>,
         handles' \subseteq Pcbs, UNCHANGED phase
  PROVE  IInv'
<1>1. call'.pc = "idle"
  BY DEF Idle
<1>2. CallOK'
  BY <1>1, IdleType, EmptySeq DEF IInv, CallOK
<1>3. WaitOK'
  BY <1>1 DEF WaitOK, NoLostWakeup, ConnectStarves, SendingOK
<1> QED
  BY <1>2, <1>3 DEF IInv

(* A call that does not wait. *)
LEMMA ImmediateStep ==
  ASSUME IInv, TableOK', OutOK', call.pc = "idle", call' = call, chan' = chan,
         handles' \subseteq Pcbs, UNCHANGED phase
  PROVE  IInv'
<1>1. CallOK'
  BY DEF IInv, CallOK
<1>2. WaitOK'
  BY DEF WaitOK, NoLostWakeup, ConnectStarves, SendingOK
<1> QED
  BY <1>1, <1>2 DEF IInv

(* A step of the application thread that leaves it in a call on block p. *)
LEMMA CallingStep ==
  ASSUME IInv, TableOK', OutOK', NEW p \in Pcbs,
         call' \in Call, call'.pcb = p, call'.pc # "idle",
         chan' \in Seq(BOOLEAN), UNCHANGED <<handles, phase>>,
         call'.pc = "open" =>
           chan' # <<>> \/ pcbs'[p].state \in {"Listen", "SynSent", "SynReceived"},
         call'.pc = "recvwait" =>
           \/ chan' # <<>>
           \/ pcbs'[p].state \in TextStates /\ pcbs'[p].rcvWnd = BufLen,
         call'.pc = "connect" /\ phase = "running" =>
           pcbs'[p].state = "SynSent" /\ chan' = <<>>,
         call'.pc = "sending" => pcbs'[p].state \in {"Established", "CloseWait", "Free"},
         call'.pc = "accept" => call'.next \in Pcbs
  PROVE  IInv'
<1>1. CallOK'
  BY DEF IInv, CallOK
<1>2. WaitOK'
  BY DEF WaitOK, NoLostWakeup, ConnectStarves,
         SendingOK
<1> QED
  BY <1>1, <1>2 DEF IInv

(* One block of the table changes. *)
LEMMA OneBlock ==
  ASSUME TableOK, NEW p \in Pcbs, NEW s, PcbOK(s),
         pcbs' = [pcbs EXCEPT ![p] = s]
  PROVE  TableOK' /\ pcbs'[p] = s
BY DEF TableOK, PcbOK

(* A step that sends nothing. *)
LEMMA NoOut ==
  ASSUME out' = {}
  PROVE  OutOK'
BY DEF OutOK

(* A step that sends a SYN. *)
LEMMA SynOut ==
  ASSUME NEW s, PcbOK(s), NEW iss \in InitialSeqs,
         out' = {Reply(s, {"SYN"}, iss, <<>>)}
  PROVE  OutOK'
<1> DEFINE f == {"SYN"}
<1>1. s \in Pcb /\ f \in SUBSET Flag /\ iss \in SeqNum /\ <<>> \in Seq(Bytes)
  BY SeqAssumption, EmptySeq DEF PcbOK, Flag, SeqNum
<1>2. out' = {Reply(s, f, iss, <<>>)}
  OBVIOUS
<1> HIDE DEF f
<1> QED
  BY <1>1, <1>2, ReplyType DEF OutOK

(* The endpoints the application names. *)
LEMMA EndpointType ==
  /\ \A local \in Locals : local \in Endpoint
  /\ \A remote \in Remotes : remote \in Endpoint
  /\ Me \in Addrs
BY AddressAssumption DEF Endpoint

(* The assignments of the socket calls to a block. *)
LEMMA FieldsOK ==
  ASSUME NEW c, PcbOK(c), NEW local \in Endpoint
  PROVE  /\ PcbOK([c EXCEPT !.mode = "Rfc793"])
         /\ PcbOK([c EXCEPT !.local = local])
         /\ PcbOK([c EXCEPT !.state = "Listen"])
         /\ PcbOK([c EXCEPT !.state = "Closed"])
         /\ PcbOK([c EXCEPT !.state = "Closed", !.mode = "Socket"])
         /\ PcbOK([c EXCEPT !.mode = "Rfc793", !.local = local, !.state = "Listen"])
<1>1. /\ c \in Pcb /\ {"Listen", "Closed"} \subseteq States
      /\ {"Listen", "Closed"} \intersect (HalfClosed \union Connecting) = {}
      /\ "SynSent" \in Connecting
  BY DEF PcbOK, States, HalfClosed, Connecting
<1>2. /\ PcbOK([c EXCEPT !.mode = "Rfc793"])
      /\ PcbOK([c EXCEPT !.local = local])
  BY DEF PcbOK, SpaceOK, Pcb
<1>3. /\ PcbOK([c EXCEPT !.state = "Listen"])
      /\ PcbOK([c EXCEPT !.state = "Closed"])
  BY <1>1 DEF PcbOK, SpaceOK, Pcb
<1>4. PcbOK([c EXCEPT !.state = "Closed", !.mode = "Socket"])
  BY <1>1 DEF PcbOK, SpaceOK, Pcb
<1>5. PcbOK([c EXCEPT !.mode = "Rfc793", !.local = local, !.state = "Listen"])
  BY <1>1 DEF PcbOK, SpaceOK, Pcb
<1> QED
  BY <1>2, <1>3, <1>4, <1>5

(* A new call finds no other call and no token. *)
LEMMA CallFacts ==
  ASSUME IInv, NEW name, Calling(name)
  PROVE  call.pc = "idle" /\ chan = <<>> /\ TableOK /\ handles \subseteq Pcbs
BY DEF IInv, CallOK, Calling

(* rfc793_open with a remote: SYN-SENT, and a call that waits for it. *)
LEMMA ActiveOpenOK ==
  ASSUME IInv, NEW local \in Locals, NEW remote \in Remotes,
         ActiveOpen(local, remote)
  PROVE  IInv'
<1> DEFINE s(p, iss) == ActiveSyn([pcbs[p] EXCEPT !.mode = "Rfc793"], local,
                                  remote, iss)
<1>1. PICK p \in Pcbs, iss \in InitialSeqs :
        /\ pcbs' = [pcbs EXCEPT ![p] = s(p, iss)]
        /\ out' = {Reply(s(p, iss), {"SYN"}, iss, <<>>)}
        /\ call' = Waiting("open", p)
  BY DEF ActiveOpen
<1>2. /\ TableOK /\ chan = <<>> /\ local \in Endpoint /\ remote \in Endpoint
      /\ PcbOK(pcbs[p])
  BY CallFacts, EndpointType DEF ActiveOpen, TableOK
<1>3. PcbOK([pcbs[p] EXCEPT !.mode = "Rfc793"])
  BY <1>2, FieldsOK
<1> DEFINE d == s(p, iss)
<1>4. PcbOK(d) /\ d.state = "SynSent"
  BY <1>2, <1>3, ActiveSynOK
<1> HIDE DEF s, d
<1>5. /\ pcbs' = [pcbs EXCEPT ![p] = d]
      /\ out' = {Reply(d, {"SYN"}, iss, <<>>)}
  BY <1>1 DEF d
<1>6. TableOK' /\ pcbs'[p] = d
  BY <1>2, <1>4, <1>5, OneBlock
<1>7. OutOK'
  BY <1>4, <1>5, SynOut
<1>8. call' \in Call /\ call'.pc = "open" /\ call'.pcb = p
  BY <1>1, WaitingType DEF CallPc
<1>9. chan' \in Seq(BOOLEAN) /\ UNCHANGED <<handles, phase>>
  BY <1>2, EmptySeq DEF ActiveOpen
<1> QED
  BY <1>4, <1>6, <1>7, <1>8, <1>9, CallingStep

(* rfc793_open without a remote: LISTEN, and a call that waits. *)
LEMMA PassiveOpenOK ==
  ASSUME IInv, NEW local \in Locals, PassiveOpen(local)
  PROVE  IInv'
<1>1. PICK p \in Pcbs :
        /\ pcbs' = [pcbs EXCEPT ![p].mode = "Rfc793", ![p].local = local,
                                ![p].state = "Listen"]
        /\ call' = Waiting("open", p)
  BY DEF PassiveOpen
<1> DEFINE d == [pcbs[p] EXCEPT !.mode = "Rfc793", !.local = local,
                                !.state = "Listen"]
<1>2. /\ TableOK /\ chan = <<>> /\ local \in Endpoint /\ PcbOK(pcbs[p])
  BY CallFacts, EndpointType DEF PassiveOpen, TableOK
<1>3. PcbOK(d)
  BY <1>2, FieldsOK
<1>4. d.state = "Listen" /\ pcbs' = [pcbs EXCEPT ![p] = d]
  BY <1>1, <1>2 DEF TableOK, Pcb
<1> HIDE DEF d
<1>5. TableOK' /\ pcbs'[p] = d
  BY <1>2, <1>3, <1>4, OneBlock
<1>6. call' \in Call /\ call'.pc = "open" /\ call'.pcb = p
  BY <1>1, WaitingType DEF CallPc
<1>7. chan' \in Seq(BOOLEAN) /\ UNCHANGED <<handles, phase>> /\ OutOK'
  BY <1>2, EmptySeq, NoOut DEF PassiveOpen
<1> QED
  BY <1>4, <1>5, <1>6, <1>7, CallingStep

(* rfc793_open wakes up: returns, releases the block or waits again. *)
LEMMA OpenWakesOK ==
  ASSUME IInv, OpenWakes
  PROVE  IInv'
<1> DEFINE p == call.pcb
           s == pcbs[p].state
<1>1. /\ p \in Pcbs /\ call \in Call /\ call.pc = "open" /\ OutOK'
      /\ UNCHANGED phase /\ TableOK /\ PcbOK(pcbs[p]) /\ handles \subseteq Pcbs
      /\ chan \in Seq(BOOLEAN) /\ chan # <<>>
  BY NoOut DEF OpenWakes, IInv, CallOK, TableOK
<1>2. CASE s = "Established" /\ handles' = handles \union {p} /\ Return
           /\ UNCHANGED pcbs
  <2>1. TableOK' /\ handles' \subseteq Pcbs
    BY <1>1, <1>2 DEF TableOK
  <2> QED
    BY <1>1, <1>2, <2>1, ReturningStep DEF Return
<1>3. CASE pcbs' = [pcbs EXCEPT ![p] = Release(pcbs[p])] /\ Return
           /\ UNCHANGED handles
  <2>1. PcbOK(Release(pcbs[p]))
    BY <1>1, ReleaseOK
  <2>2. TableOK'
    BY <1>1, <1>3, <2>1, OneBlock
  <2> QED
    BY <1>1, <1>3, <2>2, ReturningStep DEF Return
<1>4. CASE s = "SynReceived" /\ chan' = Tail(chan)
           /\ UNCHANGED <<pcbs, call, handles>>
  <2>1. chan' \in Seq(BOOLEAN)
    BY <1>1, <1>4, HeadTailProperties
  <2>2. TableOK'
    BY <1>1, <1>4 DEF TableOK
  <2> QED
    BY <1>1, <1>4, <2>1, <2>2, CallingStep
<1> QED
  BY <1>2, <1>3, <1>4 DEF OpenWakes

(* open(). *)
LEMMA SocketOpenOK ==
  ASSUME IInv, SocketOpen
  PROVE  IInv'
<1>1. PICK p \in Pcbs :
        /\ pcbs' = [pcbs EXCEPT ![p].state = "Closed", ![p].mode = "Socket"]
        /\ handles' = handles \union {p}
  BY DEF SocketOpen
<1> DEFINE d == [pcbs[p] EXCEPT !.state = "Closed", !.mode = "Socket"]
<1>2. /\ TableOK /\ call.pc = "idle" /\ handles \subseteq Pcbs
      /\ PcbOK(pcbs[p]) /\ Unset \in Endpoint
  BY CallFacts DEF SocketOpen, TableOK, Unset, Endpoint
<1>3. PcbOK(d)
  BY <1>2, FieldsOK
<1>4. pcbs' = [pcbs EXCEPT ![p] = d]
  BY <1>1, <1>2 DEF TableOK, Pcb
<1> HIDE DEF d
<1>5. TableOK'
  BY <1>2, <1>3, <1>4, OneBlock
<1>6. OutOK' /\ call' = call /\ chan' = chan /\ UNCHANGED phase
      /\ handles' \subseteq Pcbs
  BY <1>1, <1>2, NoOut DEF SocketOpen
<1> QED
  BY <1>2, <1>5, <1>6, ImmediateStep

(* bind(). *)
LEMMA BindOK ==
  ASSUME IInv, NEW p \in handles, NEW local \in Locals,
         Bind(p, local)
  PROVE  IInv'
<1>1. /\ TableOK /\ call.pc = "idle" /\ handles \subseteq Pcbs /\ p \in Pcbs
      /\ PcbOK(pcbs[p]) /\ local \in Endpoint
  BY CallFacts, EndpointType DEF Bind, TableOK
<1>2. OutOK' /\ call' = call /\ chan' = chan /\ UNCHANGED phase
      /\ handles' \subseteq Pcbs
  BY <1>1, NoOut DEF Bind
<1>3. PcbOK([pcbs[p] EXCEPT !.local = local])
  BY <1>1, FieldsOK
<1>4. pcbs' = [pcbs EXCEPT ![p] = [pcbs[p] EXCEPT !.local = local]]
  BY <1>1 DEF Bind, TableOK, Pcb
<1>5. TableOK'
  BY <1>1, <1>3, <1>4, OneBlock
<1> QED
  BY <1>1, <1>2, <1>5, ImmediateStep

(* listen(). *)
LEMMA ListenOK ==
  ASSUME IInv, NEW p \in handles, Listen(p)
  PROVE  IInv'
<1>1. /\ TableOK /\ call.pc = "idle" /\ handles \subseteq Pcbs /\ p \in Pcbs
      /\ PcbOK(pcbs[p]) /\ Unset \in Endpoint
  BY CallFacts DEF Listen, TableOK, Unset, Endpoint
<1>2. OutOK' /\ call' = call /\ chan' = chan /\ UNCHANGED phase
      /\ handles' \subseteq Pcbs
  BY <1>1, NoOut DEF Listen
<1>3. PcbOK([pcbs[p] EXCEPT !.state = "Listen"])
  BY <1>1, FieldsOK
<1>4. pcbs' = [pcbs EXCEPT ![p] = [pcbs[p] EXCEPT !.state = "Listen"]]
  BY <1>1 DEF Listen, TableOK, Pcb
<1>5. TableOK'
  BY <1>1, <1>3, <1>4, OneBlock
<1> QED
  BY <1>1, <1>2, <1>5, ImmediateStep

(* connect() up to its wait: the block is in SYN-SENT. *)
LEMMA ConnectOK ==
  ASSUME IInv, NEW p \in handles, NEW remote \in Remotes, Connect(p, remote)
  PROVE  IInv'
<1> DEFINE old == pcbs[p].local
           loc(port) == [addr |-> IF old.addr = AnyAddr THEN Me ELSE old.addr,
                         port |-> port]
           s(port, iss) == ActiveSyn(pcbs[p], loc(port), remote, iss)
<1>1. PICK port \in Ports, iss \in InitialSeqs :
        /\ pcbs' = [pcbs EXCEPT ![p] = s(port, iss)]
        /\ out' = {Reply(s(port, iss), {"SYN"}, iss, <<>>)}
  BY DEF Connect
<1>2. /\ TableOK /\ chan = <<>> /\ p \in Pcbs /\ remote \in Endpoint
      /\ PcbOK(pcbs[p]) /\ Me \in Addrs
  BY CallFacts, EndpointType DEF Connect, TableOK
<1>3. loc(port) \in Endpoint
  <2>1. old \in Endpoint
    BY <1>2 DEF PcbOK, Pcb
  <2> QED
    BY <1>2, <2>1 DEF Endpoint
<1> HIDE DEF loc, old
<1> DEFINE d == s(port, iss)
<1>4. PcbOK(d) /\ d.state = "SynSent"
  BY <1>2, <1>3, ActiveSynOK
<1> HIDE DEF s, d
<1>5. /\ pcbs' = [pcbs EXCEPT ![p] = d]
      /\ out' = {Reply(d, {"SYN"}, iss, <<>>)}
  BY <1>1 DEF d
<1>6. TableOK' /\ pcbs'[p] = d
  BY <1>2, <1>4, <1>5, OneBlock
<1>7. OutOK'
  BY <1>4, <1>5, SynOut
<1>8. call' \in Call /\ call'.pc = "connect" /\ call'.pcb = p
  BY <1>2, WaitingType DEF Connect, CallPc
<1>9. chan' = <<>> /\ chan' \in Seq(BOOLEAN) /\ UNCHANGED <<handles, phase>>
  BY <1>2, EmptySeq DEF Connect
<1> QED
  BY <1>2, <1>4, <1>6, <1>7, <1>8, <1>9, CallingStep

(* connect() wakes up. *)
LEMMA ConnectWakesOK ==
  ASSUME IInv, ConnectWakes
  PROVE  IInv'
<1> DEFINE p == call.pcb
<1>1. /\ p \in Pcbs /\ call \in Call /\ call.pc = "connect" /\ OutOK'
      /\ UNCHANGED <<handles, phase>> /\ TableOK /\ PcbOK(pcbs[p])
      /\ chan \in Seq(BOOLEAN) /\ chan # <<>> /\ handles \subseteq Pcbs
      /\ phase # "running"
  BY NoOut DEF ConnectWakes, IInv, CallOK, TableOK, WaitOK, ConnectStarves
<1>2. TableOK'
  <2>1. PcbOK([pcbs[p] EXCEPT !.state = "Closed"])
    <3>1. Unset \in Endpoint
      BY DEF Unset, Endpoint
    <3> QED
      BY <1>1, <3>1, FieldsOK
  <2>2. \/ pcbs' = pcbs
        \/ pcbs' = [pcbs EXCEPT ![p] = [pcbs[p] EXCEPT !.state = "Closed"]]
    BY <1>1 DEF ConnectWakes, TableOK, Pcb
  <2>3. CASE pcbs' = pcbs
    BY <1>1, <2>3 DEF TableOK
  <2> QED
    BY <1>1, <2>1, <2>2, <2>3, OneBlock
<1>3. CASE call' = Idle /\ chan' = <<>>
  BY <1>1, <1>2, <1>3, ReturningStep
<1>4. CASE call' = call /\ chan' = Tail(chan)
  <2>1. chan' \in Seq(BOOLEAN)
    BY <1>1, <1>4, HeadTailProperties
  <2>2. call' \in Call /\ call'.pcb = p /\ call'.pc = "connect"
    BY <1>1, <1>4
  <2> QED
    BY <1>1, <1>2, <2>1, <2>2, CallingStep
<1> QED
  BY <1>3, <1>4 DEF ConnectWakes

(* accept() takes an entry of the backlog and waits. *)
LEMMA AcceptOK ==
  ASSUME IInv, NEW p \in handles, Accept(p)
  PROVE  IInv'
<1> DEFINE q == pcbs[p].backlog
           d == [pcbs[p] EXCEPT !.backlog = Tail(q)]
<1>1. /\ TableOK /\ chan = <<>> /\ p \in Pcbs /\ PcbOK(pcbs[p])
      /\ q \in Seq(Pcbs) /\ q # <<>>
  BY CallFacts DEF Accept, TableOK, PcbOK, Pcb
<1>2. Head(q) \in Pcbs /\ Tail(q) \in Seq(Pcbs)
  BY <1>1, HeadTailProperties
<1>3. PcbOK(d)
  BY <1>1, <1>2, BacklogOK
<1>4. pcbs' = [pcbs EXCEPT ![p] = d]
  BY <1>1 DEF Accept, TableOK, Pcb
<1>5. TableOK'
  BY <1>1, <1>3, <1>4, OneBlock
<1>6. /\ call' \in Call /\ call'.pc = "accept" /\ call'.pcb = p
      /\ call'.next \in Pcbs
  <2>1. Waiting("accept", p) \in Call /\ Waiting("accept", p).pc = "accept"
        /\ Waiting("accept", p).pcb = p
    BY <1>1, WaitingType DEF CallPc
  <2>2. call' = [Waiting("accept", p) EXCEPT !.next = Head(q)]
    BY DEF Accept
  <2> QED
    BY <1>2, <2>1, <2>2 DEF Call
<1>7. chan' \in Seq(BOOLEAN) /\ UNCHANGED <<handles, phase>> /\ OutOK'
  BY <1>1, EmptySeq, NoOut DEF Accept
<1> QED
  BY <1>1, <1>5, <1>6, <1>7, CallingStep

(* accept() wakes up. *)
LEMMA AcceptWakesOK ==
  ASSUME IInv, AcceptWakes
  PROVE  IInv'
<1> DEFINE p == call.pcb
           q == pcbs[p].backlog
           d == [pcbs[p] EXCEPT !.backlog = RestOf(q)]
<1>1. /\ p \in Pcbs /\ call \in Call /\ call.pc = "accept" /\ OutOK'
      /\ UNCHANGED phase /\ TableOK /\ PcbOK(pcbs[p])
      /\ chan \in Seq(BOOLEAN) /\ chan # <<>> /\ handles \subseteq Pcbs
      /\ call.next \in Pcbs /\ q \in Seq(Pcbs)
  BY NoOut DEF AcceptWakes, IInv, CallOK, TableOK, PcbOK, Pcb
<1>2. CASE ~Head(chan) \/ pcbs[p].state = "Closed"
  <2>1. call' = Idle /\ chan' = <<>> /\ UNCHANGED <<pcbs, handles>>
    BY <1>2 DEF AcceptWakes, Return
  <2>2. TableOK' /\ handles' \subseteq Pcbs
    BY <1>1, <2>1 DEF TableOK
  <2> QED
    BY <1>1, <2>1, <2>2, ReturningStep
<1>3. CASE ~(~Head(chan) \/ pcbs[p].state = "Closed")
  <2>1. RestOf(q) \in Seq(Pcbs) /\ FirstOf(q) \in Pcbs \union {NoPcb}
    BY <1>1, HeadTailProperties, EmptySeq DEF RestOf, FirstOf
  <2>2. PcbOK(d)
    BY <1>1, <2>1, BacklogOK
  <2>3. pcbs' = [pcbs EXCEPT ![p] = d]
    BY <1>1, <1>3 DEF AcceptWakes, TableOK, Pcb
  <2>4. TableOK'
    BY <1>1, <2>2, <2>3, OneBlock
  <2>5. CASE FirstOf(q) = NoPcb
    <3>1. call' = Idle /\ chan' = <<>> /\ handles' = handles \union {call.next}
      BY <1>3, <2>5 DEF AcceptWakes, Return
    <3>2. handles' \subseteq Pcbs
      BY <1>1, <3>1
    <3> QED
      BY <1>1, <2>4, <3>1, <3>2, ReturningStep
  <2>6. CASE FirstOf(q) # NoPcb
    <3>1. /\ call' = [call EXCEPT !.got = call.next, !.next = FirstOf(q)]
          /\ chan' = Tail(chan) /\ UNCHANGED handles
      BY <1>3, <2>6 DEF AcceptWakes
    <3>2. chan' \in Seq(BOOLEAN)
      BY <1>1, <3>1, HeadTailProperties
    <3>3. /\ call' \in Call /\ call'.pc = "accept" /\ call'.pcb = p
          /\ call'.next \in Pcbs
      BY <1>1, <2>1, <2>6, <3>1 DEF Call
    <3> QED
      BY <1>1, <2>4, <3>1, <3>2, <3>3, CallingStep
  <2> QED
    BY <2>5, <2>6
<1> QED
  BY <1>2, <1>3

-----------------------------------------------------------------------------
(* Data *)

(* min of three numbers. *)
LEMMA MinOfThree ==
  ASSUME NEW a \in Nat, NEW m \in Nat, NEW k \in Nat
  PROVE  LET x == Min({a, m, k})
         IN  x \in {a, m, k} /\ x \in Nat /\ x <= a /\ x <= m /\ x <= k
<1>1. \E x \in {a, m, k} : \A y \in {a, m, k} : x <= y
  <2>1. CASE a <= m /\ a <= k
    BY <2>1
  <2>2. CASE m <= a /\ m <= k
    BY <2>2
  <2>3. CASE k <= a /\ k <= m
    BY <2>3
  <2> QED
    BY <2>1, <2>2, <2>3
<1> DEFINE x == CHOOSE z \in {a, m, k} : \A y \in {a, m, k} : z <= y
<1>2. x \in {a, m, k} /\ \A y \in {a, m, k} : x <= y
  BY <1>1, Zenon
<1>3. Min({a, m, k}) = x
  BY DEF Min
<1> QED
  BY <1>2, <1>3

(* min of two numbers. *)
LEMMA MinOfTwo ==
  ASSUME NEW a \in Nat, NEW m \in Nat
  PROVE  LET x == Min({a, m}) IN x \in Nat /\ x <= a /\ x <= m
<1>1. {a, m} = {a, m, m}
  OBVIOUS
<1> QED
  BY <1>1, MinOfThree

(* The capacity is a number, negative when more is in flight than the window. *)
LEMMA CapacityType ==
  ASSUME TableOK, NEW p \in Pcbs
  PROVE  Capacity(p) \in Int
<1>1. pcbs[p].sndWnd \in Int /\ pcbs[p].sndNext \in Int /\ pcbs[p].sndUna \in Int
  BY DEF TableOK, Pcb, Window, SeqNum
<1> QED
  BY <1>1 DEF Capacity

(* send() waits or works on a connection that is there. *)
LEMMA SendFromOK ==
  ASSUME TableOK, NEW p \in Pcbs, NEW data \in Seq(Bytes),
         pcbs[p].state \in {"Established", "CloseWait"} => Capacity(p) >= 0
  PROVE  LET c == SendFrom(p, data)
         IN  /\ c = Idle \/ /\ c \in Call /\ c.pcb = p
                            /\ c.pc \in {"sending", "sendwait"}
                            /\ pcbs[p].state \in {"Established", "CloseWait"}
<1> DEFINE pc == IF Capacity(p) < 1 THEN "sendwait" ELSE "sending"
           c == SendFrom(p, data)
<1>1. CASE pcbs[p].state \in {"Established", "CloseWait"}
  <2>1. Capacity(p) \in Nat
    BY <1>1, CapacityType
  <2>2. pc \in {"sending", "sendwait"} /\ pc \in CallPc
    BY DEF CallPc
  <2> HIDE DEF pc
  <2>3. Waiting(pc, p) \in Call /\ Waiting(pc, p).pc = pc /\ Waiting(pc, p).pcb = p
    BY <2>2, WaitingType
  <2>4. c = [Waiting(pc, p) EXCEPT !.data = data, !.n = Capacity(p)]
    BY <1>1 DEF SendFrom, pc
  <2> HIDE DEF c
  <2>5. c \in Call /\ c.pc = pc /\ c.pcb = p
    BY <2>1, <2>3, <2>4 DEF Call
  <2> QED
    BY <1>1, <2>2, <2>5 DEF c
<1>2. CASE pcbs[p].state \notin {"Established", "CloseWait"}
  BY <1>2 DEF SendFrom
<1> QED
  BY <1>1, <1>2

(* send() looks at the block. *)
LEMMA SendStartsOK ==
  ASSUME IInv, NEW p \in handles, NEW data \in Payloads, SendStarts(p, data)
  PROVE  IInv'
<1>1. /\ TableOK /\ chan = <<>> /\ p \in Pcbs /\ call.pc = "idle"
      /\ handles \subseteq Pcbs /\ data \in Seq(Bytes)
  BY CallFacts, TrafficAssumption DEF SendStarts
<1>2. /\ call' = SendFrom(p, data) /\ OutOK' /\ chan' = <<>>
      /\ UNCHANGED <<pcbs, handles, phase>>
      /\ pcbs[p].state \in {"Established", "CloseWait"} => Capacity(p) >= 0
  BY <1>1, NoOut DEF SendStarts
<1>3. TableOK'
  BY <1>1, <1>2 DEF TableOK
<1>4. CASE call' = Idle
  <2>1. handles' \subseteq Pcbs
    BY <1>1, <1>2
  <2> QED
    BY <1>2, <1>3, <1>4, <2>1, ReturningStep
<1>5. CASE call' # Idle
  <2>1. /\ call' \in Call /\ call'.pcb = p /\ call'.pc \in {"sending", "sendwait"}
        /\ pcbs'[p].state \in {"Established", "CloseWait"}
    BY <1>1, <1>2, <1>5, SendFromOK
  <2>2. chan' \in Seq(BOOLEAN)
    BY <1>2, EmptySeq
  <2> QED
    BY <1>1, <1>2, <1>3, <2>1, <2>2, CallingStep
<1> QED
  BY <1>4, <1>5

(* send() wakes up and looks again. *)
LEMMA SendWakesOK ==
  ASSUME IInv, SendWakes
  PROVE  IInv'
<1> DEFINE p == call.pcb
<1>1. /\ TableOK /\ p \in Pcbs /\ call.pc = "sendwait" /\ call.data \in Seq(Bytes)
      /\ handles \subseteq Pcbs /\ chan \in Seq(BOOLEAN) /\ chan # <<>>
  BY DEF SendWakes, IInv, CallOK, Call
<1>2. /\ OutOK' /\ UNCHANGED <<pcbs, handles, phase>>
      /\ call' = IF Head(chan) THEN SendFrom(p, call.data) ELSE Idle
      /\ chan' = IF call'.pc = "idle" THEN <<>> ELSE Tail(chan)
      /\ Head(chan) /\ pcbs[p].state \in {"Established", "CloseWait"} =>
           Capacity(p) >= 0
  BY NoOut DEF SendWakes
<1>3. TableOK'
  BY <1>1, <1>2 DEF TableOK
<1>4. CASE call' = Idle
  <2>1. call'.pc = "idle"
    BY <1>4 DEF Idle
  <2>2. handles' \subseteq Pcbs /\ chan' = <<>>
    BY <1>1, <1>2, <2>1
  <2> QED
    BY <1>2, <1>3, <1>4, <2>2, ReturningStep
<1>5. CASE call' # Idle
  <2>1. /\ call' \in Call /\ call'.pcb = p /\ call'.pc \in {"sending", "sendwait"}
        /\ pcbs'[p].state \in {"Established", "CloseWait"}
    BY <1>1, <1>2, <1>5, SendFromOK
  <2>2. chan' \in Seq(BOOLEAN)
    <3>1. chan' = Tail(chan)
      BY <1>2, <2>1
    <3> QED
      BY <1>1, <3>1, HeadTailProperties
  <2> QED
    BY <1>1, <1>2, <1>3, <2>1, <2>2, CallingStep
<1> QED
  BY <1>4, <1>5

(* send() hands a segment to output(): una stays behind next. *)
LEMMA SendSegmentOK ==
  ASSUME IInv, SendSegment
  PROVE  IInv'
<1> DEFINE p == call.pcb
           c == pcbs[p]
           len == Min({Mss, Len(call.data), call.n})
           rest == SubSeq(call.data, len + 1, Len(call.data))
           f == {"ACK", "PSH"}
           d == AddDataQueue(c, c.sndNext, f, call.data)
           e == WithData(c, call.data, len)
<1>1. /\ TableOK /\ p \in Pcbs /\ call \in Call /\ call.pc = "sending"
      /\ handles \subseteq Pcbs /\ chan \in Seq(BOOLEAN) /\ PcbOK(c)
      /\ c.state \in {"Established", "CloseWait", "Free"}
  BY DEF SendSegment, IInv, CallOK, TableOK, WaitOK, SendingOK
<1>2. /\ call.data \in Seq(Bytes) /\ call.n \in Nat /\ c \in Pcb
      /\ Len(call.data) \in Nat /\ Mss \in Nat /\ f \in SUBSET Flag
      /\ c.sndNext \in SeqNum
  BY <1>1, LenProperties, TrafficAssumption DEF Call, PcbOK, Pcb, Flag
<1>3. len \in Nat /\ len <= Len(call.data)
  BY <1>2, MinOfThree
<1>4. c.sndNext + len \in SeqNum /\ c.sndNext <= c.sndNext + len
  <2>1. c.sndNext + len <= SeqMax
    BY DEF SendSegment
  <2> HIDE DEF len
  <2> QED
    BY <1>2, <1>3, <2>1, SeqAssumption DEF SeqNum
<1>5. rest \in Seq(Bytes)
  <2> HIDE DEF len
  <2> QED
    BY <1>2, <1>3, SubSeqProperties
<1>6. /\ pcbs' = [pcbs EXCEPT ![p] = e]
      /\ out' = {Reply(c, f, c.sndNext, call.data)}
  BY DEF SendSegment
<1>7. IF rest = <<>> THEN call' = Idle /\ chan' = <<>>
      ELSE call' = [call EXCEPT !.data = rest] /\ chan' = chan
  BY DEF SendSegment, Return
<1>8. UNCHANGED <<handles, phase>>
  BY DEF SendSegment
<1> HIDE DEF len, rest, f
<1>9. /\ d \in Pcb /\ d.state = c.state
      /\ d.iss = c.iss /\ d.sndUna = c.sndUna /\ d.sndNext = c.sndNext
      /\ d.rcvWnd = c.rcvWnd /\ d.buf = c.buf
  BY <1>2, AddDataQueueType
<1>10. OutOK'
  BY <1>2, <1>6, ReplyType DEF OutOK
<1> HIDE DEF d
<1> HIDE DEF e
<1>11. /\ e \in Pcb /\ e.state = c.state /\ e.sndNext = c.sndNext + len
       /\ e.iss = c.iss /\ e.sndUna = c.sndUna /\ e.rcvWnd = c.rcvWnd
       /\ e.buf = c.buf
  <2>1. e = [d EXCEPT !.sndNext = c.sndNext + len]
    BY DEF WithData, d, e, f
  <2> QED
    BY <1>4, <1>9, <2>1 DEF Pcb
<1>12. PcbOK(e)
  <2>1. c.iss \in Int /\ c.sndUna \in Int /\ c.sndNext \in Int /\ c.sndNext + len \in Int
    BY <1>2, <1>4 DEF Pcb, SeqNum
  <2>2. c.state # "SynSent" /\ SpaceOK(c) /\ c.state \notin HalfClosed
    BY <1>1 DEF PcbOK
  <2>3. c.state \in Connecting =>
          e.iss <= e.sndUna /\ e.sndUna <= e.sndNext /\ e.iss < e.sndNext
    BY <1>4, <1>11, <2>1, <2>2 DEF SpaceOK
  <2>4. SpaceOK(e)
    BY <1>11, <2>2, <2>3 DEF SpaceOK
  <2> QED
    BY <1>11, <2>2, <2>4 DEF PcbOK
<1>13. TableOK' /\ pcbs'[p] = e
  BY <1>1, <1>6, <1>12, OneBlock
<1>14. CASE rest = <<>>
  BY <1>1, <1>7, <1>8, <1>10, <1>13, <1>14, ReturningStep
<1>15. CASE rest # <<>>
  <2>1. /\ call' \in Call /\ call'.pcb = p /\ call'.pc = "sending"
        /\ chan' \in Seq(BOOLEAN)
    BY <1>1, <1>5, <1>7, <1>15 DEF Call
  <2>2. pcbs'[p].state \in {"Established", "CloseWait", "Free"}
    BY <1>1, <1>11, <1>13
  <2> QED
    BY <1>1, <1>8, <1>10, <1>13, <2>1, <2>2, CallingStep
<1> QED
  BY <1>14, <1>15

(* receive() waits only when its connection has nothing for it. *)
LEMMA ReceiveFromOK ==
  ASSUME TableOK, NEW p \in Pcbs, NEW size \in Nat, NEW woken \in BOOLEAN
  PROVE  LET c == ReceiveFrom(p, size, woken)
         IN  \/ c = Idle
             \/ /\ c \in Call /\ c.pcb = p /\ c.pc \in {"recvwait", "recvcopy", "spin"}
                /\ c.pc = "recvwait" =>
                     pcbs[p].state \in TextStates /\ pcbs[p].rcvWnd = BufLen
<1> DEFINE s == pcbs[p].state
           wnd == pcbs[p].rcvWnd
           lim == IF woken \/ (s = "CloseWait" /\ BufLen > wnd)
                  THEN Min({size, BufLen - wnd}) ELSE size
           pc == CASE s \in TextStates ->
                        IF wnd >= BufLen THEN "recvwait" ELSE "recvcopy"
                   [] s = "CloseWait" -> "recvcopy"
                   [] s \in {"Closed", "Listen", "SynSent", "SynReceived"} -> "idle"
                   [] OTHER -> "spin"
           c == ReceiveFrom(p, size, woken)
<1>1. wnd \in 0..BufLen /\ BufLen \in Nat
  BY BufAssumption DEF TableOK, Pcb, Window
<1>2. lim \in Nat
  <2>1. BufLen - wnd \in Nat
    BY <1>1
  <2>2. Min({size, BufLen - wnd}) \in Nat
    <3> HIDE DEF wnd
    <3> QED
      BY <2>1, MinOfTwo
  <2> QED
    BY <2>2
<1>3. /\ pc \in {"recvwait", "recvcopy", "idle", "spin"}
      /\ pc = "recvwait" => s \in TextStates /\ wnd = BufLen
  BY <1>1 DEF TextStates
<1>4. c = CASE pc = "idle" -> Idle
            [] pc = "recvcopy" -> [Waiting(pc, p) EXCEPT !.n = lim]
            [] OTHER -> [Waiting(pc, p) EXCEPT !.n = size]
  BY DEF ReceiveFrom
<1> HIDE DEF pc, lim, c
<1>5. CASE pc = "idle"
  BY <1>4, <1>5 DEF c
<1>6. CASE pc \in {"recvwait", "recvcopy", "spin"}
  <2>1. Waiting(pc, p) \in Call /\ Waiting(pc, p).pc = pc /\ Waiting(pc, p).pcb = p
    BY <1>6, WaitingType DEF CallPc
  <2>2. c = [Waiting(pc, p) EXCEPT !.n = lim] \/ c = [Waiting(pc, p) EXCEPT !.n = size]
    BY <1>4, <1>6
  <2>3. c \in Call /\ c.pc = pc /\ c.pcb = p
    BY <1>2, <2>1, <2>2 DEF Call
  <2> QED
    BY <1>3, <1>6, <2>3 DEF c
<1> QED
  BY <1>3, <1>5, <1>6

(* receive() looks at the block: it sleeps only with a full window. *)
LEMMA ReceiveStartsOK ==
  ASSUME IInv, NEW p \in handles, NEW size \in Sizes, ReceiveStarts(p, size)
  PROVE  IInv'
<1>1. /\ TableOK /\ chan = <<>> /\ p \in Pcbs /\ handles \subseteq Pcbs
      /\ size \in Nat
  BY CallFacts, TrafficAssumption DEF ReceiveStarts
<1>2. /\ call' = ReceiveFrom(p, size, FALSE) /\ OutOK' /\ chan' = <<>>
      /\ UNCHANGED <<pcbs, handles, phase>>
  BY <1>1, NoOut DEF ReceiveStarts
<1>3. TableOK'
  BY <1>1, <1>2 DEF TableOK
<1>4. CASE call' = Idle
  <2>1. handles' \subseteq Pcbs
    BY <1>1, <1>2
  <2> QED
    BY <1>2, <1>3, <1>4, <2>1, ReturningStep
<1>5. CASE call' # Idle
  <2>1. /\ call' \in Call /\ call'.pcb = p
        /\ call'.pc \in {"recvwait", "recvcopy", "spin"}
        /\ call'.pc = "recvwait" =>
             pcbs'[p].state \in TextStates /\ pcbs'[p].rcvWnd = BufLen
    BY <1>1, <1>2, <1>5, ReceiveFromOK
  <2>2. chan' \in Seq(BOOLEAN)
    BY <1>2, EmptySeq
  <2> QED
    BY <1>1, <1>2, <1>3, <2>1, <2>2, CallingStep
<1> QED
  BY <1>4, <1>5

(* receive() wakes up and looks again. *)
LEMMA ReceiveWakesOK ==
  ASSUME IInv, ReceiveWakes
  PROVE  IInv'
<1> DEFINE p == call.pcb
<1>1. /\ TableOK /\ p \in Pcbs /\ call.pc = "recvwait" /\ call.n \in Nat
      /\ handles \subseteq Pcbs /\ chan \in Seq(BOOLEAN) /\ chan # <<>>
  BY DEF ReceiveWakes, IInv, CallOK, Call
<1>2. /\ OutOK' /\ UNCHANGED <<pcbs, handles, phase>>
      /\ call' = IF Head(chan) THEN ReceiveFrom(p, call.n, TRUE) ELSE Idle
      /\ chan' = IF call'.pc = "idle" THEN <<>> ELSE Tail(chan)
  BY NoOut DEF ReceiveWakes
<1>3. TableOK'
  BY <1>1, <1>2 DEF TableOK
<1>4. CASE call' = Idle
  <2>1. call'.pc = "idle"
    BY <1>4 DEF Idle
  <2>2. handles' \subseteq Pcbs /\ chan' = <<>>
    BY <1>1, <1>2, <2>1
  <2> QED
    BY <1>2, <1>3, <1>4, <2>2, ReturningStep
<1>5. CASE call' # Idle
  <2>1. /\ call' \in Call /\ call'.pcb = p
        /\ call'.pc \in {"recvwait", "recvcopy", "spin"}
        /\ call'.pc = "recvwait" =>
             pcbs'[p].state \in TextStates /\ pcbs'[p].rcvWnd = BufLen
    BY <1>1, <1>2, <1>5, ReceiveFromOK
  <2>2. chan' \in Seq(BOOLEAN)
    <3>1. chan' = Tail(chan)
      BY <1>2, <2>1
    <3> QED
      BY <1>1, <3>1, HeadTailProperties
  <2> QED
    BY <1>1, <1>2, <1>3, <2>1, <2>2, CallingStep
<1> QED
  BY <1>4, <1>5

(* receive() takes bytes out of the buffer and gives them to the window. *)
LEMMA ReceiveCopiesOK ==
  ASSUME IInv, ReceiveCopies
  PROVE  IInv'
<1> DEFINE p == call.pcb
           c == pcbs[p]
           len == Min({Len(c.buf), call.n})
           rest == SubSeq(c.buf, len + 1, Len(c.buf))
           d == [c EXCEPT !.buf = rest, !.rcvWnd = c.rcvWnd + len]
<1>1. /\ TableOK /\ p \in Pcbs /\ call \in Call /\ handles \subseteq Pcbs
      /\ PcbOK(c)
  BY DEF ReceiveCopies, IInv, CallOK, TableOK
<1>2. /\ call.n \in Nat /\ c.buf \in Seq(Bytes) /\ Len(c.buf) \in Nat
      /\ c.rcvWnd \in 0..BufLen /\ BufLen \in Nat
  BY <1>1, LenProperties, BufAssumption DEF Call, PcbOK, Pcb, Window
<1>3. len \in Nat /\ len <= Len(c.buf)
  BY <1>2, MinOfTwo
<1>4. c.rcvWnd + len <= BufLen
  BY DEF ReceiveCopies
<1>5. pcbs' = [pcbs EXCEPT ![p] = d]
  BY <1>1 DEF ReceiveCopies, TableOK, Pcb
<1>6. /\ call' = Idle /\ chan' = <<>> /\ OutOK' /\ UNCHANGED <<handles, phase>>
  BY NoOut DEF ReceiveCopies, Return
<1> HIDE DEF len
<1>7. rest \in Seq(Bytes) /\ Len(rest) = Len(c.buf) - len
  BY <1>2, <1>3, SubSeqProperties
<1>8. c.rcvWnd + len \in Window
  BY <1>2, <1>3, <1>4 DEF Window
<1> HIDE DEF rest
<1>9. /\ d \in Pcb /\ d.state = c.state /\ d.iss = c.iss /\ d.sndUna = c.sndUna
      /\ d.sndNext = c.sndNext /\ d.buf = rest /\ d.rcvWnd = c.rcvWnd + len
  BY <1>1, <1>7, <1>8 DEF PcbOK, Pcb
<1> HIDE DEF d
<1>10. d.rcvWnd + Len(d.buf) = c.rcvWnd + Len(c.buf)
  BY <1>2, <1>3, <1>7, <1>9
<1>11. PcbOK(d)
  BY <1>1, <1>9, <1>10 DEF PcbOK, SpaceOK
<1>12. TableOK'
  BY <1>1, <1>5, <1>11, OneBlock
<1> QED
  BY <1>1, <1>6, <1>12, ReturningStep

-----------------------------------------------------------------------------
(* Ending *)

(* close() sends a RST and releases the block. *)
LEMMA CloseOK ==
  ASSUME IInv, NEW p \in handles, Close(p)
  PROVE  IInv'
<1> DEFINE f == {"RST"}
<1>1. /\ TableOK /\ call.pc = "idle" /\ handles \subseteq Pcbs /\ p \in Pcbs
      /\ PcbOK(pcbs[p])
  BY CallFacts DEF Close, TableOK
<1>2. /\ pcbs[p] \in Pcb /\ pcbs[p].sndNext \in SeqNum /\ f \in SUBSET Flag
      /\ <<>> \in Seq(Bytes)
  BY <1>1, EmptySeq DEF PcbOK, Pcb, Flag
<1>3. /\ pcbs' = [pcbs EXCEPT ![p] = Release(pcbs[p])]
      /\ out' = {Reply(pcbs[p], f, pcbs[p].sndNext, <<>>)}
      /\ call' = call /\ chan' = chan /\ handles' \subseteq Pcbs
      /\ UNCHANGED phase
  BY <1>1 DEF Close
<1> HIDE DEF f
<1>4. OutOK'
  BY <1>2, <1>3, ReplyType DEF OutOK
<1>5. PcbOK(Release(pcbs[p]))
  BY <1>1, ReleaseOK
<1>6. TableOK'
  BY <1>1, <1>3, <1>5, OneBlock
<1> QED
  BY <1>1, <1>3, <1>4, <1>6, ImmediateStep

(* close_sockets() releases every block and wakes up the call. *)
LEMMA CloseSocketsOK ==
  ASSUME IInv, CloseSockets
  PROVE  IInv'
<1>1. ASSUME NEW p \in Pcbs
      PROVE  PcbOK(pcbs'[p]) /\ pcbs'[p].state = "Free"
  <2>1. pcbs'[p] = Release(pcbs[p]) /\ PcbOK(pcbs[p])
    BY DEF IInv, TableOK, CloseSockets
  <2> QED
    BY <2>1, ReleaseOK
<1>2. TableOK'
  <2>1. pcbs' = [p \in Pcbs |-> pcbs'[p]]
    BY DEF CloseSockets
  <2> QED
    BY <1>1, <2>1 DEF TableOK, PcbOK
<1>3. chan \in Seq(BOOLEAN) /\ Token(call.pcb, FALSE) \in Seq(BOOLEAN)
  BY TokenType DEF IInv, CallOK
<1>4. CallOK'
  <2>1. chan' \in Seq(BOOLEAN)
    BY <1>3, ConcatProperties DEF CloseSockets
  <2>2. call.pc = "idle" => chan' = <<>>
    BY <1>3, NoTokenWhenIdle, ConcatEmptySeq DEF CloseSockets, IInv, CallOK
  <2> QED
    BY <2>1, <2>2 DEF IInv, CallOK, CloseSockets
<1>5. NoLostWakeup'
  <2>1. call.pc # "idle" => chan' # <<>>
    BY <1>3, TokenEmpty, ConcatEmpty DEF CloseSockets
  <2> QED
    BY <2>1 DEF NoLostWakeup, CloseSockets
<1>6. ConnectStarves' /\ OutOK'
  BY DEF ConnectStarves, OutOK, CloseSockets
<1>7. SendingOK'
  BY <1>1 DEF SendingOK, CloseSockets, IInv, CallOK
<1> QED
  BY <1>2, <1>4, <1>5, <1>6, <1>7 DEF IInv, WaitOK

-----------------------------------------------------------------------------
(* The induction step *)

(* Every new call. *)
LEMMA CallsOK ==
  ASSUME IInv, Calls
  PROVE  IInv'
<1>1. CASE CallPanics
  BY <1>1, PanicOK DEF CallPanics
<1>2. CASE SocketOpen
  BY <1>2, SocketOpenOK
<1>3. ASSUME NEW local \in Locals,
             \/ PassiveOpen(local)
             \/ \E remote \in Remotes : ActiveOpen(local, remote)
             \/ \E p \in handles : Bind(p, local)
      PROVE  IInv'
  BY <1>3, PassiveOpenOK, ActiveOpenOK, BindOK
<1>4. ASSUME NEW p \in handles,
             \/ Listen(p) \/ Accept(p) \/ Close(p)
             \/ \E remote \in Remotes : Connect(p, remote)
             \/ \E data \in Payloads : SendStarts(p, data)
             \/ \E size \in Sizes : ReceiveStarts(p, size)
      PROVE  IInv'
  BY <1>4, ListenOK, AcceptOK, CloseOK, ConnectOK, SendStartsOK,
     ReceiveStartsOK
<1> QED
  BY <1>1, <1>2, <1>3, <1>4 DEF Calls

(* Every further step of a call. *)
LEMMA CallStepsOK ==
  ASSUME IInv, CallSteps
  PROVE  IInv'
<1>1. CASE TransferPanics
  BY <1>1, PanicOK DEF TransferPanics
<1> QED
  BY <1>1, OpenWakesOK, ConnectWakesOK, AcceptWakesOK, SendSegmentOK,
     SendWakesOK, ReceiveWakesOK, ReceiveCopiesOK DEF CallSteps

(* Every step preserves the inductive invariant. *)
LEMMA NextOK ==
  ASSUME IInv, [Next]_vars
  PROVE  IInv'
<1>1. CASE UNCHANGED vars
  <2>1. OutOK' /\ UNCHANGED <<pcbs, call, chan, handles, phase>>
    BY <1>1 DEF vars, IInv, OutOK
  <2> QED
    BY <2>1, SendingStep
<1>2. CASE InputPanics
  BY <1>2, PanicOK DEF InputPanics
<1> QED
  BY <1>1, <1>2, SegmentArrivesOK, RetransmitOK, TimeOK, CallsOK, CallStepsOK,
     CloseSocketsOK DEF Next

-----------------------------------------------------------------------------
(* Acknowledgments, sent and received *)

GoesOn(c, d) == Advances(c, d) /\ KeepsReceived(c, d)
AllAdvance == \A p \in Pcbs : GoesOn(pcbs[p], pcbs'[p])
Live == {"Established", "CloseWait"}

(* A block whose una and next stay has not moved back. *)
LEMMA SameAdvances ==
  ASSUME NEW c, PcbOK(c), NEW d, d.sndUna = c.sndUna, d.sndNext = c.sndNext,
         d.rcvNext = c.rcvNext
  PROVE  GoesOn(c, d)
<1>1. c.state \in Live => /\ c.sndUna \in Int /\ c.sndNext \in Int
                          /\ c.rcvNext \in Int /\ c.sndUna <= c.sndNext
  BY DEF Live, PcbOK, SpaceOK, Connecting, Pcb, SeqNum
<1> QED
  BY <1>1 DEF GoesOn, Advances, KeepsReceived, Live

(* Nothing is asked of a block that is not connected before and after. *)
LEMMA DeadAdvances ==
  ASSUME NEW c, NEW d, c.state \notin Live \/ d.state \notin Live
  PROVE  GoesOn(c, d)
BY DEF GoesOn, Advances, KeepsReceived, Live

(* A step that changes one block. *)
LEMMA OneBlockAdvances ==
  ASSUME TableOK, NEW q \in Pcbs, NEW s, GoesOn(pcbs[q], s),
         pcbs' = [pcbs EXCEPT ![q] = s]
  PROVE  AllAdvance
<1> SUFFICES ASSUME NEW p \in Pcbs PROVE GoesOn(pcbs[p], pcbs'[p])
  BY DEF AllAdvance
<1>1. CASE p = q
  BY <1>1 DEF TableOK
<1>2. CASE p # q
  <2>1. pcbs'[p] = pcbs[p] /\ PcbOK(pcbs[p])
    BY <1>2 DEF TableOK
  <2> QED
    BY <2>1, SameAdvances
<1> QED
  BY <1>1, <1>2

(* A step that leaves the table alone. *)
LEMMA UnchangedAdvances ==
  ASSUME TableOK, UNCHANGED pcbs
  PROVE  AllAdvance
BY SameAdvances DEF AllAdvance, TableOK

(* release() ends the connection. *)
LEMMA ReleaseAdvances ==
  ASSUME TableOK, NEW q \in Pcbs, pcbs' = [pcbs EXCEPT ![q] = Release(pcbs[q])]
  PROVE  AllAdvance
<1>1. Release(pcbs[q]).state \notin Live
  BY ReleaseOK DEF TableOK, Live
<1> QED
  BY <1>1, DeadAdvances, OneBlockAdvances

(* A listener's SYN starts a connection in SYN-RECEIVED. *)
LEMMA ListenSynAdvances ==
  ASSUME IInv, NEW seg \in Segments, NEW p \in Pcbs, ListenSyn(seg, p)
  PROVE  AllAdvance
<1> DEFINE q(c) == IF pcbs[p].mode = "Socket"
                   THEN [pcbs[c] EXCEPT !.mode = "Socket", !.parent = p]
                   ELSE pcbs[c]
           s(c, iss) == PassiveSyn(q(c), seg, iss)
<1>1. PICK iss \in InitialSeqs, c \in Pcbs : pcbs' = [pcbs EXCEPT ![c] = s(c, iss)]
  BY DEF ListenSyn
<1>2. PcbOK(q(c)) /\ seg \in Segment /\ seg.seq < SeqMax
  BY ModeParentOK, SegmentType DEF IInv, TableOK, ListenSyn
<1> HIDE DEF q
<1>3. s(c, iss).state \notin Live
  BY <1>2, PassiveSynOK DEF Live
<1> HIDE DEF s
<1> QED
  BY <1>1, <1>3, DeadAdvances, OneBlockAdvances DEF IInv

(* The ACK stage: una only moves forward and not beyond next. *)
LEMMA ProcessAdvances ==
  ASSUME IInv, NEW seg \in Segments, NEW p \in Pcbs, Process(seg, p)
  PROVE  AllAdvance
<1> DEFINE c == pcbs[p]
           d == AfterFin(c, seg)
           announced == c.state = "SynReceived" /\ c.parent # NoPcb
           old(q) == IF q = p THEN d ELSE pcbs[q]
           new(q) == IF announced /\ q = c.parent
                     THEN [old(q) EXCEPT !.backlog = Append(old(q).backlog, p)]
                     ELSE old(q)
<1>1. /\ seg \in Segment /\ PcbOK(c) /\ Processed(c, seg)
      /\ ~ProcessingOverflows(c, seg)
  BY SegmentType DEF IInv, TableOK, Process, Overflows
<1>2. /\ PcbOK(d) /\ d.sndNext = c.sndNext
      /\ c.state # "Free" => c.sndUna <= d.sndUna /\ d.sndUna <= c.sndNext
      /\ KeepsReceived(c, d)
  BY <1>1, AfterFinOK DEF KeepsReceived
<1>3. pcbs' = [q \in Pcbs |-> new(q)]
  BY DEF Process
<1> HIDE DEF d
<1>4. GoesOn(c, d)
  <2>1. c.sndNext \in Int
    BY <1>1 DEF PcbOK, Pcb, SeqNum
  <2> QED
    BY <1>2, <2>1 DEF GoesOn, Advances, KeepsReceived
<1>5. ASSUME NEW q \in Pcbs
      PROVE  GoesOn(pcbs[q], new(q))
  <2>1. PcbOK(old(q)) /\ GoesOn(pcbs[q], old(q))
    BY <1>2, <1>4, SameAdvances DEF IInv, TableOK
  <2>2. Append(old(q).backlog, p) \in Seq(Pcbs)
    <3>1. old(q).backlog \in Seq(Pcbs)
      BY <2>1 DEF PcbOK, Pcb
    <3> HIDE DEF old
    <3> QED
      BY <3>1, AppendProperties
  <2> HIDE DEF old, announced, c
  <2>3. /\ new(q).state = old(q).state /\ new(q).sndUna = old(q).sndUna
        /\ new(q).sndNext = old(q).sndNext /\ new(q).rcvNext = old(q).rcvNext
    BY <2>1, <2>2, BacklogOK
  <2> QED
    BY <2>1, <2>3 DEF GoesOn, Advances, KeepsReceived
<1> HIDE DEF new
<1> QED
  BY <1>3, <1>5 DEF AllAdvance

(* Every way through segment_arrives. *)
LEMMA SegmentArrivesAdvances ==
  ASSUME IInv, SegmentArrives
  PROVE  AllAdvance
<1>1. TableOK
  BY DEF IInv
<1>2. PICK seg \in Segments :
        \/ Refuse(seg)
        \/ ArrivalPanics(seg)
        \/ \E p \in Pcbs :
             \/ RefuseAck(seg, p) \/ ListenSyn(seg, p)
             \/ SynSentReset(seg, p) \/ SynSentArrives(seg, p)
             \/ Unacceptable(seg, p) \/ Reset(seg, p)
             \/ AckAhead(seg, p) \/ Process(seg, p)
  BY DEF SegmentArrives
<1>3. CASE Refuse(seg) \/ ArrivalPanics(seg)
  BY <1>1, <1>3, UnchangedAdvances DEF Refuse, ArrivalPanics, Panic
<1>4. ASSUME NEW p \in Pcbs,
             RefuseAck(seg, p) \/ Unacceptable(seg, p) \/ AckAhead(seg, p)
      PROVE  AllAdvance
  BY <1>1, <1>4, UnchangedAdvances DEF RefuseAck, Unacceptable, AckAhead
<1>5. ASSUME NEW p \in Pcbs, SynSentReset(seg, p) \/ Reset(seg, p)
      PROVE  AllAdvance
  BY <1>1, <1>5, ReleaseAdvances DEF SynSentReset, Reset
<1>6. ASSUME NEW p \in Pcbs, SynSentArrives(seg, p)
      PROVE  AllAdvance
  <2>1. /\ pcbs[p].state \notin Live
        /\ pcbs' = [pcbs EXCEPT ![p] = SynSentSyn(pcbs[p], seg)]
    BY <1>6 DEF SynSentArrives, SynSentTakesSyn, Live
  <2> QED
    BY <1>1, <2>1, DeadAdvances, OneBlockAdvances
<1> QED
  BY <1>2, <1>3, <1>4, <1>5, <1>6, ListenSynAdvances, ProcessAdvances

(* retransmit() and time move neither una nor next. *)
LEMMA TimeAdvances ==
  ASSUME IInv, Retransmit \/ RetryIntervalPasses \/ TimeoutPasses
  PROVE  AllAdvance
<1> SUFFICES ASSUME NEW p \in Pcbs PROVE GoesOn(pcbs[p], pcbs'[p])
  BY DEF AllAdvance
<1>1. PcbOK(pcbs[p])
  BY DEF IInv, TableOK
<1>2. CASE Retransmit
  <2>1. pcbs'[p] = AfterRetransmit(pcbs[p])
    BY <1>2 DEF Retransmit
  <2>2. \/ pcbs'[p].state \notin Live
        \/ /\ pcbs'[p].sndUna = pcbs[p].sndUna
           /\ pcbs'[p].sndNext = pcbs[p].sndNext
           /\ pcbs'[p].rcvNext = pcbs[p].rcvNext
    BY <1>1, <2>1, AfterRetransmitOK DEF Live
  <2> QED
    BY <1>1, <2>2, SameAdvances, DeadAdvances
<1>3. ASSUME NEW ages \in [Ages -> Ages], Age(ages)
      PROVE  GoesOn(pcbs[p], pcbs'[p])
  <2>1. pcbs'[p] = Aged(pcbs[p], ages)
    BY <1>3 DEF Age
  <2>2. /\ pcbs'[p].sndUna = pcbs[p].sndUna /\ pcbs'[p].sndNext = pcbs[p].sndNext
        /\ pcbs'[p].rcvNext = pcbs[p].rcvNext
    BY <1>1, <2>1, AgedOK
  <2> QED
    BY <1>1, <2>2, SameAdvances
<1>4. /\ [fresh |-> "due", due |-> "due", expired |-> "expired"] \in [Ages -> Ages]
      /\ [fresh |-> "expired", due |-> "expired", expired |-> "expired"]
           \in [Ages -> Ages]
  BY DEF Ages
<1> QED
  BY <1>2, <1>3, <1>4 DEF RetryIntervalPasses, TimeoutPasses

(* rfc793_open and bind. *)
LEMMA OpensAdvance ==
  ASSUME IInv, NEW local \in Locals,
         \/ PassiveOpen(local)
         \/ \E remote \in Remotes : ActiveOpen(local, remote)
         \/ \E p \in handles : Bind(p, local)
  PROVE  AllAdvance
<1>1. TableOK /\ handles \subseteq Pcbs /\ \A p \in Pcbs : PcbOK(pcbs[p])
  BY DEF IInv, TableOK, CallOK
<1>2. CASE PassiveOpen(local)
  <2>1. PICK p \in Pcbs :
          pcbs' = [pcbs EXCEPT ![p].mode = "Rfc793", ![p].local = local,
                               ![p].state = "Listen"]
    BY <1>2 DEF PassiveOpen
  <2> DEFINE d == [pcbs[p] EXCEPT !.mode = "Rfc793", !.local = local,
                                  !.state = "Listen"]
  <2>2. d.state \notin Live /\ pcbs' = [pcbs EXCEPT ![p] = d]
    BY <1>1, <2>1 DEF TableOK, Pcb, Live
  <2> HIDE DEF d
  <2> QED
    BY <1>1, <2>2, DeadAdvances, OneBlockAdvances
<1>3. ASSUME NEW remote \in Remotes, ActiveOpen(local, remote)
      PROVE  AllAdvance
  <2> DEFINE s(p, iss) == ActiveSyn([pcbs[p] EXCEPT !.mode = "Rfc793"], local,
                                    remote, iss)
  <2>1. PICK p \in Pcbs, iss \in InitialSeqs : pcbs' = [pcbs EXCEPT ![p] = s(p, iss)]
    BY <1>3 DEF ActiveOpen
  <2>2. local \in Endpoint /\ remote \in Endpoint
    BY EndpointType
  <2>3. PcbOK([pcbs[p] EXCEPT !.mode = "Rfc793"])
    BY <1>1, <2>2, FieldsOK
  <2>4. s(p, iss).state \notin Live
    BY <2>2, <2>3, ActiveSynOK DEF Live
  <2> HIDE DEF s
  <2> QED
    BY <1>1, <2>1, <2>4, DeadAdvances, OneBlockAdvances
<1>4. ASSUME NEW p \in handles, Bind(p, local)
      PROVE  AllAdvance
  <2> DEFINE d == [pcbs[p] EXCEPT !.local = local]
  <2>1. /\ pcbs' = [pcbs EXCEPT ![p] = d] /\ p \in Pcbs
        /\ d.sndUna = pcbs[p].sndUna /\ d.sndNext = pcbs[p].sndNext
        /\ d.rcvNext = pcbs[p].rcvNext
    BY <1>1, <1>4 DEF Bind, TableOK, Pcb
  <2> HIDE DEF d
  <2> QED
    BY <1>1, <2>1, SameAdvances, OneBlockAdvances
<1> QED
  BY <1>2, <1>3, <1>4

(* The socket calls up to their waits. *)
LEMMA SocketCallsAdvance ==
  ASSUME IInv, NEW p \in handles,
         \/ Listen(p) \/ Accept(p) \/ Close(p)
         \/ \E remote \in Remotes : Connect(p, remote)
         \/ \E data \in Payloads : SendStarts(p, data)
         \/ \E size \in Sizes : ReceiveStarts(p, size)
  PROVE  AllAdvance
<1>1. TableOK /\ p \in Pcbs /\ PcbOK(pcbs[p])
  BY DEF IInv, TableOK, CallOK
<1>2. CASE Listen(p)
  <2> DEFINE d == [pcbs[p] EXCEPT !.state = "Listen"]
  <2>1. pcbs' = [pcbs EXCEPT ![p] = d] /\ d.state \notin Live
    BY <1>1, <1>2 DEF Listen, TableOK, Pcb, Live
  <2> HIDE DEF d
  <2> QED
    BY <1>1, <2>1, DeadAdvances, OneBlockAdvances
<1>3. CASE Accept(p)
  <2> DEFINE d == [pcbs[p] EXCEPT !.backlog = Tail(pcbs[p].backlog)]
  <2>1. /\ pcbs' = [pcbs EXCEPT ![p] = d]
        /\ d.sndUna = pcbs[p].sndUna /\ d.sndNext = pcbs[p].sndNext
        /\ d.rcvNext = pcbs[p].rcvNext
    BY <1>1, <1>3 DEF Accept, TableOK, Pcb
  <2> HIDE DEF d
  <2> QED
    BY <1>1, <2>1, SameAdvances, OneBlockAdvances
<1>4. CASE Close(p)
  BY <1>1, <1>4, ReleaseAdvances DEF Close
<1>5. ASSUME NEW remote \in Remotes, Connect(p, remote)
      PROVE  AllAdvance
  <2> DEFINE old == pcbs[p].local
             loc(port) == [addr |-> IF old.addr = AnyAddr THEN Me ELSE old.addr,
                           port |-> port]
             s(port, iss) == ActiveSyn(pcbs[p], loc(port), remote, iss)
  <2>1. PICK port \in Ports, iss \in InitialSeqs :
          pcbs' = [pcbs EXCEPT ![p] = s(port, iss)]
    BY <1>5 DEF Connect
  <2>2. remote \in Endpoint /\ Me \in Addrs /\ old \in Endpoint
    BY <1>1, EndpointType DEF PcbOK, Pcb
  <2>3. loc(port) \in Endpoint
    BY <2>2 DEF Endpoint
  <2> HIDE DEF loc, old
  <2>4. s(port, iss).state \notin Live
    BY <1>1, <2>2, <2>3, ActiveSynOK DEF Live
  <2> HIDE DEF s
  <2> QED
    BY <1>1, <2>1, <2>4, DeadAdvances, OneBlockAdvances
<1>6. CASE \/ \E data \in Payloads : SendStarts(p, data)
           \/ \E size \in Sizes : ReceiveStarts(p, size)
  BY <1>1, <1>6, UnchangedAdvances DEF SendStarts, ReceiveStarts
<1> QED
  BY <1>2, <1>3, <1>4, <1>5, <1>6

(* open() takes a free block. *)
LEMMA SocketOpenAdvances ==
  ASSUME IInv, SocketOpen
  PROVE  AllAdvance
<1>1. PICK p \in Pcbs :
        pcbs' = [pcbs EXCEPT ![p].state = "Closed", ![p].mode = "Socket"]
  BY DEF SocketOpen
<1> DEFINE d == [pcbs[p] EXCEPT !.state = "Closed", !.mode = "Socket"]
<1>2. TableOK /\ pcbs' = [pcbs EXCEPT ![p] = d] /\ d.state \notin Live
  BY <1>1 DEF IInv, TableOK, Pcb, Live
<1> HIDE DEF d
<1> QED
  BY <1>2, DeadAdvances, OneBlockAdvances

(* The wakeups of rfc793_open, connect and accept. *)
LEMMA WakesAdvance ==
  ASSUME IInv, OpenWakes \/ ConnectWakes \/ AcceptWakes
  PROVE  AllAdvance
<1> DEFINE p == call.pcb
<1>1. TableOK /\ p \in Pcbs /\ PcbOK(pcbs[p])
  BY DEF IInv, TableOK, CallOK, OpenWakes, ConnectWakes, AcceptWakes
<1>2. CASE OpenWakes
  BY <1>1, <1>2, ReleaseAdvances, UnchangedAdvances DEF OpenWakes
<1>3. CASE ConnectWakes
  <2> DEFINE d == [pcbs[p] EXCEPT !.state = "Closed"]
  <2>1. /\ pcbs' = pcbs \/ pcbs' = [pcbs EXCEPT ![p] = d]
        /\ d.state \notin Live
    BY <1>1, <1>3 DEF ConnectWakes, TableOK, Pcb, Live
  <2> HIDE DEF d
  <2>2. CASE pcbs' = pcbs
    BY <1>1, <2>2, UnchangedAdvances
  <2> QED
    BY <1>1, <2>1, <2>2, DeadAdvances, OneBlockAdvances
<1>4. CASE AcceptWakes
  <2> DEFINE d == [pcbs[p] EXCEPT !.backlog = RestOf(pcbs[p].backlog)]
  <2>1. /\ pcbs' = pcbs \/ pcbs' = [pcbs EXCEPT ![p] = d]
        /\ d.sndUna = pcbs[p].sndUna /\ d.sndNext = pcbs[p].sndNext
        /\ d.rcvNext = pcbs[p].rcvNext
    <3>1. /\ d.sndUna = pcbs[p].sndUna /\ d.sndNext = pcbs[p].sndNext
          /\ d.rcvNext = pcbs[p].rcvNext
      BY <1>1 DEF TableOK, Pcb
    <3>2. CASE ~Head(chan) \/ pcbs[p].state = "Closed"
      BY <1>4, <3>1, <3>2 DEF AcceptWakes
    <3>3. CASE ~(~Head(chan) \/ pcbs[p].state = "Closed")
      BY <1>1, <1>4, <3>1, <3>3 DEF AcceptWakes, TableOK, Pcb
    <3> QED
      BY <3>2, <3>3
  <2> HIDE DEF d
  <2>2. GoesOn(pcbs[p], d)
    BY <1>1, <2>1, SameAdvances
  <2>3. CASE pcbs' = pcbs
    BY <1>1, <2>3, UnchangedAdvances
  <2> QED
    BY <1>1, <2>1, <2>2, <2>3, OneBlockAdvances
<1> QED
  BY <1>2, <1>3, <1>4

(* send() moves next forward. *)
LEMMA SendSegmentAdvances ==
  ASSUME IInv, SendSegment
  PROVE  AllAdvance
<1> DEFINE p == call.pcb
           c == pcbs[p]
           len == Min({Mss, Len(call.data), call.n})
           d == WithData(c, call.data, len)
<1>1. TableOK /\ p \in Pcbs /\ PcbOK(c) /\ call \in Call
  BY DEF IInv, TableOK, CallOK, SendSegment
<1>2. /\ c.sndNext \in Int /\ c.sndUna \in Int /\ c.rcvNext \in Int /\ c \in Pcb
      /\ c.state \in Live => c.sndUna <= c.sndNext
  BY <1>1 DEF PcbOK, SpaceOK, Pcb, SeqNum, Live, Connecting
<1>3. len \in Nat
  <2>1. Mss \in Nat /\ Len(call.data) \in Nat /\ call.n \in Nat
    BY <1>1, TrafficAssumption, LenProperties DEF Call
  <2> QED
    BY <2>1, MinOfThree
<1>4. pcbs' = [pcbs EXCEPT ![p] = d]
  BY DEF SendSegment
<1> HIDE DEF len
<1>5. d.sndUna = c.sndUna /\ d.sndNext = c.sndNext + len /\ d.rcvNext = c.rcvNext
  BY <1>2 DEF WithData, AddDataQueue, Pcb
<1> HIDE DEF d
<1>6. GoesOn(c, d)
  BY <1>2, <1>3, <1>5 DEF GoesOn, Advances, KeepsReceived, Live
<1> QED
  BY <1>1, <1>4, <1>6, OneBlockAdvances

(* receive() moves neither una nor next. *)
LEMMA ReceiveCopiesAdvances ==
  ASSUME IInv, ReceiveCopies
  PROVE  AllAdvance
<1> DEFINE p == call.pcb
           len == Min({Len(pcbs[p].buf), call.n})
           d == [pcbs[p] EXCEPT !.buf = SubSeq(pcbs[p].buf, len + 1, Len(pcbs[p].buf)),
                                !.rcvWnd = pcbs[p].rcvWnd + len]
<1>1. TableOK /\ p \in Pcbs /\ PcbOK(pcbs[p])
  BY DEF IInv, TableOK, CallOK, ReceiveCopies
<1>2. /\ pcbs' = [pcbs EXCEPT ![p] = d]
      /\ d.sndUna = pcbs[p].sndUna /\ d.sndNext = pcbs[p].sndNext
      /\ d.rcvNext = pcbs[p].rcvNext
  BY <1>1 DEF ReceiveCopies, TableOK, Pcb
<1> HIDE DEF d
<1> QED
  BY <1>1, <1>2, SameAdvances, OneBlockAdvances

(* close_sockets() ends every connection. *)
LEMMA CloseSocketsAdvances ==
  ASSUME IInv, CloseSockets
  PROVE  AllAdvance
<1> SUFFICES ASSUME NEW p \in Pcbs PROVE GoesOn(pcbs[p], pcbs'[p])
  BY DEF AllAdvance
<1>1. pcbs'[p] = Release(pcbs[p]) /\ PcbOK(pcbs[p])
  BY DEF IInv, TableOK, CloseSockets
<1>2. pcbs'[p].state \notin Live
  BY <1>1, ReleaseOK DEF Live
<1> QED
  BY <1>2, DeadAdvances

(* Every step moves una and next forward or ends the connection. *)
LEMMA NextAdvances ==
  ASSUME IInv, [Next]_vars
  PROVE  AllAdvance
<1>1. TableOK
  BY DEF IInv
<1>2. CASE UNCHANGED vars
  BY <1>1, <1>2, UnchangedAdvances DEF vars
<1>3. CASE Calls
  <2>1. CASE CallPanics
    BY <1>1, <2>1, UnchangedAdvances DEF CallPanics, Panic
  <2> QED
    BY <1>3, <2>1, OpensAdvance, SocketOpenAdvances, SocketCallsAdvance DEF Calls
<1>4. CASE CallSteps
  <2>1. CASE SendWakes \/ ReceiveWakes \/ TransferPanics
    BY <1>1, <2>1, UnchangedAdvances
       DEF SendWakes, ReceiveWakes, TransferPanics, Panic
  <2> QED
    BY <1>4, <2>1, WakesAdvance, SendSegmentAdvances, ReceiveCopiesAdvances
       DEF CallSteps
<1>5. CASE InputPanics
  BY <1>1, <1>5, UnchangedAdvances DEF InputPanics, Panic
<1> QED
  BY <1>2, <1>3, <1>4, <1>5, SegmentArrivesAdvances, TimeAdvances,
     CloseSocketsAdvances DEF Next

-----------------------------------------------------------------------------
(* Theorems *)

(* The inductive invariant holds in every state of the TCP of tcp.rs. *)
THEOREM Invariance == Spec => []IInv
<1>1. Init => IInv
  BY InitOK
<1>2. IInv /\ [Next]_vars => IInv'
  BY NextOK
<1> QED
  BY <1>1, <1>2, PTL DEF Spec

(* Every value the calls, the arriving segments and the retransmission      *)
(* thread compute stays in its type: no sequence number above u32::MAX, no  *)
(* window outside u16, no handle that is not a block.  Where the code would *)
(* leave the type, it has panicked.                                         *)
THEOREM TypeCorrect == Spec => []TypeOK
<1>1. IInv => TypeOK
  BY IInvImplies
<1> QED
  BY <1>1, Invariance, PTL

(* The five states that follow a FIN of this side are never entered, so     *)
(* retransmit() never unwraps wait_time.                                    *)
THEOREM HalfClosedUnreachable == Spec => []NeverHalfClosed
<1>1. IInv => NeverHalfClosed
  BY IInvImplies
<1> QED
  BY <1>1, Invariance, PTL

(* iss <= una <= next in every connection: what send() subtracts and        *)
(* segment_arrives() compares is in order, for every width of the sequence  *)
(* numbers.                                                                 *)
THEOREM SendSpaceHolds == Spec => []SendSpace
<1>1. IInv => SendSpace
  BY IInvImplies
<1> QED
  BY <1>1, Invariance, PTL

(* Only a data offset below five opens the window less than the buffer      *)
(* holds: when no segment has one, what the receive window lacks is in the  *)
(* buffer, for any buffer length, with options taken for text and with      *)
(* buffers left over from an earlier connection.                            *)
THEOREM WindowCovered == WholeText => (Spec => []WindowCoversBuffer)
<1> SUFFICES ASSUME WholeText
             PROVE  Spec => []WindowCoversBuffer
  OBVIOUS
<1>1. IInv => WindowCoversBuffer
  BY IInvImplies
<1> QED
  BY <1>1, Invariance, PTL

(* rfc793_open() and receive() never sleep on a connection that has         *)
(* something for them and has sent no token, whatever the threads do.       *)
THEOREM WakeupsArrive == Spec => []NoLostWakeup
<1>1. IInv => NoLostWakeup
  BY DEF IInv, WaitOK
<1> QED
  BY <1>1, Invariance, PTL

(* connect() never gets an answer while the process runs. *)
THEOREM ConnectNeverAnswered == Spec => []ConnectStarves
<1>1. IInv => ConnectStarves
  BY DEF IInv, WaitOK
<1> QED
  BY <1>1, Invariance, PTL

(* The acknowledged part of a connection only grows and never passes what   *)
(* send() had put on the wire before the acknowledgment.                    *)
THEOREM AcksAdvance == Spec => AckMonotone
<1>1. IInv /\ [Next]_vars => [\A p \in Pcbs : Advances(pcbs[p], pcbs'[p])]_vars
  BY NextAdvances DEF AllAdvance, GoesOn
<1> QED
  BY <1>1, Invariance, PTL DEF Spec, AckMonotone

(* rcv.next of an established connection never moves back, for any segments *)
(* a peer sends and any buffer length.                                      *)
THEOREM ReceivedStays == Spec => ReceiveMonotone
<1>1. IInv /\ [Next]_vars =>
        [\A p \in Pcbs : KeepsReceived(pcbs[p], pcbs'[p])]_vars
  BY NextAdvances DEF AllAdvance, GoesOn
<1> QED
  BY <1>1, Invariance, PTL DEF Spec, ReceiveMonotone
=============================================================================
