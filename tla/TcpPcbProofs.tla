---------------------------- MODULE TcpPcbProofs ----------------------------
(***************************************************************************)
(* Lemmas about the operators of TcpPcb: each of them, applied to a sound   *)
(* block, gives a sound block.                                              *)
(***************************************************************************)
EXTENDS TcpPcb, TLAPS, SequenceTheorems, FiniteSetTheorems

(* No segment claims more text than it carries: every data offset is at     *)
(* least five words, which input() does not check.                          *)
WholeText == \A seg \in Segments : seg.len <= Len(seg.data)

(* What every block satisfies: its type, no half closed state, and for a    *)
(* connection the send sequence space.  The receive window leaves room for  *)
(* no more than the buffer lacks only if no segment has a short offset.     *)
SpaceOK(c) ==
  /\ c.state \in Connecting =>
       /\ c.iss <= c.sndUna /\ c.sndUna <= c.sndNext /\ c.iss < c.sndNext
       /\ WholeText => c.rcvWnd + Len(c.buf) >= BufLen
  /\ c.state = "SynSent" => c.sndUna = c.iss /\ c.sndNext = c.iss + 1

PcbOK(c) == c \in Pcb /\ c.state \notin HalfClosed /\ SpaceOK(c)

-----------------------------------------------------------------------------
(* Lengths and sequences *)

(* A segment is at least as long as its text, and a FIN counts for one: the *)
(* seg_len computation of input().                                          *)
LEMMA SegLenFacts ==
  ASSUME NEW seg \in Segment
  PROVE  /\ SegLen(seg) \in Nat
         /\ SegLen(seg) >= seg.len
         /\ "FIN" \in seg.flags => SegLen(seg) > seg.len
<1> DEFINE F == seg.flags \intersect {"SYN", "FIN"}
<1>1. IsFiniteSet({"SYN", "FIN"})
  <2>1. IsFiniteSet({"SYN"} \union {"FIN"})
    BY FS_Singleton, FS_AddElement
  <2>2. {"SYN"} \union {"FIN"} = {"SYN", "FIN"}
    OBVIOUS
  <2> QED
    BY <2>1, <2>2
<1>2. IsFiniteSet(F)
  BY <1>1, FS_Subset
<1>3. Cardinality(F) \in Nat
  BY <1>2, FS_CardinalityType
<1>4. "FIN" \in seg.flags => Cardinality(F) # 0
  BY <1>2, FS_EmptySet
<1>5. seg.len \in Nat
  BY DEF Segment
<1> QED
  BY <1>3, <1>4, <1>5 DEF SegLen

(* remove() of one element keeps a sequence of the same kind. *)
LEMMA RemoveAtType ==
  ASSUME NEW S, NEW s \in Seq(S), NEW i \in 1..Len(s)
  PROVE  RemoveAt(s, i) \in Seq(S)
<1>1. SubSeq(s, 1, i - 1) \in Seq(S)
  BY LenProperties
<1>2. SubSeq(s, i + 1, Len(s)) \in Seq(S)
  BY LenProperties
<1> QED
  BY <1>1, <1>2, ConcatProperties DEF RemoveAt

(* The number of acknowledged entries is an index of the queue. *)
LEMMA AckedIndex ==
  ASSUME NEW n \in Nat, NEW A, A \subseteq 1..n, A # {}
  PROVE  Cardinality(A) \in 1..n
<1>1. IsFiniteSet(1..n) /\ Cardinality(1..n) = n
  BY FS_Interval, Z3
<1>2. IsFiniteSet(A) /\ Cardinality(A) <= n
  BY <1>1, FS_Subset
<1>3. Cardinality(A) \in Nat /\ Cardinality(A) # 0
  BY <1>2, FS_CardinalityType, FS_EmptySet
<1> QED
  BY <1>2, <1>3

-----------------------------------------------------------------------------
(* Segments and queue entries *)

(* Every segment handed to ip::output is a segment. *)
LEMMA ReplyType ==
  ASSUME NEW c \in Pcb, NEW flags \in SUBSET Flag, NEW seq \in SeqNum,
         NEW data \in Seq(Bytes)
  PROVE  Reply(c, flags, seq, data) \in Segment
BY EmptySeq DEF Reply, Segment, Pcb

(* The ACK of output() is a segment. *)
LEMMA AckReplyType ==
  ASSUME NEW c \in Pcb
  PROVE  AckReply(c) \in Segment
BY ReplyType, EmptySeq DEF AckReply, Flag, Pcb

(* A reset sent without a connection is a segment. *)
LEMMA ResetReplyType ==
  ASSUME NEW seg \in Segment, NEW flags \in SUBSET Flag, NEW seq \in SeqNum,
         NEW ack \in SeqNum
  PROVE  ResetReply(seg, flags, seq, ack) \in Segment
BY EmptySeq, BufAssumption DEF ResetReply, Segment, Window

(* So is the reset that answers an unusable acknowledgment. *)
LEMMA AckResetType ==
  ASSUME NEW seg \in Segment
  PROVE  AckReset(seg) \in Segment
<1>1. {"RST"} \in SUBSET Flag /\ 0 \in SeqNum /\ seg.ack \in SeqNum
  BY SeqAssumption DEF Flag, Segment, SeqNum
<1> QED
  BY <1>1, ResetReplyType DEF AckReset

(* add_data_queue appends an entry and touches nothing else. *)
LEMMA AddDataQueueType ==
  ASSUME NEW c \in Pcb, NEW seq \in SeqNum, NEW flags \in SUBSET Flag,
         NEW data \in Seq(Bytes)
  PROVE  LET d == AddDataQueue(c, seq, flags, data)
         IN  /\ d \in Pcb /\ d.state = c.state
             /\ d.iss = c.iss /\ d.sndUna = c.sndUna /\ d.sndNext = c.sndNext
             /\ d.rcvWnd = c.rcvWnd /\ d.buf = c.buf
<1> DEFINE e == [seq |-> seq, flags |-> flags, data |-> data, age |-> "fresh"]
<1>1. e \in Entry
  BY DEF Entry, Ages
<1>2. Append(c.queue, e) \in Seq(Entry)
  BY <1>1, AppendProperties DEF Pcb
<1> HIDE DEF e
<1> QED
  BY <1>2 DEF AddDataQueue, Pcb, e

(* clean_data_queue shortens the queue and touches nothing else. *)
LEMMA CleanDataQueueType ==
  ASSUME NEW c \in Pcb
  PROVE  \E q \in Seq(Entry) : CleanDataQueue(c) = [c EXCEPT !.queue = q]
<1> DEFINE A == {i \in DOMAIN c.queue :
                   \A j \in 1..i : c.queue[j].seq < c.sndUna}
<1>1. c.queue \in Seq(Entry)
  BY DEF Pcb
<1>2. CASE A = {}
  <2>1. CleanDataQueue(c) = c
    BY <1>2 DEF CleanDataQueue
  <2>2. c = [c EXCEPT !.queue = c.queue]
    BY DEF Pcb
  <2> QED
    BY <1>1, <2>1, <2>2
<1>3. CASE A # {}
  <2>1. A \subseteq 1..Len(c.queue) /\ Len(c.queue) \in Nat
    BY <1>1, LenProperties
  <2>2. Cardinality(A) \in 1..Len(c.queue)
    BY <1>3, <2>1, AckedIndex
  <2>3. RemoveAt(c.queue, Cardinality(A)) \in Seq(Entry)
    BY <1>1, <2>2, RemoveAtType
  <2>4. CleanDataQueue(c) = [c EXCEPT !.queue = RemoveAt(c.queue, Cardinality(A))]
    BY <1>3 DEF CleanDataQueue
  <2> QED
    BY <2>3, <2>4
<1> QED
  BY <1>2, <1>3

-----------------------------------------------------------------------------
(* Blocks that stay sound *)

(* TcpPcb::new() gives a block that satisfies the invariant. *)
LEMMA NewPcbOK == PcbOK(NewPcb)
BY TableAssumption, SeqAssumption, BufAssumption, EmptySeq
   DEF NewPcb, PcbOK, SpaceOK, Pcb, States, HalfClosed, Connecting, Endpoint,
       Unset, SeqNum, Window, NoPcb

(* The queue plays no part in SpaceOK. *)
LEMMA QueueChangeOK ==
  ASSUME NEW c, PcbOK(c), NEW q \in Seq(Entry)
  PROVE  /\ PcbOK([c EXCEPT !.queue = q])
         /\ [c EXCEPT !.queue = q].state = c.state
         /\ [c EXCEPT !.queue = q].rcvWnd = c.rcvWnd
         /\ [c EXCEPT !.queue = q].sndUna = c.sndUna
         /\ [c EXCEPT !.queue = q].sndNext = c.sndNext
         /\ [c EXCEPT !.queue = q].rcvNext = c.rcvNext
BY DEF PcbOK, SpaceOK, Pcb

(* release() keeps everything but state, queue and backlog. *)
LEMMA ReleaseOK ==
  ASSUME NEW c, PcbOK(c)
  PROVE  PcbOK(Release(c)) /\ Release(c).state = "Free"
BY EmptySeq DEF Release, PcbOK, SpaceOK, Pcb, States, HalfClosed, Connecting

(* Sending a SYN sets the send sequence space to iss .. iss + 1. *)
LEMMA WithSynType ==
  ASSUME NEW c \in Pcb, NEW flags \in SUBSET Flag, NEW iss \in InitialSeqs
  PROVE  /\ WithSyn(c, flags, iss) \in Pcb
         /\ WithSyn(c, flags, iss).iss = iss
         /\ WithSyn(c, flags, iss).sndUna = iss
         /\ WithSyn(c, flags, iss).sndNext = iss + 1
<1>1. iss \in SeqNum /\ iss + 1 \in SeqNum
  BY SeqAssumption DEF SeqNum
<1> DEFINE d == AddDataQueue(c, iss, flags, <<>>)
<1>2. d \in Pcb
  BY <1>1, AddDataQueueType, EmptySeq
<1> HIDE DEF d
<1>3. WithSyn(c, flags, iss) =
        [d EXCEPT !.iss = iss, !.sndUna = iss, !.sndNext = iss + 1]
  BY DEF WithSyn, d
<1> QED
  BY <1>1, <1>2, <1>3 DEF Pcb

(* rfc793_open and connect leave a sound block in SYN-SENT. *)
LEMMA ActiveSynOK ==
  ASSUME NEW c, PcbOK(c), NEW local \in Endpoint, NEW remote \in Endpoint,
         NEW iss \in InitialSeqs
  PROVE  /\ PcbOK(ActiveSyn(c, local, remote, iss))
         /\ ActiveSyn(c, local, remote, iss).state = "SynSent"
<1> DEFINE d == WithSyn(c, {"SYN"}, iss)
<1>1. c \in Pcb /\ {"SYN"} \in SUBSET Flag
  BY DEF PcbOK, Flag
<1>2. /\ d \in Pcb /\ d.iss = iss /\ d.sndUna = iss /\ d.sndNext = iss + 1
  BY <1>1, WithSynType
<1> HIDE DEF d
<1>3. ActiveSyn(c, local, remote, iss) =
        [d EXCEPT !.local = local, !.remote = remote, !.rcvWnd = BufLen,
                  !.state = "SynSent"]
  BY DEF ActiveSyn, d
<1>4. Len(d.buf) \in Nat /\ BufLen \in Window /\ BufLen \in Nat /\ iss \in Nat
  BY <1>2, LenProperties, BufAssumption, SeqAssumption DEF Pcb, Window
<1> DEFINE r == ActiveSyn(c, local, remote, iss)
<1>5. r \in Pcb
  BY <1>2, <1>3, <1>4 DEF Pcb, States
<1>6. /\ r.state = "SynSent" /\ r.rcvWnd = BufLen /\ r.buf = d.buf
      /\ r.iss = iss /\ r.sndUna = iss /\ r.sndNext = iss + 1
  BY <1>2, <1>3 DEF Pcb
<1> HIDE DEF r
<1>7. PcbOK(r)
  BY <1>4, <1>5, <1>6 DEF PcbOK, SpaceOK, HalfClosed, Connecting
<1> QED
  BY <1>6, <1>7 DEF r

(* A SYN taken by a listener leaves a sound block in SYN-RECEIVED. *)
LEMMA PassiveSynOK ==
  ASSUME NEW c, PcbOK(c), NEW seg \in Segment, seg.seq < SeqMax,
         NEW iss \in InitialSeqs
  PROVE  /\ PcbOK(PassiveSyn(c, seg, iss))
         /\ PassiveSyn(c, seg, iss).state = "SynReceived"
<1> DEFINE d == WithSyn(c, {"SYN", "ACK"}, iss)
<1>1. c \in Pcb /\ {"SYN", "ACK"} \in SUBSET Flag
  BY DEF PcbOK, Flag
<1>2. /\ d \in Pcb /\ d.iss = iss /\ d.sndUna = iss /\ d.sndNext = iss + 1
  BY <1>1, WithSynType
<1> HIDE DEF d
<1>3. PassiveSyn(c, seg, iss) =
        [d EXCEPT !.local = seg.dst, !.remote = seg.src, !.rcvWnd = BufLen,
                  !.rcvNext = seg.seq + 1, !.state = "SynReceived"]
  BY DEF PassiveSyn, d
<1>4. Len(d.buf) \in Nat /\ BufLen \in Window /\ BufLen \in Nat /\ iss \in Nat
  BY <1>2, LenProperties, BufAssumption, SeqAssumption DEF Pcb, Window
<1>5. seg.dst \in Endpoint /\ seg.src \in Endpoint /\ seg.seq + 1 \in SeqNum
  BY SeqAssumption DEF Segment, SeqNum
<1> DEFINE r == PassiveSyn(c, seg, iss)
<1>6. r \in Pcb
  BY <1>2, <1>3, <1>4, <1>5 DEF Pcb, States
<1>7. /\ r.state = "SynReceived" /\ r.rcvWnd = BufLen /\ r.buf = d.buf
      /\ r.iss = iss /\ r.sndUna = iss /\ r.sndNext = iss + 1
  BY <1>2, <1>3 DEF Pcb
<1> HIDE DEF r
<1>8. PcbOK(r)
  BY <1>4, <1>6, <1>7 DEF PcbOK, SpaceOK, HalfClosed, Connecting
<1> QED
  BY <1>7, <1>8 DEF r

(* The peer's SYN in SYN-SENT: a sound block, established or SYN-RECEIVED. *)
LEMMA SynSentSynOK ==
  ASSUME NEW c, PcbOK(c), c.state = "SynSent", NEW seg \in Segment,
         seg.seq < SeqMax, ~BadSynSentAck(c, seg)
  PROVE  /\ PcbOK(SynSentSyn(c, seg))
         /\ SynSentSyn(c, seg).state \in {"Established", "SynReceived"}
<1> DEFINE q == [c EXCEPT !.rcvNext = seg.seq + 1]
           u == [q EXCEPT !.sndUna = seg.ack]
           d == IF GoodSynSentAck(c, seg) THEN CleanDataQueue(u) ELSE q
           r == SynSentSyn(c, seg)
<1>1. /\ c \in Pcb /\ seg.seq \in SeqNum /\ seg.seq + 1 \in SeqNum
      /\ seg.ack \in SeqNum /\ seg.window \in Window
  BY SeqAssumption DEF PcbOK, Segment, SeqNum
<1>2. q \in Pcb /\ u \in Pcb
  BY <1>1 DEF Pcb
<1>3. /\ d \in Pcb /\ d.state = "SynSent" /\ d.iss = c.iss
      /\ d.sndNext = c.sndNext /\ d.rcvWnd = c.rcvWnd /\ d.buf = c.buf
      /\ d.sndUna = IF GoodSynSentAck(c, seg) THEN seg.ack ELSE c.sndUna
  <2>1. CASE GoodSynSentAck(c, seg)
    <3>1. PICK k \in Seq(Entry) : CleanDataQueue(u) = [u EXCEPT !.queue = k]
      BY <1>2, CleanDataQueueType
    <3>2. d = [u EXCEPT !.queue = k]
      BY <2>1, <3>1
    <3> QED
      BY <1>1, <1>2, <2>1, <3>2 DEF Pcb
  <2>2. CASE ~GoodSynSentAck(c, seg)
    BY <1>1, <1>2, <2>2 DEF Pcb
  <2> QED
    BY <2>1, <2>2
<1>4. /\ c.sndUna = c.iss /\ c.sndNext = c.iss + 1
      /\ WholeText => c.rcvWnd + Len(c.buf) >= BufLen
      /\ c.iss \in Nat /\ c.sndUna \in Nat /\ c.sndNext \in Nat
  BY DEF PcbOK, SpaceOK, Pcb, Connecting, SeqNum
<1>5. GoodSynSentAck(c, seg) => c.iss < seg.ack /\ seg.ack <= c.sndNext
  BY <1>1, <1>4 DEF GoodSynSentAck, BadSynSentAck, SeqNum
<1>6. d.iss <= d.sndUna /\ d.sndUna <= d.sndNext /\ d.iss < d.sndNext
  BY <1>1, <1>3, <1>4, <1>5 DEF SeqNum
<1>7. WholeText => d.rcvWnd + Len(d.buf) >= BufLen
  BY <1>3, <1>4
<1>8. r = IF d.sndUna > d.iss
          THEN [d EXCEPT !.state = "Established", !.sndWnd = seg.window,
                         !.wl1 = seg.seq, !.wl2 = seg.ack]
          ELSE [AddDataQueue(d, c.iss, {"SYN", "ACK"}, <<>>)
                  EXCEPT !.state = "SynReceived"]
  BY DEF SynSentSyn
<1> HIDE DEF d, r
<1>9. CASE d.sndUna > d.iss
  <2>1. r = [d EXCEPT !.state = "Established", !.sndWnd = seg.window,
                      !.wl1 = seg.seq, !.wl2 = seg.ack]
    BY <1>8, <1>9
  <2>2. r \in Pcb
    BY <1>1, <1>3, <2>1 DEF Pcb, States
  <2>3. /\ r.state = "Established" /\ r.iss = d.iss /\ r.sndUna = d.sndUna
        /\ r.sndNext = d.sndNext /\ r.rcvWnd = d.rcvWnd /\ r.buf = d.buf
    BY <1>3, <2>1 DEF Pcb
  <2> HIDE DEF r
  <2>4. PcbOK(r)
    BY <1>6, <1>7, <2>2, <2>3 DEF PcbOK, SpaceOK, HalfClosed, Connecting
  <2> QED
    BY <2>3, <2>4 DEF r
<1>10. CASE ~(d.sndUna > d.iss)
  <2> DEFINE f == {"SYN", "ACK"}
             e == AddDataQueue(d, c.iss, f, <<>>)
  <2>1. c.iss \in SeqNum /\ f \in SUBSET Flag /\ <<>> \in Seq(Bytes)
    BY <1>1, EmptySeq DEF Pcb, Flag
  <2>2. d \in Pcb
    BY <1>3
  <2> HIDE DEF f
  <2>3. /\ e \in Pcb /\ e.iss = d.iss /\ e.sndUna = d.sndUna
        /\ e.sndNext = d.sndNext /\ e.rcvWnd = d.rcvWnd /\ e.buf = d.buf
    BY <2>1, <2>2, AddDataQueueType
  <2>4. r = [e EXCEPT !.state = "SynReceived"]
    BY <1>8, <1>10 DEF f
  <2> HIDE DEF e
  <2>5. r \in Pcb
    BY <2>4, <2>3 DEF Pcb, States
  <2>6. /\ r.state = "SynReceived" /\ r.iss = d.iss /\ r.sndUna = d.sndUna
        /\ r.sndNext = d.sndNext /\ r.rcvWnd = d.rcvWnd /\ r.buf = d.buf
    BY <2>4, <2>3 DEF Pcb
  <2>7. PcbOK(r)
    BY <1>6, <1>7, <2>5, <2>6 DEF PcbOK, SpaceOK, HalfClosed, Connecting
  <2> QED
    BY <2>6, <2>7 DEF r
<1> QED
  BY <1>9, <1>10

(* The ACK stage: una moves forward, to a value that has been sent. *)
LEMMA AckStepOK ==
  ASSUME NEW c, PcbOK(c), NEW seg \in Segment, Processed(c, seg)
  PROVE  LET d == AckStep(c, seg)
         IN  /\ PcbOK(d)
             /\ c.state # "SynReceived" => d.state = c.state
             /\ c.state = "SynReceived" => d.state = "Established"
             /\ c.sndUna <= d.sndUna
             /\ c.state # "Free" => d.sndUna <= c.sndNext
             /\ d.sndNext = c.sndNext /\ d.rcvWnd = c.rcvWnd /\ d.buf = c.buf
             /\ d.rcvNext = c.rcvNext
<1> DEFINE d == AckStep(c, seg)
           u == [c EXCEPT !.sndUna = seg.ack]
<1>1. /\ c \in Pcb /\ seg.seq \in SeqNum /\ seg.ack \in SeqNum
      /\ seg.window \in Window
  BY DEF PcbOK, Segment
<1>2. /\ c.state \in {"Free", "SynReceived", "Established", "CloseWait"}
      /\ c.state \in {"Established", "CloseWait"} => seg.ack <= c.sndNext
  BY DEF PcbOK, Processed, Passes, AckInRange, Synchronised, Final, HalfClosed
<1>3. c.sndUna \in Int /\ c.sndNext \in Int /\ seg.ack \in Int /\ c.iss \in Int
  BY <1>1 DEF Pcb, SeqNum
<1>4. c.state # "Free" => c.iss <= c.sndUna /\ c.sndUna <= c.sndNext
                          /\ c.iss < c.sndNext
  BY <1>2 DEF PcbOK, SpaceOK, Connecting
<1>5. CASE c.state = "SynReceived"
  <2>1. d = [c EXCEPT !.state = "Established"]
    BY <1>5 DEF AckStep
  <2>2. d \in Pcb /\ d.state = "Established"
    BY <1>1, <2>1 DEF Pcb, States
  <2>3. /\ d.iss = c.iss /\ d.sndUna = c.sndUna /\ d.sndNext = c.sndNext
        /\ d.rcvWnd = c.rcvWnd /\ d.buf = c.buf
        /\ d.rcvNext = c.rcvNext
    BY <1>1, <2>1 DEF Pcb
  <2> HIDE DEF d
  <2>4. PcbOK(d)
    BY <1>5, <2>2, <2>3 DEF PcbOK, SpaceOK, HalfClosed, Connecting
  <2> QED
    BY <1>3, <1>4, <1>5, <2>2, <2>3, <2>4 DEF d
<1>6. CASE c.state # "SynReceived" /\ (c.state = "Free" \/ seg.ack <= c.sndUna)
  <2>1. d = c
    BY <1>6 DEF AckStep
  <2> QED
    BY <1>3, <1>4, <1>6, <2>1
<1>7. CASE c.state # "SynReceived" /\ c.state # "Free" /\ ~(seg.ack <= c.sndUna)
  <2>1. u \in Pcb
    BY <1>1 DEF Pcb
  <2>2. PICK k \in Seq(Entry) : CleanDataQueue(u) = [u EXCEPT !.queue = k]
    BY <2>1, CleanDataQueueType
  <2>3. d = IF c.wl1 < seg.seq \/ (c.wl1 = seg.seq /\ c.wl2 <= seg.ack)
            THEN [CleanDataQueue(u) EXCEPT !.sndWnd = seg.window,
                                           !.wl1 = seg.seq, !.wl2 = seg.ack]
            ELSE CleanDataQueue(u)
    BY <1>7 DEF AckStep
  <2> DEFINE w == CleanDataQueue(u)
  <2>4. /\ w \in Pcb /\ w.state = c.state /\ w.iss = c.iss
        /\ w.sndUna = seg.ack /\ w.sndNext = c.sndNext
        /\ w.rcvWnd = c.rcvWnd /\ w.buf = c.buf
        /\ w.rcvNext = c.rcvNext
    BY <1>1, <2>1, <2>2 DEF Pcb
  <2> HIDE DEF w
  <2>5. /\ d \in Pcb /\ d.state = c.state /\ d.iss = c.iss
        /\ d.sndUna = seg.ack /\ d.sndNext = c.sndNext
        /\ d.rcvWnd = c.rcvWnd /\ d.buf = c.buf
        /\ d.rcvNext = c.rcvNext
    <3>1. CASE c.wl1 < seg.seq \/ (c.wl1 = seg.seq /\ c.wl2 <= seg.ack)
      <4>1. d = [w EXCEPT !.sndWnd = seg.window, !.wl1 = seg.seq,
                          !.wl2 = seg.ack]
        BY <2>3, <3>1 DEF w
      <4> HIDE DEF d
      <4> QED
        BY <1>1, <2>4, <4>1 DEF Pcb
    <3>2. CASE ~(c.wl1 < seg.seq \/ (c.wl1 = seg.seq /\ c.wl2 <= seg.ack))
      <4>1. d = w
        BY <2>3, <3>2 DEF w
      <4> QED
        BY <2>4, <4>1
    <3> QED
      BY <3>1, <3>2
  <2> HIDE DEF d
  <2>6. seg.ack <= c.sndNext /\ c.state \in {"Established", "CloseWait"}
    BY <1>2, <1>7
  <2>7. PcbOK(d)
    BY <1>3, <1>4, <1>7, <2>5, <2>6 DEF PcbOK, SpaceOK, HalfClosed, Connecting
  <2> QED
    BY <1>3, <1>7, <2>5, <2>6, <2>7 DEF d
<1> QED
  BY <1>5, <1>6, <1>7

(* At least what leaves the window enters the buffer. *)
LEMMA ShiftedSum ==
  ASSUME NEW w \in Int, NEW n \in Int, NEW x \in Nat, NEW y \in Nat,
         NEW z \in Nat, z <= y, w + x >= n
  PROVE  (w - z) + (x + y) >= n
OBVIOUS

(* An acceptable segment with text ends after rcv.next. *)
LEMMA AcceptableEnds ==
  ASSUME NEW c \in Pcb, NEW seg \in Segment, Acceptable(c, seg), SegLen(seg) > 0
  PROVE  c.rcvNext <= seg.seq + SegLen(seg)
<1>1. /\ c.rcvNext \in Int /\ c.rcvWnd \in Int /\ seg.seq \in Int
      /\ SegLen(seg) \in Nat
  BY SegLenFacts, SeqAssumption, BufAssumption DEF Pcb, Segment, SeqNum, Window
<1>2. ~(c.rcvWnd < 1)
  BY <1>1 DEF Acceptable
<1>3. c.rcvNext <= seg.seq \/ c.rcvNext <= seg.seq + SegLen(seg) - 1
  BY <1>1, <1>2 DEF Acceptable, InWindow
<1> QED
  BY <1>1, <1>3

(* The text stage: rcv.next does not move back, and with whole text at      *)
(* least what leaves the window enters the buffer.                          *)
LEMMA AfterTextOK ==
  ASSUME NEW c, PcbOK(c), NEW seg \in Segment, seg \in Segments,
         Processed(c, seg), ~ProcessingOverflows(c, seg)
  PROVE  LET d == AfterText(c, seg)
         IN  /\ PcbOK(d)
             /\ d.state = AckStep(c, seg).state
             /\ d.sndUna = AckStep(c, seg).sndUna /\ d.sndNext = c.sndNext
             /\ ~HasText(c, seg) => d.rcvWnd = c.rcvWnd
             /\ c.rcvNext <= d.rcvNext
<1> DEFINE a == AckStep(c, seg)
           d == AfterText(c, seg)
<1>1. /\ PcbOK(a) /\ a.sndNext = c.sndNext /\ a.rcvWnd = c.rcvWnd
      /\ c.state # "SynReceived" => a.state = c.state
      /\ a.rcvNext = c.rcvNext
  BY AckStepOK
<1>2. CASE ~HasText(c, seg)
  <2>1. d = a
    BY <1>2 DEF AfterText
  <2>2. c.rcvNext \in Int
    BY SeqAssumption DEF PcbOK, Pcb, SeqNum
  <2> QED
    BY <1>1, <1>2, <2>1, <2>2
<1>3. CASE HasText(c, seg)
  <2> HIDE DEF a
  <2>1. d = [a EXCEPT !.buf = a.buf \o seg.data,
                      !.rcvNext = seg.seq + SegLen(seg),
                      !.rcvWnd = a.rcvWnd - seg.len]
    BY <1>3 DEF AfterText, TextStep, a
  <2>2. a \in Pcb /\ a.buf \in Seq(Bytes) /\ a.rcvWnd \in Window
    BY <1>1 DEF PcbOK, Pcb
  <2>3. /\ seg.data \in Seq(Bytes) /\ seg.len \in Nat
        /\ Len(seg.data) \in Nat /\ Len(a.buf) \in Nat
    BY <2>2, LenProperties DEF Segment
  <2>4. /\ a.buf \o seg.data \in Seq(Bytes)
        /\ Len(a.buf \o seg.data) = Len(a.buf) + Len(seg.data)
    BY <2>2, <2>3, ConcatProperties
  <2>5. seg.seq + SegLen(seg) \in SeqNum
    <3>1. ~(seg.seq + SegLen(seg) > SeqMax)
      BY <1>3 DEF ProcessingOverflows
    <3>2. SegLen(seg) \in Nat /\ seg.seq \in SeqNum
      BY SegLenFacts DEF Segment
    <3> QED
      BY <3>1, <3>2, SeqAssumption DEF SeqNum
  <2>6. a.rcvWnd - seg.len \in Window
    <3>1. ~(a.rcvWnd < seg.len)
      BY <1>1, <1>3 DEF ProcessingOverflows
    <3> QED
      BY <2>2, <2>3, <3>1, BufAssumption DEF Window
  <2>7. /\ d \in Pcb /\ d.state = a.state /\ d.iss = a.iss
        /\ d.sndUna = a.sndUna /\ d.sndNext = a.sndNext
        /\ d.buf = a.buf \o seg.data
        /\ d.rcvWnd = a.rcvWnd - seg.len
        /\ d.rcvNext = seg.seq + SegLen(seg)
    BY <2>1, <2>2, <2>4, <2>5, <2>6 DEF Pcb
  <2> HIDE DEF d
  <2>8. /\ Len(d.buf) = Len(a.buf) + Len(seg.data)
        /\ d.rcvWnd = a.rcvWnd - seg.len
    BY <2>4, <2>7
  <2>9. WholeText /\ a.rcvWnd + Len(a.buf) >= BufLen =>
          d.rcvWnd + Len(d.buf) >= BufLen
    <3>1. a.rcvWnd \in Int /\ BufLen \in Int
      BY <2>2, BufAssumption DEF Window
    <3>2. WholeText => seg.len <= Len(seg.data)
      BY DEF WholeText
    <3> QED
      BY <2>3, <2>8, <3>1, <3>2, ShiftedSum
  <2>10. PcbOK(d)
    BY <1>1, <2>7, <2>9 DEF PcbOK, SpaceOK
  <2>11. c.rcvNext <= d.rcvNext
    <3>1. c \in Pcb /\ Acceptable(c, seg)
      BY <1>3 DEF PcbOK, Processed, Passes, HasText, TextStates
    <3>2. SegLen(seg) > 0
      <4>1. seg.len > 0
        BY <1>3 DEF HasText
      <4> QED
        BY <2>3, <4>1, SegLenFacts
    <3> QED
      BY <2>7, <3>1, <3>2, AcceptableEnds
  <2> QED
    BY <1>1, <1>3, <2>7, <2>10, <2>11 DEF a, d
<1> QED
  BY <1>2, <1>3

(* The FIN stage. *)
LEMMA AfterFinOK ==
  ASSUME NEW c, PcbOK(c), NEW seg \in Segment, seg \in Segments,
         Processed(c, seg), ~ProcessingOverflows(c, seg)
  PROVE  LET d == AfterFin(c, seg)
         IN  /\ PcbOK(d)
             /\ c.state # "Free" => c.sndUna <= d.sndUna /\ d.sndUna <= c.sndNext
             /\ d.sndNext = c.sndNext
             /\ ~HasText(c, seg) => d.rcvWnd = c.rcvWnd
             /\ c.state \in {"SynReceived", "Established"} \/ d.state = c.state
             /\ c.state = "Established" /\ "FIN" \notin seg.flags =>
                  d.state = "Established"
             /\ c.state = "Established" /\ d.state = "Established" =>
                  c.rcvNext <= d.rcvNext
<1> DEFINE a == AckStep(c, seg)
           t == AfterText(c, seg)
           d == AfterFin(c, seg)
<1>1. /\ c.state # "SynReceived" => a.state = c.state
      /\ c.state = "SynReceived" => a.state = "Established"
      /\ c.sndUna <= a.sndUna
      /\ c.state # "Free" => a.sndUna <= c.sndNext
  BY AckStepOK
<1>2. /\ PcbOK(t) /\ t.state = a.state /\ t.sndUna = a.sndUna
      /\ t.sndNext = c.sndNext
      /\ ~HasText(c, seg) => t.rcvWnd = c.rcvWnd
      /\ c.rcvNext <= t.rcvNext
  BY AfterTextOK
<1>3. c.state \in {"Free", "SynReceived", "Established", "CloseWait"}
  BY DEF PcbOK, Processed, Passes, Synchronised, Final, HalfClosed
<1> HIDE DEF a, t
<1>4. CASE "FIN" \notin seg.flags
  <2>1. d = t
    BY <1>4 DEF AfterFin, t
  <2> QED
    BY <1>1, <1>2, <1>3, <1>4, <2>1
<1>5. CASE "FIN" \in seg.flags
  <2>1. d = [t EXCEPT !.rcvNext = seg.seq + 1, !.state = FinState(t, seg)]
    BY <1>5 DEF AfterFin, FinStep, t
  <2>2. seg.seq + 1 \in SeqNum
    BY <1>5, SeqAssumption DEF ProcessingOverflows, Segment, SeqNum
  <2>3. FinState(t, seg) = IF t.state = "Established" THEN "CloseWait" ELSE t.state
    BY <1>1, <1>2, <1>3 DEF FinState
  <2>4. t \in Pcb /\ FinState(t, seg) \in States
    BY <1>2, <2>3 DEF PcbOK, Pcb, States
  <2>5. /\ d \in Pcb /\ d.state = FinState(t, seg) /\ d.iss = t.iss
        /\ d.sndUna = t.sndUna /\ d.sndNext = t.sndNext
        /\ d.rcvWnd = t.rcvWnd /\ d.buf = t.buf
    BY <2>1, <2>2, <2>4 DEF Pcb
  <2> HIDE DEF d
  <2>6. PcbOK(d)
    BY <1>1, <1>2, <1>3, <2>3, <2>5 DEF PcbOK, SpaceOK, HalfClosed, Connecting
  <2> QED
    BY <1>1, <1>2, <1>3, <1>5, <2>3, <2>5, <2>6 DEF d
<1> QED
  BY <1>4, <1>5

(* A tick of the retransmission thread frees a block or empties its queue. *)
LEMMA AfterRetransmitOK ==
  ASSUME NEW c, PcbOK(c)
  PROVE  LET d == AfterRetransmit(c)
         IN  /\ PcbOK(d)
             /\ \/ d.state = "Free"
                \/ /\ d.state = c.state /\ d.rcvWnd = c.rcvWnd
                   /\ d.sndUna = c.sndUna /\ d.sndNext = c.sndNext
                   /\ d.rcvNext = c.rcvNext
<1>1. <<>> \in Seq(Entry)
  BY EmptySeq
<1>2. PcbOK(Release(c)) /\ Release(c).state = "Free"
  BY ReleaseOK
<1>3. /\ PcbOK([c EXCEPT !.queue = <<>>])
      /\ [c EXCEPT !.queue = <<>>].state = c.state
      /\ [c EXCEPT !.queue = <<>>].rcvWnd = c.rcvWnd
      /\ [c EXCEPT !.queue = <<>>].sndUna = c.sndUna
      /\ [c EXCEPT !.queue = <<>>].sndNext = c.sndNext
      /\ [c EXCEPT !.queue = <<>>].rcvNext = c.rcvNext
  BY <1>1, QueueChangeOK
<1> QED
  BY <1>2, <1>3 DEF AfterRetransmit

(* Time changes nothing but the age of the entries. *)
LEMMA AgedOK ==
  ASSUME NEW c, PcbOK(c), NEW ages \in [Ages -> Ages]
  PROVE  /\ PcbOK(Aged(c, ages))
         /\ Aged(c, ages).state = c.state
         /\ Aged(c, ages).rcvWnd = c.rcvWnd
         /\ Aged(c, ages).sndUna = c.sndUna
         /\ Aged(c, ages).sndNext = c.sndNext
         /\ Aged(c, ages).rcvNext = c.rcvNext
<1> DEFINE q == [i \in DOMAIN c.queue |->
                   [c.queue[i] EXCEPT !.age = ages[c.queue[i].age]]]
<1>1. c.queue \in Seq(Entry)
  BY DEF PcbOK, Pcb
<1>2. DOMAIN c.queue = 1..Len(c.queue) /\ Len(c.queue) \in Nat
  BY <1>1, LenProperties
<1>3. \A i \in DOMAIN c.queue : c.queue[i] \in Entry
  BY <1>1, <1>2, ElementOfSeq
<1>4. \A i \in DOMAIN c.queue :
        [c.queue[i] EXCEPT !.age = ages[c.queue[i].age]] \in Entry
  BY <1>3 DEF Entry
<1>5. q \in [1..Len(c.queue) -> Entry]
  BY <1>2, <1>4
<1>6. q \in Seq(Entry)
  BY <1>2, <1>5, SeqDef
<1>7. Aged(c, ages) = [c EXCEPT !.queue = q]
  BY DEF Aged
<1> HIDE DEF q
<1> QED
  BY <1>6, <1>7, QueueChangeOK
=============================================================================
