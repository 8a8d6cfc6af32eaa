-------------------------- MODULE TcpQueueProofs --------------------------
(***************************************************************************)
(* More invariants of module Tcp, on top of TcpProofs: the order of the     *)
(* retransmission queues, and the two sleeping calls that nothing but the   *)
(* TERM signal wakes up, send() with a full window and accept().            *)
(***************************************************************************)
EXTENDS TcpProofs, DataLemmas

-----------------------------------------------------------------------------
(* The queue of one block *)

(* Entries in the order of their sequence numbers, within lo .. hi - 1. *)
Ordered(q, lo, hi) ==
  \A i \in DOMAIN q :
    /\ lo <= q[i].seq /\ q[i].seq < hi
    /\ \A j \in 1..i : q[j].seq <= q[i].seq

(* Nothing is queued on a free block nor, in a block of rfc793_open, before *)
(* a SYN has been sent; a connection's queue is in order.                   *)
QueueOK(c) ==
  /\ c.state = "Free" => c.queue = <<>>
  /\ c.mode = "Rfc793" =>
       /\ c.state = "Listen" => c.queue = <<>>
       /\ Ordered(c.queue, c.iss, c.sndNext)

(* An empty queue is in order. *)
LEMMA EmptyOrdered ==
  ASSUME NEW lo, NEW hi
  PROVE  Ordered(<<>>, lo, hi)
BY DEF Ordered

(* add_data_queue() with a sequence number that is not before the others. *)
LEMMA AppendOrdered ==
  ASSUME NEW q \in Seq(Entry), NEW lo \in Int, NEW hi \in Int, Ordered(q, lo, hi),
         NEW e \in Entry, NEW top \in Int, hi <= top, lo <= e.seq, e.seq < top,
         \A i \in DOMAIN q : q[i].seq <= e.seq
  PROVE  Ordered(Append(q, e), lo, top)
<1> DEFINE r == Append(q, e)
           n == Len(q) + 1
<1>1. /\ Len(q) \in Nat /\ DOMAIN q = 1..Len(q) /\ DOMAIN r = 1..n
      /\ r[n] = e /\ \A i \in 1..Len(q) : r[i] = q[i]
  BY AppendProperties, LenProperties
<1>2. e.seq \in Int /\ \A i \in 1..Len(q) : q[i].seq \in Int
  <2>1. \A i \in 1..Len(q) : q[i] \in Entry
    BY ElementOfSeq
  <2>2. \A x \in Entry : x.seq \in Int
    BY SeqAssumption DEF Entry, SeqNum
  <2> QED
    BY <2>1, <2>2
<1> HIDE DEF r
<1>3. ASSUME NEW i \in DOMAIN r
      PROVE  /\ lo <= r[i].seq /\ r[i].seq < top
             /\ \A j \in 1..i : r[j].seq <= r[i].seq
  <2>1. CASE i = n
    BY <1>1, <1>2, <2>1
  <2>2. CASE i \in 1..Len(q)
    BY <1>1, <1>2, <2>2 DEF Ordered
  <2> QED
    BY <1>1, <2>1, <2>2
<1> QED
  BY <1>3 DEF Ordered, r

(* remove() of one entry. *)
LEMMA RemoveAtElements ==
  ASSUME NEW q \in Seq(Entry), NEW k \in 1..Len(q)
  PROVE  /\ DOMAIN RemoveAt(q, k) = 1..(Len(q) - 1)
         /\ \A i \in 1..(Len(q) - 1) :
              RemoveAt(q, k)[i] = IF i < k THEN q[i] ELSE q[i + 1]
<1> DEFINE s == SubSeq(q, 1, k - 1)
           t == SubSeq(q, k + 1, Len(q))
<1>1. Len(q) \in Nat /\ k \in Int /\ 1 <= k /\ k <= Len(q)
  BY LenProperties
<1>2. /\ s \in Seq(Entry) /\ Len(s) = k - 1
      /\ \A i \in 1..(k - 1) : s[i] = q[i]
  BY <1>1, SubSeqProperties
<1>3. /\ t \in Seq(Entry) /\ Len(t) = Len(q) - k
      /\ \A i \in 1..(Len(q) - k) : t[i] = q[k + i]
  <2>1. t \in Seq(Entry) /\ Len(t) = Len(q) - k
    BY <1>1, SubSeqProperties
  <2>2. \A i \in 1..(Len(q) - k) : t[i] = q[k + i]
    BY <1>1
  <2> QED
    BY <2>1, <2>2
<1> HIDE DEF s, t
<1>4. /\ Len(s \o t) = Len(q) - 1 /\ s \o t \in Seq(Entry)
      /\ \A i \in 1..(Len(q) - 1) :
           (s \o t)[i] = IF i <= Len(s) THEN s[i] ELSE t[i - Len(s)]
  <2>1. /\ s \o t \in Seq(Entry) /\ Len(s \o t) = Len(s) + Len(t)
        /\ \A i \in 1..(Len(s) + Len(t)) :
             (s \o t)[i] = IF i <= Len(s) THEN s[i] ELSE t[i - Len(s)]
    BY <1>2, <1>3, ConcatProperties
  <2>2. Len(s) + Len(t) = Len(q) - 1
    BY <1>1, <1>2, <1>3
  <2> QED
    BY <2>1, <2>2
<1>5. ASSUME NEW i \in 1..(Len(q) - 1)
      PROVE  (s \o t)[i] = IF i < k THEN q[i] ELSE q[i + 1]
  <2>1. CASE i < k
    BY <1>1, <1>2, <1>4, <2>1
  <2>2. CASE ~(i < k)
    <3>1. i - Len(s) \in 1..(Len(q) - k) /\ k + (i - Len(s)) = i + 1
      BY <1>1, <1>2, <2>2
    <3>2. (s \o t)[i] = t[i - Len(s)]
      BY <1>1, <1>2, <1>4, <2>2
    <3>3. t[i - Len(s)] = q[k + (i - Len(s))]
      BY <1>3, <3>1
    <3> QED
      BY <2>2, <3>1, <3>2, <3>3
  <2> QED
    BY <2>1, <2>2
<1>6. RemoveAt(q, k) = s \o t
  BY DEF RemoveAt, s, t
<1>7. DOMAIN (s \o t) = 1..(Len(q) - 1)
  BY <1>4, LenProperties
<1> QED
  BY <1>5, <1>6, <1>7

(* clean_data_queue() keeps the order: it removes an entry. *)
LEMMA RemoveAtOrdered ==
  ASSUME NEW q \in Seq(Entry), NEW k \in 1..Len(q), NEW lo, NEW hi,
         Ordered(q, lo, hi)
  PROVE  Ordered(RemoveAt(q, k), lo, hi)
<1> DEFINE r == RemoveAt(q, k)
<1>1. Len(q) \in Nat /\ DOMAIN q = 1..Len(q) /\ k \in Int /\ 1 <= k
  BY LenProperties
<1>2. /\ DOMAIN r = 1..(Len(q) - 1)
      /\ \A i \in 1..(Len(q) - 1) : r[i] = IF i < k THEN q[i] ELSE q[i + 1]
  BY RemoveAtElements
<1> HIDE DEF r
<1>3. ASSUME NEW i \in DOMAIN r
      PROVE  /\ lo <= r[i].seq /\ r[i].seq < hi
             /\ \A j \in 1..i : r[j].seq <= r[i].seq
  <2>1. i \in 1..Len(q) /\ i + 1 \in 1..Len(q)
    BY <1>1, <1>2
  <2>2. lo <= r[i].seq /\ r[i].seq < hi
    BY <1>1, <1>2, <2>1 DEF Ordered
  <2>3. ASSUME NEW j \in 1..i
        PROVE  r[j].seq <= r[i].seq
    <3>1. j \in 1..(Len(q) - 1)
      BY <1>1, <1>2
    <3>2. CASE i < k
      BY <1>1, <1>2, <2>1, <3>1, <3>2 DEF Ordered
    <3>3. CASE ~(i < k) /\ j < k
      <4>1. j \in 1..(i + 1) /\ r[j] = q[j] /\ r[i] = q[i + 1]
        BY <1>1, <1>2, <2>1, <3>1, <3>3
      <4> QED
        BY <1>1, <2>1, <4>1 DEF Ordered
    <3>4. CASE ~(i < k) /\ ~(j < k)
      <4>1. j + 1 \in 1..(i + 1) /\ r[j] = q[j + 1] /\ r[i] = q[i + 1]
        BY <1>1, <1>2, <2>1, <3>1, <3>4
      <4> QED
        BY <1>1, <2>1, <4>1 DEF Ordered
    <3> QED
      BY <3>2, <3>3, <3>4
  <2> QED
    BY <2>2, <2>3
<1> QED
  BY <1>3 DEF Ordered, r

(* What clean_data_queue leaves of a block's queue: itself, or itself with  *)
(* one entry removed.                                                       *)
LEMMA CleanDataQueueOrdered ==
  ASSUME NEW c \in Pcb, Ordered(c.queue, c.iss, c.sndNext)
  PROVE  \E q \in Seq(Entry) :
           /\ CleanDataQueue(c) = [c EXCEPT !.queue = q]
           /\ Ordered(q, c.iss, c.sndNext)
<1> DEFINE A == {i \in DOMAIN c.queue :
                   \A j \in 1..i : c.queue[j].seq < c.sndUna}
<1>1. c.queue \in Seq(Entry)
  BY DEF Pcb
<1>2. CASE A = {}
  <2>1. CleanDataQueue(c) = c
    BY <1>2 DEF CleanDataQueue
  <2>2. c = [c EXCEPT !.queue = c.queue]
    BY DEF Pcb
  <2> QED
    BY <1>1, <2>1, <2>2
<1>3. CASE A # {}
  <2>1. A \subseteq 1..Len(c.queue) /\ Len(c.queue) \in Nat
    BY <1>1, LenProperties
  <2>2. Cardinality(A) \in 1..Len(c.queue)
    BY <1>3, <2>1, AckedIndex
  <2>3. /\ RemoveAt(c.queue, Cardinality(A)) \in Seq(Entry)
        /\ Ordered(RemoveAt(c.queue, Cardinality(A)), c.iss, c.sndNext)
    BY <1>1, <2>2, RemoveAtType, RemoveAtOrdered
  <2>4. CleanDataQueue(c) = [c EXCEPT !.queue = RemoveAt(c.queue, Cardinality(A))]
    BY <1>3 DEF CleanDataQueue
  <2> QED
    BY <2>3, <2>4
<1> QED
  BY <1>2, <1>3

(* release() empties the queue. *)
LEMMA ReleaseQueue ==
  ASSUME NEW c \in Pcb
  PROVE  QueueOK(Release(c))
<1>1. Release(c).state = "Free" /\ Release(c).queue = <<>>
  BY DEF Release, Pcb
<1> QED
  BY <1>1, EmptyOrdered DEF QueueOK

(* The queue of a socket's block is not looked at once it is in use. *)
LEMMA SocketQueue ==
  ASSUME NEW c, c.mode # "Rfc793", c.state # "Free"
  PROVE  QueueOK(c)
BY DEF QueueOK

(* The first SYN of a connection is the only entry of its queue. *)
LEMMA SynQueue ==
  ASSUME NEW c \in Pcb, c.queue = <<>>, NEW iss \in InitialSeqs,
         NEW flags \in SUBSET Flag
  PROVE  LET d == WithSyn(c, flags, iss)
         IN  d \in Pcb /\ d.mode = c.mode /\ Ordered(d.queue, d.iss, d.sndNext)
<1> DEFINE e == [seq |-> iss, flags |-> flags, data |-> <<>>, age |-> "fresh"]
           d == WithSyn(c, flags, iss)
<1>1. iss \in SeqNum /\ iss \in Int /\ iss + 1 \in SeqNum
  BY SeqAssumption DEF SeqNum
<1>2. e \in Entry /\ e.seq = iss
  BY <1>1, EmptySeq DEF Entry, Ages
<1>3. d \in Pcb /\ d.iss = iss /\ d.sndNext = iss + 1
  BY WithSynType
<1>4. d.queue = Append(c.queue, e) /\ d.mode = c.mode
  BY DEF WithSyn, AddDataQueue, Pcb
<1> HIDE DEF d, e
<1> DEFINE q == c.queue
           hi == iss + 1
<1>5. /\ Ordered(q, iss, hi) /\ q \in Seq(Entry) /\ DOMAIN q = {}
      /\ hi \in Int /\ hi <= hi /\ iss <= e.seq /\ e.seq < hi
  BY <1>1, <1>2, EmptyOrdered DEF Pcb
<1>6. Ordered(Append(q, e), iss, hi)
  <2> HIDE DEF q, hi
  <2> QED
    BY <1>1, <1>2, <1>5, AppendOrdered
<1> QED
  BY <1>3, <1>4, <1>6 DEF d

(* rfc793_open's SYN. *)
LEMMA ActiveQueue ==
  ASSUME NEW c, PcbOK(c), c.queue = <<>>, NEW iss \in InitialSeqs,
         NEW local, NEW remote
  PROVE  QueueOK(ActiveSyn(c, local, remote, iss))
<1> DEFINE a == ActiveSyn(c, local, remote, iss)
           v == WithSyn(c, {"SYN"}, iss)
<1>1. c \in Pcb /\ {"SYN"} \in SUBSET Flag
  BY DEF PcbOK, Flag
<1>2. v \in Pcb /\ Ordered(v.queue, v.iss, v.sndNext)
  BY <1>1, SynQueue
<1>3. /\ a.queue = v.queue /\ a.iss = v.iss /\ a.sndNext = v.sndNext
      /\ a.state = "SynSent"
  <2> HIDE DEF v
  <2> QED
    BY <1>2 DEF ActiveSyn, Pcb, v
<1> HIDE DEF a, v
<1>4. QueueOK(a)
  BY <1>2, <1>3 DEF QueueOK
<1> QED
  BY <1>4 DEF a

(* The SYN ACK of a listener. *)
LEMMA PassiveQueue ==
  ASSUME NEW c, PcbOK(c), c.queue = <<>>, NEW iss \in InitialSeqs, NEW seg
  PROVE  QueueOK(PassiveSyn(c, seg, iss))
<1> DEFINE b == PassiveSyn(c, seg, iss)
           w == WithSyn(c, {"SYN", "ACK"}, iss)
<1>1. c \in Pcb /\ {"SYN", "ACK"} \in SUBSET Flag
  BY DEF PcbOK, Flag
<1>2. w \in Pcb /\ Ordered(w.queue, w.iss, w.sndNext)
  BY <1>1, SynQueue
<1>3. /\ b.queue = w.queue /\ b.iss = w.iss /\ b.sndNext = w.sndNext
      /\ b.state = "SynReceived"
  <2> HIDE DEF w
  <2> QED
    BY <1>2 DEF PassiveSyn, Pcb, w
<1> HIDE DEF b, w
<1>4. QueueOK(b)
  BY <1>2, <1>3 DEF QueueOK
<1> QED
  BY <1>4 DEF b

(* The SYN ACK of a simultaneous open, and any entry that carries the       *)
(* sequence number of the SYN, in SYN-SENT.                                 *)
LEMMA SynSentQueue ==
  ASSUME NEW c, PcbOK(c), c.state = "SynSent", QueueOK(c), NEW seg \in Segment,
         seg.seq < SeqMax, ~BadSynSentAck(c, seg)
  PROVE  QueueOK(SynSentSyn(c, seg)) /\ SynSentSyn(c, seg).mode = c.mode
<1> DEFINE q == [c EXCEPT !.rcvNext = seg.seq + 1]
           u == [q EXCEPT !.sndUna = seg.ack]
           d == IF GoodSynSentAck(c, seg) THEN CleanDataQueue(u) ELSE q
           r == SynSentSyn(c, seg)
           o == Ordered(c.queue, c.iss, c.sndNext)
<1>1. /\ c \in Pcb /\ seg.seq + 1 \in SeqNum /\ seg.ack \in SeqNum
      /\ c.sndNext = c.iss + 1 /\ c.iss \in Int /\ c.iss \in SeqNum
  BY SeqAssumption DEF PcbOK, SpaceOK, Segment, SeqNum, Pcb
<1>2. /\ q \in Pcb /\ u \in Pcb
      /\ q.queue = c.queue /\ q.iss = c.iss /\ q.sndNext = c.sndNext
      /\ u.queue = c.queue /\ u.iss = c.iss /\ u.sndNext = c.sndNext
      /\ q.mode = c.mode /\ u.mode = c.mode
  BY <1>1 DEF Pcb
<1>3. /\ d \in Pcb /\ d.iss = c.iss /\ d.sndNext = c.sndNext /\ d.mode = c.mode
      /\ o => Ordered(d.queue, c.iss, c.sndNext)
  <2>1. CASE GoodSynSentAck(c, seg)
    <3>1. PICK k \in Seq(Entry) :
            /\ CleanDataQueue(u) = [u EXCEPT !.queue = k]
            /\ o => Ordered(k, c.iss, c.sndNext)
      <4> HIDE DEF u
      <4>1. CASE o
        BY <1>2, <4>1, CleanDataQueueOrdered
      <4>2. CASE ~o
        BY <1>2, <4>2, CleanDataQueueType
      <4> QED
        BY <4>1, <4>2
    <3>2. d = [u EXCEPT !.queue = k]
      BY <2>1, <3>1
    <3> QED
      BY <1>2, <3>1, <3>2 DEF Pcb
  <2>2. CASE ~GoodSynSentAck(c, seg)
    BY <1>2, <2>2
  <2> QED
    BY <2>1, <2>2
<1>4. r = IF d.sndUna > d.iss
          THEN [d EXCEPT !.state = "Established", !.sndWnd = seg.window,
                         !.wl1 = seg.seq, !.wl2 = seg.ack]
          ELSE [AddDataQueue(d, c.iss, {"SYN", "ACK"}, <<>>)
                  EXCEPT !.state = "SynReceived"]
  BY DEF SynSentSyn
<1> HIDE DEF d, r
<1>5. CASE d.sndUna > d.iss
  <2>1. /\ r.state = "Established" /\ r.queue = d.queue /\ r.iss = c.iss
        /\ r.sndNext = c.sndNext /\ r.mode = c.mode
    BY <1>3, <1>4, <1>5 DEF Pcb
  <2> QED
    BY <1>3, <2>1 DEF QueueOK, r
<1>6. CASE ~(d.sndUna > d.iss)
  <2> DEFINE e == [seq |-> c.iss, flags |-> {"SYN", "ACK"}, data |-> <<>>,
                   age |-> "fresh"]
  <2>1. e \in Entry /\ e.seq = c.iss
    BY <1>1, EmptySeq DEF Entry, Ages, Flag
  <2>2. /\ r.state = "SynReceived" /\ r.queue = Append(d.queue, e)
        /\ r.iss = c.iss /\ r.sndNext = c.sndNext /\ r.mode = c.mode
    BY <1>3, <1>4, <1>6 DEF Pcb, AddDataQueue
  <2> HIDE DEF e
  <2>3. ASSUME o
        PROVE  Ordered(r.queue, c.iss, c.sndNext)
    <3>1. d.queue \in Seq(Entry) /\ Ordered(d.queue, c.iss, c.sndNext)
      BY <1>3, <2>3 DEF Pcb
    <3>2. \A i \in DOMAIN d.queue : d.queue[i].seq <= c.iss
      <4>1. \A i \in DOMAIN d.queue : d.queue[i] \in Entry
        BY <3>1, ElementOfSeq, LenProperties
      <4>2. \A x \in Entry : x.seq \in Int
        BY SeqAssumption DEF Entry, SeqNum
      <4> QED
        BY <1>1, <3>1, <4>1, <4>2 DEF Ordered
    <3>3. Ordered(Append(d.queue, e), c.iss, c.sndNext)
      BY <1>1, <2>1, <3>1, <3>2, AppendOrdered
    <3> QED
      BY <2>2, <3>3
  <2> QED
    BY <2>2, <2>3 DEF QueueOK, r
<1> QED
  BY <1>5, <1>6

(* What the stages of a processed segment leave alone: the queue keeps its  *)
(* order, and mode and backlog stay.                                        *)
Kept(c, d) ==
  /\ d.mode = c.mode /\ d.backlog = c.backlog
  /\ d.iss = c.iss /\ d.sndNext = c.sndNext
  /\ c.state = "Free" => d.queue = c.queue
  /\ Ordered(c.queue, c.iss, c.sndNext) => Ordered(d.queue, c.iss, c.sndNext)

(* The ACK stage. *)
LEMMA AckStepKept ==
  ASSUME NEW c, PcbOK(c), NEW seg \in Segment
  PROVE  Kept(c, AckStep(c, seg))
<1> DEFINE d == AckStep(c, seg)
           u == [c EXCEPT !.sndUna = seg.ack]
           o == Ordered(c.queue, c.iss, c.sndNext)
<1>1. c \in Pcb /\ seg.ack \in SeqNum
  BY DEF PcbOK, Segment
<1>2. CASE c.state = "SynReceived" \/ c.state = "Free" \/ seg.ack <= c.sndUna
  BY <1>1, <1>2 DEF AckStep, Kept, Pcb
<1>3. CASE ~(c.state = "SynReceived" \/ c.state = "Free" \/ seg.ack <= c.sndUna)
  <2>1. /\ u \in Pcb /\ u.queue = c.queue /\ u.iss = c.iss
        /\ u.sndNext = c.sndNext /\ u.mode = c.mode /\ u.backlog = c.backlog
    BY <1>1 DEF Pcb
  <2>2. PICK k \in Seq(Entry) :
          /\ CleanDataQueue(u) = [u EXCEPT !.queue = k]
          /\ o => Ordered(k, c.iss, c.sndNext)
    <3> HIDE DEF u
    <3>1. CASE o
      BY <2>1, <3>1, CleanDataQueueOrdered
    <3>2. CASE ~o
      BY <2>1, <3>2, CleanDataQueueType
    <3> QED
      BY <3>1, <3>2
  <2> DEFINE w == CleanDataQueue(u)
  <2>3. /\ w \in Pcb /\ w.queue = k /\ w.iss = c.iss /\ w.sndNext = c.sndNext
        /\ w.mode = c.mode /\ w.backlog = c.backlog
    <3> HIDE DEF u
    <3> QED
      BY <2>1, <2>2 DEF Pcb
  <2>4. d = IF c.wl1 < seg.seq \/ (c.wl1 = seg.seq /\ c.wl2 <= seg.ack)
            THEN [w EXCEPT !.sndWnd = seg.window, !.wl1 = seg.seq,
                           !.wl2 = seg.ack]
            ELSE w
    BY <1>3 DEF AckStep
  <2> HIDE DEF w, d
  <2>5. /\ d.queue = k /\ d.iss = c.iss /\ d.sndNext = c.sndNext
        /\ d.mode = c.mode /\ d.backlog = c.backlog
    BY <2>3, <2>4 DEF Pcb
  <2> QED
    BY <1>3, <2>2, <2>5 DEF Kept, d
<1> QED
  BY <1>2, <1>3

(* All the stages; the states they lead to. *)
LEMMA AfterFinKept ==
  ASSUME NEW c, PcbOK(c), NEW seg \in Segment, seg \in Segments,
         Processed(c, seg), ~ProcessingOverflows(c, seg)
  PROVE  LET d == AfterFin(c, seg)
         IN  /\ Kept(c, d)
             /\ c.state \in {"Free", "CloseWait", "SynReceived", "Established"}
             /\ c.state \in {"Free", "CloseWait"} => d.state = c.state
             /\ c.state \in {"SynReceived", "Established"} =>
                  d.state \in {"Established", "CloseWait"}
<1> DEFINE a == AckStep(c, seg)
           t == AfterText(c, seg)
           d == AfterFin(c, seg)
<1>1. c.state \in {"Free", "SynReceived", "Established", "CloseWait"}
  BY DEF PcbOK, Processed, Passes, Synchronised, Final, HalfClosed
<1>2. /\ Kept(c, a) /\ PcbOK(a)
      /\ c.state # "SynReceived" => a.state = c.state
      /\ c.state = "SynReceived" => a.state = "Established"
  BY AckStepKept, AckStepOK
<1>3. PcbOK(t) /\ t.state = a.state
  BY AfterTextOK
<1> HIDE DEF a
<1>4. Kept(c, t)
  <2>1. t = IF HasText(c, seg) THEN TextStep(a, seg) ELSE a
    BY DEF AfterText, a
  <2>2. a \in Pcb
    BY <1>2 DEF PcbOK
  <2>3. /\ t.mode = a.mode /\ t.backlog = a.backlog /\ t.iss = a.iss
        /\ t.sndNext = a.sndNext /\ t.queue = a.queue
    <3>1. CASE HasText(c, seg)
      BY <2>1, <2>2, <3>1 DEF TextStep, Pcb
    <3>2. CASE ~HasText(c, seg)
      BY <2>1, <3>2
    <3> QED
      BY <3>1, <3>2
  <2> HIDE DEF t
  <2> QED
    BY <1>2, <2>3 DEF Kept
<1> HIDE DEF t
<1>5. CASE "FIN" \notin seg.flags
  <2>1. d = t
    BY <1>5 DEF AfterFin, t
  <2> QED
    BY <1>1, <1>2, <1>3, <1>4, <2>1
<1>6. CASE "FIN" \in seg.flags
  <2>1. d = [t EXCEPT !.rcvNext = seg.seq + 1, !.state = FinState(t, seg)]
    BY <1>6 DEF AfterFin, FinStep, t
  <2>2. FinState(t, seg) = IF t.state = "Established" THEN "CloseWait" ELSE t.state
    BY <1>1, <1>2, <1>3 DEF FinState
  <2>3. t \in Pcb
    BY <1>3 DEF PcbOK
  <2>4. /\ d.state = FinState(t, seg) /\ d.mode = t.mode
        /\ d.backlog = t.backlog /\ d.iss = t.iss /\ d.sndNext = t.sndNext
        /\ d.queue = t.queue
    BY <2>1, <2>3 DEF Pcb
  <2> HIDE DEF d
  <2>5. Kept(c, d)
    BY <1>4, <2>4 DEF Kept
  <2> QED
    BY <1>1, <1>2, <1>3, <2>2, <2>4, <2>5 DEF d
<1> QED
  BY <1>5, <1>6

(* A processed segment leaves the queue in order. *)
LEMMA ProcessedQueue ==
  ASSUME NEW c, PcbOK(c), QueueOK(c), NEW seg \in Segment, seg \in Segments,
         Processed(c, seg), ~ProcessingOverflows(c, seg)
  PROVE  QueueOK(AfterFin(c, seg))
<1> DEFINE d == AfterFin(c, seg)
<1>1. /\ Kept(c, d)
      /\ c.state \in {"Free", "CloseWait", "SynReceived", "Established"}
      /\ c.state \in {"Free", "CloseWait"} => d.state = c.state
      /\ c.state \in {"SynReceived", "Established"} =>
           d.state \in {"Established", "CloseWait"}
  BY AfterFinKept
<1> HIDE DEF d
<1>2. QueueOK(d)
  BY <1>1 DEF QueueOK, Kept
<1> QED
  BY <1>2 DEF d

(* retransmit() empties the queue of a block in use. *)
LEMMA RetransmitQueue ==
  ASSUME NEW c \in Pcb, QueueOK(c)
  PROVE  LET d == AfterRetransmit(c)
         IN  /\ QueueOK(d) /\ d.mode = c.mode
             /\ d.state \in {c.state, "Free"}
             /\ d.state # "Free" => d.backlog = c.backlog
<1>1. QueueOK(Release(c)) /\ Release(c).mode = c.mode /\ Release(c).state = "Free"
  BY ReleaseQueue DEF Release, Pcb
<1> DEFINE e == [c EXCEPT !.queue = <<>>]
<1>2. /\ e.queue = <<>> /\ e.mode = c.mode /\ e.state = c.state
      /\ e.backlog = c.backlog
  BY DEF Pcb
<1> HIDE DEF e
<1>3. QueueOK(e)
  BY <1>2, EmptyOrdered DEF QueueOK
<1>4. AfterRetransmit(c) \in {c, Release(c), e}
  BY DEF AfterRetransmit, e
<1> QED
  BY <1>1, <1>2, <1>3, <1>4

(* Time changes no sequence number. *)
LEMMA AgedQueue ==
  ASSUME NEW c \in Pcb, QueueOK(c), NEW ages
  PROVE  LET d == Aged(c, ages)
         IN  /\ QueueOK(d) /\ d.mode = c.mode /\ d.state = c.state
             /\ d.backlog = c.backlog
<1> DEFINE q == [i \in DOMAIN c.queue |->
                   [c.queue[i] EXCEPT !.age = ages[c.queue[i].age]]]
           d == Aged(c, ages)
<1>1. c.queue \in Seq(Entry) /\ DOMAIN c.queue = 1..Len(c.queue)
  BY LenProperties DEF Pcb
<1>2. \A i \in DOMAIN c.queue : c.queue[i] \in Entry
  BY <1>1, ElementOfSeq
<1>3. DOMAIN q = DOMAIN c.queue /\ \A i \in DOMAIN q : q[i].seq = c.queue[i].seq
  BY <1>2 DEF Entry
<1>4. c.queue = <<>> => q = <<>>
  OBVIOUS
<1>5. /\ d.queue = q /\ d.mode = c.mode /\ d.state = c.state
      /\ d.backlog = c.backlog /\ d.iss = c.iss /\ d.sndNext = c.sndNext
  BY DEF Aged, Pcb
<1> HIDE DEF q, d
<1>6. Ordered(c.queue, c.iss, c.sndNext) => Ordered(q, c.iss, c.sndNext)
  <2>1. ASSUME NEW i \in DOMAIN q, NEW j \in 1..i
        PROVE  j \in DOMAIN q
    <3>1. Len(c.queue) \in Nat
      BY <1>1, LenProperties
    <3> QED
      BY <1>1, <1>3, <3>1
  <2> QED
    BY <1>3, <2>1 DEF Ordered
<1>7. QueueOK(d)
  BY <1>4, <1>5, <1>6 DEF QueueOK
<1> QED
  BY <1>5, <1>7 DEF d

(* send() queues its data at next. *)
LEMMA DataQueue ==
  ASSUME NEW c, PcbOK(c), QueueOK(c), c.state \in {"Established", "CloseWait"},
         NEW data \in Seq(Bytes), NEW len \in Nat, len >= 1,
         c.sndNext + len <= SeqMax
  PROVE  LET d == WithData(c, data, len)
         IN  /\ QueueOK(d) /\ d.state = c.state /\ d.mode = c.mode
             /\ d.backlog = c.backlog
<1> DEFINE e == [seq |-> c.sndNext, flags |-> {"ACK", "PSH"}, data |-> data,
                 age |-> "fresh"]
           d == WithData(c, data, len)
           top == c.sndNext + len
<1>1. /\ c \in Pcb /\ c.sndNext \in SeqNum /\ c.sndNext \in Int
      /\ c.iss \in Int /\ c.iss <= c.sndNext /\ c.queue \in Seq(Entry)
  BY DEF PcbOK, SpaceOK, Connecting, Pcb, SeqNum
<1>2. e \in Entry /\ e.seq = c.sndNext
  BY <1>1 DEF Entry, Ages, Flag
<1>3. /\ d.queue = Append(c.queue, e) /\ d.state = c.state
      /\ d.mode = c.mode /\ d.backlog = c.backlog /\ d.iss = c.iss
      /\ d.sndNext = top
  BY <1>1 DEF WithData, AddDataQueue, Pcb
<1> HIDE DEF e, d
<1>4. ASSUME Ordered(c.queue, c.iss, c.sndNext)
      PROVE  Ordered(Append(c.queue, e), c.iss, top)
  <2>1. \A i \in DOMAIN c.queue : c.queue[i].seq <= e.seq
    <3>1. \A i \in DOMAIN c.queue : c.queue[i] \in Entry
      BY <1>1, ElementOfSeq, LenProperties
    <3>2. \A x \in Entry : x.seq \in Int
      BY SeqAssumption DEF Entry, SeqNum
    <3> QED
      BY <1>1, <1>2, <1>4, <3>1, <3>2 DEF Ordered
  <2>2. /\ top \in Int /\ c.sndNext <= top /\ c.iss <= e.seq /\ e.seq < top
    BY <1>1, <1>2
  <2> HIDE DEF top
  <2> QED
    BY <1>1, <1>2, <1>4, <2>1, <2>2, AppendOrdered
<1>5. QueueOK(d)
  BY <1>3, <1>4 DEF QueueOK
<1> QED
  BY <1>3, <1>5 DEF d

-----------------------------------------------------------------------------
(* The inductive invariant *)

(* While the program runs, the queues are in order and a transfer in        *)
(* progress has a connection, data to send and room in the window.          *)
QueuesOK ==
  phase = "running" =>
    /\ \A p \in Pcbs : QueueOK(pcbs[p])
    /\ call.pc = "sending" =>
         /\ call.data # <<>> /\ call.n >= 1
         /\ pcbs[call.pcb].state \in {"Established", "CloseWait"}

Starving == QueuesOK /\ SendStarves /\ AcceptStarves

(* AcceptStarves in terms of DataLemmas. *)
LEMMA AcceptCounted ==
  AcceptStarves <=>
    (call.pc = "accept" /\ pcbs[call.pcb].state = "Listen" =>
       Count(chan) <= Len(pcbs[call.pcb].backlog))
BY DEF AcceptStarves, Count, Trues

(* The table of TcpPcbs::new(). *)
LEMMA InitStarving ==
  ASSUME Init
  PROVE  Starving
<1>1. \A p \in Pcbs : QueueOK(pcbs[p])
  BY DEF Init, NewPcb, QueueOK
<1>2. call.pc = "idle"
  BY DEF Init, Idle
<1> QED
  BY <1>1, <1>2 DEF Starving, QueuesOK, SendStarves, AcceptStarves

(* A step after which no send() and no accept() is in progress. *)
LEMMA OtherCallStep ==
  ASSUME call'.pc \notin {"sending", "sendwait", "accept"},
         phase' = "running" => \A p \in Pcbs : QueueOK(pcbs'[p])
  PROVE  Starving'
BY DEF Starving, QueuesOK, SendStarves, AcceptStarves

(* One block changes. *)
LEMMA OneQueue ==
  ASSUME TableOK, QueuesOK, NEW p \in Pcbs, NEW s,
         phase = "running" => QueueOK(s),
         pcbs' = [pcbs EXCEPT ![p] = s]
  PROVE  phase = "running" => \A q \in Pcbs : QueueOK(pcbs'[q])
BY DEF TableOK, QueuesOK

(* No block changes in what QueueOK looks at. *)
LEMMA SameQueue ==
  ASSUME NEW c, NEW d, QueueOK(c), d.state = c.state, d.mode = c.mode,
         d.queue = c.queue, d.iss = c.iss, d.sndNext = c.sndNext
  PROVE  QueueOK(d)
BY DEF QueueOK

(* A step that leaves the table, the call and its channel alone. *)
LEMMA StillStep ==
  ASSUME Starving, UNCHANGED <<pcbs, call, chan>>, phase' \in {phase, "panic"}
  PROVE  Starving'
<1>1. QueuesOK' /\ SendStarves'
  BY DEF Starving, QueuesOK, SendStarves, Capacity
<1>2. AcceptStarves'
  BY DEF Starving, AcceptStarves
<1> QED
  BY <1>1, <1>2 DEF Starving

(* A segment changes the state of a block, which is no listener then: an    *)
(* accept() on another block gets no token.                                 *)
LEMMA ArrivingStep ==
  ASSUME IInv, Starving, NEW p \in Pcbs, NEW s, s.state # "Listen",
         phase = "running" => QueueOK(s), ~DeviceHeld,
         pcbs' = [pcbs EXCEPT ![p] = s],
         chan' = chan \/ \E go \in BOOLEAN : chan' = chan \o Token(p, go),
         UNCHANGED <<call, phase>>
  PROVE  Starving'
<1>1. phase' = "running" => \A q \in Pcbs : QueueOK(pcbs'[q])
  BY OneQueue DEF IInv, Starving
<1>2. QueuesOK' /\ SendStarves'
  BY <1>1 DEF QueuesOK, SendStarves, DeviceHeld
<1>3. AcceptStarves'
  <2> SUFFICES ASSUME call.pc = "accept", pcbs'[call.pcb].state = "Listen"
               PROVE  AcceptStarves'
    BY DEF AcceptStarves
  <2>1. call.pcb \in Pcbs /\ chan \in Seq(BOOLEAN)
    BY DEF IInv, CallOK
  <2>2. call.pcb # p /\ pcbs'[call.pcb] = pcbs[call.pcb]
    BY <2>1 DEF IInv, TableOK
  <2>3. \A go \in BOOLEAN : Token(p, go) = <<>>
    BY <2>2 DEF Token
  <2>4. chan' = chan
    BY <2>1, <2>3, ConcatEmptySeq
  <2> QED
    BY <2>2, <2>4 DEF Starving, AcceptStarves
<1> QED
  BY <1>2, <1>3 DEF Starving

(* segment_arrives: everything up to the acknowledgment. *)
LEMMA ArrivalsStarving ==
  ASSUME IInv, Starving, NEW seg \in Segments, NEW p \in Pcbs,
         \/ ListenSyn(seg, p) \/ SynSentReset(seg, p)
         \/ SynSentArrives(seg, p) \/ Reset(seg, p)
  PROVE  Starving'
<1>1. /\ TableOK /\ seg \in Segment /\ PcbOK(pcbs[p]) /\ pcbs[p] \in Pcb
      /\ phase = "running" /\ ~DeviceHeld /\ UNCHANGED <<call, phase>>
      /\ \A q \in Pcbs : QueueOK(pcbs[q])
  BY SegmentType DEF IInv, TableOK, PcbOK, ListenSyn, SynSentReset,
     SynSentArrives, Reset, ArrivesAt, SignalsTaken, Starving, QueuesOK
<1>2. CASE ListenSyn(seg, p)
  <2> DEFINE q(c) == IF pcbs[p].mode = "Socket"
                     THEN [pcbs[c] EXCEPT !.mode = "Socket", !.parent = p]
                     ELSE pcbs[c]
             s(c, iss) == PassiveSyn(q(c), seg, iss)
  <2>1. PICK iss \in InitialSeqs, c \in Pcbs :
          /\ IF pcbs[p].mode = "Socket" THEN NewEntry(c) ELSE c = p
          /\ pcbs' = [pcbs EXCEPT ![c] = s(c, iss)]
    BY <1>2 DEF ListenSyn
  <2>2. /\ PcbOK(q(c)) /\ seg.seq < SeqMax /\ chan' = chan
        /\ pcbs[p].state = "Listen" /\ pcbs[c] \in Pcb
    BY <1>1, <1>2, ModeParentOK DEF ListenSyn, ListenTakesSyn, TableOK, PcbOK
  <2>3. \/ q(c).mode = "Socket"
        \/ q(c) = pcbs[p] /\ pcbs[p].mode # "Socket"
    BY <2>1, <2>2 DEF Pcb
  <2> DEFINE b == q(c)
             d == PassiveSyn(b, seg, iss)
  <2>4. b.mode = "Rfc793" => b.queue = <<>>
    BY <1>1, <2>2, <2>3 DEF QueueOK
  <2>5. pcbs' = [pcbs EXCEPT ![c] = d]
    BY <2>1
  <2> HIDE DEF b
  <2>6. PcbOK(b) /\ b \in Pcb
    BY <2>2 DEF b, PcbOK
  <2>7. d.state = "SynReceived" /\ d.mode = b.mode
    <3>1. PassiveSyn(b, seg, iss).state = "SynReceived"
      BY <1>1, <2>2, <2>6, PassiveSynOK
    <3> QED
      BY <2>6, <3>1 DEF PassiveSyn, WithSyn, AddDataQueue, Pcb
  <2>8. QueueOK(d)
    <3>1. CASE b.mode = "Rfc793"
      BY <2>4, <2>6, <3>1, PassiveQueue
    <3>2. CASE b.mode # "Rfc793"
      <4> HIDE DEF d
      <4> QED
        BY <2>7, <3>2, SocketQueue
    <3> QED
      BY <3>1, <3>2
  <2> HIDE DEF d
  <2> QED
    BY <1>1, <2>2, <2>5, <2>7, <2>8, ArrivingStep
<1>3. CASE SynSentReset(seg, p) \/ Reset(seg, p)
  <2>1. /\ pcbs' = [pcbs EXCEPT ![p] = Release(pcbs[p])]
        /\ chan' = chan \o Token(p, FALSE)
    BY <1>3 DEF SynSentReset, Reset
  <2>2. Release(pcbs[p]).state = "Free" /\ QueueOK(Release(pcbs[p]))
    BY <1>1, ReleaseOK, ReleaseQueue
  <2> QED
    BY <1>1, <2>1, <2>2, ArrivingStep
<1>4. CASE SynSentArrives(seg, p)
  <2> DEFINE s == SynSentSyn(pcbs[p], seg)
  <2>1. /\ pcbs' = [pcbs EXCEPT ![p] = s]
        /\ chan' = chan \/ chan' = chan \o Token(p, TRUE)
        /\ pcbs[p].state = "SynSent" /\ seg.seq < SeqMax
        /\ ~BadSynSentAck(pcbs[p], seg)
    BY <1>4 DEF SynSentArrives, SynSentTakesSyn
  <2>2. QueueOK(s) /\ s.state # "Listen"
    BY <1>1, <2>1, SynSentQueue, SynSentSynOK
  <2> HIDE DEF s
  <2> QED
    BY <1>1, <2>1, <2>2, ArrivingStep
<1> QED
  BY <1>2, <1>3, <1>4

(* The acknowledgment, text and FIN stages: the listener's backlog grows    *)
(* together with the tokens of its accept().                                *)
LEMMA ProcessStarving ==
  ASSUME IInv, Starving, NEW seg \in Segments, NEW p \in Pcbs, Process(seg, p)
  PROVE  Starving'
<1> DEFINE c == pcbs[p]
           d == AfterFin(c, seg)
           announced == c.state = "SynReceived" /\ c.parent # NoPcb
           old(q) == IF q = p THEN d ELSE pcbs[q]
           new(q) == IF announced /\ q = c.parent
                     THEN [old(q) EXCEPT !.backlog = Append(old(q).backlog, p)]
                     ELSE old(q)
           t == IF c.state = "SynReceived" THEN Token(p, TRUE) ELSE <<>>
           u == IF announced THEN Token(c.parent, TRUE) ELSE <<>>
           v == IF HasText(c, seg) THEN Token(p, TRUE) ELSE <<>>
           w == IF "FIN" \in seg.flags
                   /\ c.state \in {"SynReceived", "Established"}
                THEN Token(p, TRUE) ELSE <<>>
<1>1. /\ seg \in Segment /\ PcbOK(c) /\ Processed(c, seg)
      /\ ~ProcessingOverflows(c, seg) /\ TableOK
  BY SegmentType DEF IInv, TableOK, Process, Overflows
<1>2. /\ pcbs' = [q \in Pcbs |-> new(q)]
      /\ chan' = chan \o t \o u \o v \o w
      /\ ~DeviceHeld /\ UNCHANGED <<call, phase>> /\ phase = "running"
      /\ \A q \in Pcbs : QueueOK(pcbs[q])
  BY DEF Process, ArrivesAt, SignalsTaken, Starving, QueuesOK
<1>3. /\ PcbOK(d) /\ QueueOK(d)
      /\ d.state \in {"Free", "Established", "CloseWait"}
  BY <1>1, <1>2, AfterFinOK, AfterFinKept, ProcessedQueue
<1> HIDE DEF d
<1>4. ASSUME NEW q \in Pcbs
      PROVE  /\ QueueOK(new(q)) /\ new(q).state = old(q).state
             /\ old(q).backlog \in Seq(Pcbs)
             /\ new(q).backlog = IF announced /\ q = c.parent
                                 THEN Append(old(q).backlog, p)
                                 ELSE old(q).backlog
  <2>1. old(q) \in Pcb /\ QueueOK(old(q))
    BY <1>1, <1>2, <1>3 DEF TableOK, PcbOK
  <2> HIDE DEF old, announced, c
  <2>2. /\ new(q).state = old(q).state /\ new(q).mode = old(q).mode
        /\ new(q).queue = old(q).queue /\ new(q).iss = old(q).iss
        /\ new(q).sndNext = old(q).sndNext
        /\ new(q).backlog = IF announced /\ q = c.parent
                            THEN Append(old(q).backlog, p)
                            ELSE old(q).backlog
    BY <2>1 DEF Pcb
  <2>3. old(q).backlog \in Seq(Pcbs)
    BY <2>1 DEF Pcb
  <2> HIDE DEF new
  <2> QED
    BY <2>1, <2>2, <2>3, SameQueue
<1> HIDE DEF new
<1>5. QueuesOK' /\ SendStarves'
  BY <1>2, <1>4 DEF QueuesOK, SendStarves, DeviceHeld
<1>6. AcceptStarves'
  <2> SUFFICES ASSUME call.pc = "accept", pcbs'[call.pcb].state = "Listen"
               PROVE  AcceptStarves'
    BY <1>2 DEF AcceptStarves
  <2> DEFINE a == call.pcb
             m == pcbs[a].backlog
  <2>1. a \in Pcbs /\ chan \in Seq(BOOLEAN)
    BY DEF IInv, CallOK
  <2>2. a # p /\ pcbs[a].state = "Listen"
    BY <1>2, <1>3, <1>4, <2>1
  <2>3. m \in Seq(Pcbs) /\ Len(m) \in Nat
    BY <1>4, <2>1, <2>2, LenProperties
  <2>4. Count(chan) <= Len(m) /\ Count(chan) \in Nat
    BY <2>1, <2>2, AcceptCounted, CountType DEF Starving
  <2>5. t = <<>> /\ v = <<>> /\ w = <<>>
    BY <2>2 DEF Token
  <2>6. CASE announced /\ a = c.parent
    <3>1. u = <<TRUE>>
      BY <2>6 DEF Token
    <3>2. chan' = Append(chan, TRUE)
      <4> HIDE DEF t, u, v, w
      <4>1. chan' = chan \o <<>> \o <<TRUE>> \o <<>> \o <<>>
        BY <1>2, <2>5, <3>1
      <4>2. chan \in Seq(BOOLEAN)
        BY <2>1
      <4>3. /\ chan \o <<>> = chan /\ chan \o <<TRUE>> = Append(chan, TRUE)
            /\ Append(chan, TRUE) \in Seq(BOOLEAN)
        BY <4>2, SendToken
      <4>4. Append(chan, TRUE) \o <<>> = Append(chan, TRUE)
        BY <4>3, ConcatEmptySeq
      <4> QED
        BY <4>1, <4>3, <4>4
    <3>3. Count(chan') = Count(chan) + 1
      BY <2>1, <3>2, CountAppend
    <3>4. pcbs'[a].backlog = Append(m, p)
      BY <1>2, <1>4, <2>1, <2>2, <2>6
    <3>5. Len(pcbs'[a].backlog) = Len(m) + 1
      <4> HIDE DEF m
      <4> QED
        BY <2>3, <3>4, AppendProperties
    <3>6. Count(chan') <= Len(pcbs'[a].backlog)
      BY <2>3, <2>4, <3>3, <3>5
    <3> QED
      BY <1>2, <3>6 DEF AcceptStarves, Count, Trues
  <2>7. CASE ~(announced /\ a = c.parent)
    <3>1. u = <<>>
      BY <2>7 DEF Token
    <3>2. chan' = chan
      <4> HIDE DEF t, u, v, w
      <4>1. chan' = chan \o <<>> \o <<>> \o <<>> \o <<>>
        BY <1>2, <2>5, <3>1
      <4> QED
        BY <2>1, <4>1
    <3>3. pcbs'[a].backlog = m
      BY <1>2, <1>4, <2>1, <2>2, <2>7
    <3>4. Count(chan') <= Len(pcbs'[a].backlog)
      BY <2>4, <3>2, <3>3
    <3> QED
      BY <1>2, <3>4 DEF AcceptStarves, Count, Trues
  <2> QED
    BY <2>6, <2>7
<1> QED
  BY <1>5, <1>6 DEF Starving

(* Every segment. *)
LEMMA SegmentsStarving ==
  ASSUME IInv, Starving, SegmentArrives
  PROVE  Starving'
<1>1. PICK seg \in Segments :
        \/ Refuse(seg)
        \/ ArrivalPanics(seg)
        \/ \E p \in Pcbs :
             \/ RefuseAck(seg, p) \/ ListenSyn(seg, p)
             \/ SynSentReset(seg, p) \/ SynSentArrives(seg, p)
             \/ Unacceptable(seg, p) \/ Reset(seg, p)
             \/ AckAhead(seg, p) \/ Process(seg, p)
  BY DEF SegmentArrives
<1>2. CASE Refuse(seg) \/ ArrivalPanics(seg)
  BY <1>2, StillStep DEF Refuse, ArrivalPanics, Panic
<1>3. ASSUME NEW p \in Pcbs,
             RefuseAck(seg, p) \/ Unacceptable(seg, p) \/ AckAhead(seg, p)
      PROVE  Starving'
  BY <1>3, StillStep DEF RefuseAck, Unacceptable, AckAhead
<1> QED
  BY <1>1, <1>2, <1>3, ArrivalsStarving, ProcessStarving

(* retransmit(), time and the TERM signal. *)
LEMMA TimeStarving ==
  ASSUME IInv, Starving,
         Retransmit \/ RetryIntervalPasses \/ TimeoutPasses \/ CloseSockets
  PROVE  Starving'
<1>1. /\ TableOK /\ (call.pc = "accept" => call.pcb \in Pcbs)
      /\ \A p \in Pcbs : pcbs[p] \in Pcb
  BY DEF IInv, TableOK, CallOK
<1>2. CASE Retransmit
  <2>1. /\ ~DeviceHeld /\ call' = call
        /\ phase' = "running" => phase = "running"
        /\ \A p \in Pcbs : pcbs'[p] = AfterRetransmit(pcbs[p])
    BY <1>2 DEF Retransmit
  <2>2. QueuesOK' /\ SendStarves'
    BY <1>1, <2>1, RetransmitQueue
       DEF Starving, QueuesOK, SendStarves, DeviceHeld
  <2>3. AcceptStarves'
    <3> SUFFICES ASSUME call.pc = "accept", pcbs'[call.pcb].state = "Listen"
                 PROVE  AcceptStarves'
      BY <2>1 DEF AcceptStarves
    <3>1. call.pcb \in Pcbs /\ pcbs'[call.pcb] = AfterRetransmit(pcbs[call.pcb])
      BY <1>1, <2>1
    <3>2. /\ pcbs[call.pcb].state = "Listen"
          /\ pcbs'[call.pcb].backlog = pcbs[call.pcb].backlog
      BY <1>1, <3>1 DEF AfterRetransmit, Release, Pcb
    <3>3. chan' = chan
      BY <1>2 DEF Retransmit
    <3> QED
      BY <2>1, <3>2, <3>3 DEF Starving, AcceptStarves
  <2> QED
    BY <2>2, <2>3 DEF Starving
<1>3. CASE RetryIntervalPasses \/ TimeoutPasses
  <2>1. PICK ages : pcbs' = [p \in Pcbs |-> Aged(pcbs[p], ages)]
                    /\ UNCHANGED <<call, chan, phase>>
    BY <1>3 DEF RetryIntervalPasses, TimeoutPasses, Age
  <2>2. \A p \in Pcbs : /\ pcbs'[p].state = pcbs[p].state
                        /\ pcbs'[p].backlog = pcbs[p].backlog
                        /\ pcbs'[p].sndWnd = pcbs[p].sndWnd
                        /\ pcbs'[p].sndNext = pcbs[p].sndNext
                        /\ pcbs'[p].sndUna = pcbs[p].sndUna
    BY <1>1, <2>1 DEF Aged, Pcb
  <2>3. phase = "running" => \A p \in Pcbs : QueueOK(pcbs'[p])
    BY <1>1, <2>1, AgedQueue DEF Starving, QueuesOK
  <2>4. call.pc # "idle" => call.pcb \in Pcbs
    BY DEF IInv, CallOK
  <2>5. QueuesOK'
    BY <2>1, <2>2, <2>3, <2>4 DEF Starving, QueuesOK
  <2>6. SendStarves' /\ AcceptStarves'
    BY <2>1, <2>2, <2>4 DEF Starving, SendStarves, AcceptStarves, Capacity
  <2> QED
    BY <2>5, <2>6 DEF Starving
<1>4. CASE CloseSockets
  <2>1. phase' # "running" /\ call' = call
        /\ \A p \in Pcbs : pcbs'[p].state = "Free"
    BY <1>1, <1>4 DEF CloseSockets, Release, Pcb
  <2> QED
    BY <1>1, <2>1 DEF Starving, QueuesOK, SendStarves, AcceptStarves
<1> QED
  BY <1>2, <1>3, <1>4

-----------------------------------------------------------------------------
(* Calls *)

(* A call that changes one block, and after which the application is        *)
(* neither in send() nor in accept().                                       *)
LEMMA OneBlockCall ==
  ASSUME IInv, Starving, NEW p \in Pcbs, NEW s,
         phase = "running" => QueueOK(s),
         pcbs' = [pcbs EXCEPT ![p] = s], UNCHANGED phase,
         call'.pc \notin {"sending", "sendwait", "accept"}
  PROVE  Starving'
<1>1. phase = "running" => \A q \in Pcbs : QueueOK(pcbs'[q])
  BY OneQueue DEF IInv, Starving
<1> QED
  BY <1>1, OtherCallStep

(* A call that leaves the table alone, likewise. *)
LEMMA NoBlockCall ==
  ASSUME Starving, UNCHANGED <<pcbs, phase>>,
         call'.pc \notin {"sending", "sendwait", "accept"}
  PROVE  Starving'
<1>1. phase' = "running" => \A q \in Pcbs : QueueOK(pcbs'[q])
  BY DEF Starving, QueuesOK
<1> QED
  BY <1>1, OtherCallStep

(* rfc793_open takes a free block, whose queue is empty. *)
LEMMA OpensStarving ==
  ASSUME IInv, Starving, NEW local \in Locals,
         PassiveOpen(local) \/ \E remote \in Remotes : ActiveOpen(local, remote)
  PROVE  Starving'
<1>1. TableOK /\ local \in Endpoint /\ UNCHANGED phase
  BY EndpointType DEF IInv, PassiveOpen, ActiveOpen
<1>2. CASE PassiveOpen(local)
  <2>1. PICK p \in Pcbs :
          /\ NewEntry(p)
          /\ pcbs' = [pcbs EXCEPT ![p].mode = "Rfc793", ![p].local = local,
                                  ![p].state = "Listen"]
          /\ call' = Waiting("open", p)
    BY <1>2 DEF PassiveOpen
  <2> DEFINE d == [pcbs[p] EXCEPT !.mode = "Rfc793", !.local = local,
                                  !.state = "Listen"]
  <2>2. /\ pcbs[p] \in Pcb /\ pcbs' = [pcbs EXCEPT ![p] = d]
        /\ phase = "running" => pcbs[p].queue = <<>>
    BY <1>1, <2>1 DEF TableOK, NewEntry, Starving, QueuesOK, QueueOK, Pcb
  <2>3. d.queue = pcbs[p].queue /\ d.state = "Listen"
    BY <2>2 DEF Pcb
  <2>4. call'.pc = "open"
    BY <2>1, WaitingType DEF CallPc
  <2> HIDE DEF d
  <2>5. phase = "running" => QueueOK(d)
    BY <2>2, <2>3, EmptyOrdered DEF QueueOK
  <2> QED
    BY <1>1, <2>2, <2>4, <2>5, OneBlockCall
<1>3. ASSUME NEW remote \in Remotes, ActiveOpen(local, remote)
      PROVE  Starving'
  <2> DEFINE b(p) == [pcbs[p] EXCEPT !.mode = "Rfc793"]
             s(p, iss) == ActiveSyn(b(p), local, remote, iss)
  <2>1. PICK p \in Pcbs, iss \in InitialSeqs :
          /\ NewEntry(p)
          /\ pcbs' = [pcbs EXCEPT ![p] = s(p, iss)]
          /\ call' = Waiting("open", p)
    BY <1>3 DEF ActiveOpen
  <2>2. /\ pcbs[p] \in Pcb /\ PcbOK(pcbs[p]) /\ remote \in Endpoint
        /\ phase = "running" => pcbs[p].queue = <<>>
    BY <1>1, <2>1, EndpointType
       DEF TableOK, NewEntry, Starving, QueuesOK, QueueOK, Pcb
  <2>3. PcbOK(b(p)) /\ b(p).queue = pcbs[p].queue
    BY <1>1, <2>2, FieldsOK DEF Pcb
  <2> HIDE DEF b
  <2>4. phase = "running" => QueueOK(s(p, iss))
    BY <1>1, <2>2, <2>3, ActiveQueue
  <2> HIDE DEF s
  <2>5. call'.pc = "open"
    BY <2>1, WaitingType DEF CallPc
  <2> QED
    BY <1>1, <2>1, <2>4, <2>5, OneBlockCall
<1> QED
  BY <1>2, <1>3

(* open, bind, listen, connect and close. *)
LEMMA SocketCallsStarving ==
  ASSUME IInv, Starving,
         \/ SocketOpen
         \/ \E p \in handles : \/ \E local \in Locals : Bind(p, local)
                               \/ Listen(p) \/ Close(p)
                               \/ \E remote \in Remotes : Connect(p, remote)
  PROVE  Starving'
<1>1. /\ TableOK /\ handles \subseteq Pcbs /\ UNCHANGED phase
      /\ \A p \in Pcbs : PcbOK(pcbs[p]) /\ pcbs[p] \in Pcb
  BY DEF IInv, CallOK, TableOK, PcbOK, SocketOpen, Bind, Listen, Close, Connect
<1>2. CASE SocketOpen
  <2>1. PICK p \in Pcbs :
          pcbs' = [pcbs EXCEPT ![p].state = "Closed", ![p].mode = "Socket"]
    BY <1>2 DEF SocketOpen
  <2> DEFINE d == [pcbs[p] EXCEPT !.state = "Closed", !.mode = "Socket"]
  <2>2. pcbs' = [pcbs EXCEPT ![p] = d] /\ d.mode = "Socket" /\ d.state = "Closed"
    BY <1>1, <2>1 DEF TableOK, Pcb
  <2>3. call'.pc = "idle"
    BY <1>2 DEF SocketOpen, Calling
  <2> HIDE DEF d
  <2>4. QueueOK(d)
    BY <2>2, SocketQueue
  <2> QED
    BY <1>1, <2>2, <2>3, <2>4, OneBlockCall
<1>3. ASSUME NEW p \in handles, NEW local \in Locals, Bind(p, local)
      PROVE  Starving'
  <2> DEFINE d == [pcbs[p] EXCEPT !.local = local]
  <2>1. /\ p \in Pcbs /\ pcbs' = [pcbs EXCEPT ![p] = d] /\ call'.pc = "idle"
        /\ d.state = pcbs[p].state /\ d.mode = pcbs[p].mode
        /\ d.queue = pcbs[p].queue /\ d.iss = pcbs[p].iss
        /\ d.sndNext = pcbs[p].sndNext
    BY <1>1, <1>3 DEF Bind, Calling, TableOK, Pcb
  <2> HIDE DEF d
  <2>2. phase = "running" => QueueOK(d)
    BY <2>1, SameQueue DEF Starving, QueuesOK
  <2> QED
    BY <1>1, <2>1, <2>2, OneBlockCall
<1>4. ASSUME NEW p \in handles, Listen(p)
      PROVE  Starving'
  <2> DEFINE d == [pcbs[p] EXCEPT !.state = "Listen"]
  <2>1. /\ p \in Pcbs /\ pcbs' = [pcbs EXCEPT ![p] = d] /\ call'.pc = "idle"
        /\ d.state = "Listen" /\ d.mode = "Socket"
    BY <1>1, <1>4 DEF Listen, Calling, TableOK, Pcb
  <2> HIDE DEF d
  <2>2. QueueOK(d)
    BY <2>1, SocketQueue
  <2> QED
    BY <1>1, <2>1, <2>2, OneBlockCall
<1>5. ASSUME NEW p \in handles, Close(p)
      PROVE  Starving'
  <2>1. /\ p \in Pcbs /\ pcbs' = [pcbs EXCEPT ![p] = Release(pcbs[p])]
        /\ call'.pc = "idle" /\ QueueOK(Release(pcbs[p]))
    BY <1>1, <1>5, ReleaseQueue DEF Close, Calling
  <2> QED
    BY <1>1, <2>1, OneBlockCall
<1>6. ASSUME NEW p \in handles, NEW remote \in Remotes, Connect(p, remote)
      PROVE  Starving'
  <2>1. PICK local, iss : pcbs' = [pcbs EXCEPT ![p] =
                                     ActiveSyn(pcbs[p], local, remote, iss)]
    BY <1>6 DEF Connect
  <2> DEFINE d == ActiveSyn(pcbs[p], local, remote, iss)
  <2>2. p \in Pcbs /\ d.mode = "Socket" /\ d.state = "SynSent"
    <3>1. p \in Pcbs /\ pcbs[p] \in Pcb /\ pcbs[p].mode = "Socket"
      BY <1>1, <1>6 DEF Connect
    <3> QED
      BY <3>1 DEF ActiveSyn, WithSyn, AddDataQueue, Pcb
  <2>3. call'.pc = "connect"
    BY <1>6, <2>2, WaitingType DEF Connect, CallPc
  <2> HIDE DEF d
  <2>4. QueueOK(d)
    BY <2>2, SocketQueue
  <2>5. pcbs' = [pcbs EXCEPT ![p] = d]
    BY <2>1 DEF d
  <2> QED
    BY <1>1, <2>2, <2>3, <2>4, <2>5, OneBlockCall
<1> QED
  BY <1>2, <1>3, <1>4, <1>5, <1>6

(* No call. *)
LEMMA IdlePc == Idle.pc = "idle"
BY DEF Idle

(* accept() starts with an empty channel ... *)
LEMMA AcceptStarving ==
  ASSUME IInv, Starving, NEW p \in handles, Accept(p)
  PROVE  Starving'
<1> DEFINE q == pcbs[p].backlog
           d == [pcbs[p] EXCEPT !.backlog = Tail(q)]
<1>1. /\ TableOK /\ chan = <<>> /\ p \in Pcbs /\ pcbs[p] \in Pcb
      /\ q \in Seq(Pcbs) /\ q # <<>> /\ UNCHANGED <<chan, phase>>
  BY CallFacts DEF Accept, TableOK, Pcb
<1>2. Tail(q) \in Seq(Pcbs) /\ Len(Tail(q)) \in Nat
  BY <1>1, HeadTailProperties, LenProperties
<1>3. /\ pcbs' = [pcbs EXCEPT ![p] = d] /\ d.backlog = Tail(q)
      /\ d.state = pcbs[p].state /\ d.mode = pcbs[p].mode
      /\ d.queue = pcbs[p].queue /\ d.iss = pcbs[p].iss
      /\ d.sndNext = pcbs[p].sndNext
  BY <1>1 DEF Accept, TableOK, Pcb
<1>4. call'.pc = "accept" /\ call'.pcb = p
  BY DEF Accept, Waiting, Idle
<1> HIDE DEF d
<1>5. phase = "running" => QueueOK(d)
  BY <1>1, <1>3, SameQueue DEF Starving, QueuesOK
<1>6. phase = "running" => \A b \in Pcbs : QueueOK(pcbs'[b])
  BY <1>1, <1>3, <1>5, OneQueue DEF Starving
<1>7. QueuesOK' /\ SendStarves'
  BY <1>1, <1>4, <1>6 DEF QueuesOK, SendStarves
<1>8. AcceptStarves'
  <2>1. Count(chan') = 0 /\ pcbs'[p].backlog = Tail(q)
    BY <1>1, <1>3, CountEmpty DEF TableOK
  <2>2. Count(chan') <= Len(pcbs'[p].backlog)
    BY <1>2, <2>1
  <2> QED
    BY <1>4, <2>2 DEF AcceptStarves, Count, Trues
<1> QED
  BY <1>7, <1>8 DEF Starving

(* ... and every wakeup takes a token and an entry. *)
LEMMA AcceptWakesStarving ==
  ASSUME IInv, Starving, AcceptWakes
  PROVE  Starving'
<1> DEFINE p == call.pcb
           q == pcbs[p].backlog
           d == [pcbs[p] EXCEPT !.backlog = RestOf(q)]
<1>1. /\ p \in Pcbs /\ call \in Call /\ call.pc = "accept"
      /\ UNCHANGED phase /\ TableOK /\ pcbs[p] \in Pcb
      /\ chan \in Seq(BOOLEAN) /\ chan # <<>> /\ q \in Seq(Pcbs)
  BY DEF AcceptWakes, IInv, CallOK, TableOK, Pcb
<1>2. CASE ~Head(chan) \/ pcbs[p].state = "Closed"
  <2>1. call' = Idle /\ UNCHANGED pcbs
    BY <1>2 DEF AcceptWakes, Return
  <2> QED
    BY <1>1, <2>1, IdlePc, NoBlockCall
<1>3. CASE ~(~Head(chan) \/ pcbs[p].state = "Closed")
  <2>1. /\ pcbs' = [pcbs EXCEPT ![p] = d] /\ d.backlog = RestOf(q)
        /\ d.state = pcbs[p].state /\ d.mode = pcbs[p].mode
        /\ d.queue = pcbs[p].queue /\ d.iss = pcbs[p].iss
        /\ d.sndNext = pcbs[p].sndNext
    BY <1>1, <1>3 DEF AcceptWakes, TableOK, Pcb
  <2> HIDE DEF d
  <2>2. phase = "running" => QueueOK(d)
    BY <1>1, <2>1, SameQueue DEF Starving, QueuesOK
  <2>3. CASE FirstOf(q) = NoPcb
    <3>1. call' = Idle
      BY <1>3, <2>3 DEF AcceptWakes, Return
    <3> QED
      BY <1>1, <2>1, <2>2, <3>1, IdlePc, OneBlockCall
  <2>4. CASE FirstOf(q) # NoPcb
    <3>1. call' = [call EXCEPT !.got = call.next, !.next = FirstOf(q)]
          /\ chan' = Tail(chan)
      BY <1>3, <2>4 DEF AcceptWakes
    <3>2. call'.pc = "accept" /\ call'.pcb = p
      BY <1>1, <3>1 DEF Call
    <3>3. phase = "running" => \A b \in Pcbs : QueueOK(pcbs'[b])
      BY <1>1, <2>1, <2>2, OneQueue DEF Starving
    <3>4. QueuesOK' /\ SendStarves'
      BY <1>1, <3>2, <3>3 DEF QueuesOK, SendStarves
    <3>5. AcceptStarves'
      <4> SUFFICES ASSUME pcbs'[p].state = "Listen"
                   PROVE  AcceptStarves'
        BY <3>2 DEF AcceptStarves
      <4>1. pcbs'[p] = d /\ pcbs[p].state = "Listen"
        BY <1>1, <2>1 DEF TableOK
      <4>2. Count(chan) <= Len(q) /\ Count(chan) \in Nat
        BY <1>1, <4>1, AcceptCounted, CountType DEF Starving
      <4>3. Count(chan') = Count(chan) - 1
        BY <1>1, <1>3, <3>1, CountTail
      <4>4. q # <<>> /\ Len(RestOf(q)) = Len(q) - 1 /\ Len(q) \in Nat
        <5>1. q # <<>> /\ RestOf(q) = Tail(q)
          BY <2>4 DEF FirstOf, RestOf
        <5> HIDE DEF q
        <5> QED
          BY <1>1, <5>1, HeadTailProperties, LenProperties
      <4>5. Count(chan') <= Len(pcbs'[p].backlog)
        BY <2>1, <4>1, <4>2, <4>3, <4>4
      <4> QED
        BY <3>2, <4>5 DEF AcceptStarves, Count, Trues
    <3> QED
      BY <3>4, <3>5 DEF Starving
  <2> QED
    BY <2>3, <2>4
<1> QED
  BY <1>2, <1>3

(* The waits of rfc793_open and connect. *)
LEMMA OpenWakesStarving ==
  ASSUME IInv, Starving, OpenWakes \/ ConnectWakes
  PROVE  Starving'
<1>1. /\ call.pcb \in Pcbs /\ TableOK /\ pcbs[call.pcb] \in Pcb
      /\ UNCHANGED phase
  BY DEF IInv, CallOK, TableOK, OpenWakes, ConnectWakes
<1>2. CASE OpenWakes
  <2>1. call' = Idle \/ (call' = call /\ call.pc = "open")
    BY <1>2 DEF OpenWakes, Return
  <2>2. \/ pcbs' = pcbs
        \/ pcbs' = [pcbs EXCEPT ![call.pcb] = Release(pcbs[call.pcb])]
    BY <1>2 DEF OpenWakes
  <2>3. QueueOK(Release(pcbs[call.pcb]))
    BY <1>1, ReleaseQueue
  <2> QED
    BY <1>1, <2>1, <2>2, <2>3, IdlePc, NoBlockCall, OneBlockCall
<1>3. CASE ConnectWakes
  <2>1. phase # "running"
    BY <1>3 DEF ConnectWakes, IInv, WaitOK, ConnectStarves
  <2>2. call'.pc \in {"idle", "connect"}
    BY <1>3 DEF ConnectWakes, Idle
  <2> QED
    BY <1>1, <2>1, <2>2, OtherCallStep
<1> QED
  BY <1>2, <1>3

(* Where receive() goes with what it has read. *)
LEMMA ReceiveFromPc ==
  ASSUME NEW p, NEW size, NEW woken
  PROVE  ReceiveFrom(p, size, woken).pc \in {"idle", "recvwait", "recvcopy", "spin"}
<1> DEFINE s == pcbs[p].state
           wnd == pcbs[p].rcvWnd
           lim == IF woken \/ (s = "CloseWait" /\ BufLen > wnd)
                  THEN Min({size, BufLen - wnd}) ELSE size
           pc == CASE s \in TextStates ->
                        IF wnd >= BufLen THEN "recvwait" ELSE "recvcopy"
                   [] s = "CloseWait" -> "recvcopy"
                   [] s \in {"Closed", "Listen", "SynSent", "SynReceived"} -> "idle"
                   [] OTHER -> "spin"
<1>1. pc \in {"idle", "recvwait", "recvcopy", "spin"}
  <2> HIDE DEF s, wnd
  <2> QED
    BY DEF TextStates
<1>2. ReceiveFrom(p, size, woken) =
        CASE pc = "idle" -> Idle
          [] pc = "recvcopy" -> [Waiting(pc, p) EXCEPT !.n = lim]
          [] OTHER -> [Waiting(pc, p) EXCEPT !.n = size]
  BY DEF ReceiveFrom
<1> HIDE DEF pc, lim
<1>3. \A n : [Waiting(pc, p) EXCEPT !.n = n].pc = pc
  BY DEF Waiting, Idle
<1> QED
  BY <1>1, <1>2, <1>3, IdlePc

(* receive(): the table changes in a buffer only. *)
LEMMA ReceivesStarving ==
  ASSUME IInv, Starving,
         \/ ReceiveWakes \/ ReceiveCopies
         \/ \E p \in handles : \E size \in Sizes : ReceiveStarts(p, size)
  PROVE  Starving'
<1>1. TableOK /\ UNCHANGED phase
  BY DEF IInv, ReceiveWakes, ReceiveCopies, ReceiveStarts
<1>2. CASE ReceiveWakes \/ \E p \in handles : \E size \in Sizes : ReceiveStarts(p, size)
  <2>1. UNCHANGED pcbs
    BY <1>2 DEF ReceiveWakes, ReceiveStarts
  <2>2. call' = Idle \/ \E p, size, woken : call' = ReceiveFrom(p, size, woken)
    <3>1. CASE ReceiveWakes
      <4>1. call' = IF Head(chan) THEN ReceiveFrom(call.pcb, call.n, TRUE) ELSE Idle
        BY <3>1 DEF ReceiveWakes
      <4> QED
        BY <4>1, Zenon
    <3>2. ASSUME NEW p, NEW size, ReceiveStarts(p, size)
          PROVE  \E q, s, woken : call' = ReceiveFrom(q, s, woken)
      <4>1. call' = ReceiveFrom(p, size, FALSE)
        BY <3>2 DEF ReceiveStarts
      <4> QED
        BY <4>1, Zenon
    <3> QED
      BY <1>2, <3>1, <3>2, Zenon
  <2>3. call'.pc \in {"idle", "recvwait", "recvcopy", "spin"}
    BY <2>2, ReceiveFromPc, IdlePc
  <2> QED
    BY <1>1, <2>1, <2>3, NoBlockCall
<1>3. CASE ReceiveCopies
  <2>1. call.pcb \in Pcbs /\ pcbs[call.pcb] \in Pcb /\ call'.pc = "idle"
    BY <1>3 DEF IInv, CallOK, TableOK, ReceiveCopies, Return, Idle
  <2>2. PICK buf, wnd : pcbs' = [pcbs EXCEPT ![call.pcb].buf = buf,
                                             ![call.pcb].rcvWnd = wnd]
    BY <1>3 DEF ReceiveCopies
  <2> DEFINE d == [pcbs[call.pcb] EXCEPT !.buf = buf, !.rcvWnd = wnd]
  <2>3. /\ pcbs' = [pcbs EXCEPT ![call.pcb] = d]
        /\ d.state = pcbs[call.pcb].state /\ d.mode = pcbs[call.pcb].mode
        /\ d.queue = pcbs[call.pcb].queue /\ d.iss = pcbs[call.pcb].iss
        /\ d.sndNext = pcbs[call.pcb].sndNext
    BY <1>1, <2>1, <2>2 DEF TableOK, Pcb
  <2> HIDE DEF d
  <2>4. phase = "running" => QueueOK(d)
    BY <2>1, <2>3, SameQueue DEF Starving, QueuesOK
  <2> QED
    BY <1>1, <2>1, <2>3, <2>4, OneBlockCall
<1> QED
  BY <1>2, <1>3

(* What send() reads: nothing to send on, a full window, or room in it. *)
LEMMA SendFromStarving ==
  ASSUME TableOK, NEW p \in Pcbs, NEW data \in Seq(Bytes),
         pcbs[p].state \in {"Established", "CloseWait"} => Capacity(p) >= 0
  PROVE  LET c == SendFrom(p, data)
         IN  \/ c = Idle
             \/ /\ c.pcb = p /\ c.data = data /\ c.n = Capacity(p)
                /\ pcbs[p].state \in {"Established", "CloseWait"}
                /\ \/ c.pc = "sendwait" /\ Capacity(p) < 1
                   \/ c.pc = "sending" /\ Capacity(p) >= 1
<1> DEFINE pc == IF Capacity(p) < 1 THEN "sendwait" ELSE "sending"
           c == SendFrom(p, data)
<1>1. CASE pcbs[p].state \in {"Established", "CloseWait"}
  <2>1. \/ pc = "sendwait" /\ Capacity(p) < 1
        \/ pc = "sending" /\ Capacity(p) >= 1
    BY CapacityType
  <2>2. c = [Waiting(pc, p) EXCEPT !.data = data, !.n = Capacity(p)]
    BY <1>1 DEF SendFrom
  <2> HIDE DEF pc, c
  <2>3. c.pc = pc /\ c.pcb = p /\ c.data = data /\ c.n = Capacity(p)
    BY <2>2 DEF Waiting, Idle
  <2> QED
    BY <1>1, <2>1, <2>3 DEF c
<1>2. CASE pcbs[p].state \notin {"Established", "CloseWait"}
  BY <1>2 DEF SendFrom
<1> QED
  BY <1>1, <1>2

(* send() starts: a wait begins with an empty channel and a full window. *)
LEMMA SendStartsStarving ==
  ASSUME IInv, Starving, NEW p \in handles, NEW data \in Payloads,
         SendStarts(p, data)
  PROVE  Starving'
<1>1. TableOK /\ chan = <<>> /\ p \in Pcbs
  BY CallFacts DEF SendStarts
<1>2. data \in Seq(Bytes) /\ data # <<>>
  BY TrafficAssumption
<1>3. /\ call' = SendFrom(p, data) /\ UNCHANGED <<pcbs, chan, phase>>
      /\ pcbs[p].state \in {"Established", "CloseWait"} => Capacity(p) >= 0
  BY DEF SendStarts
<1>4. CASE call' = Idle
  BY <1>3, <1>4, IdlePc, NoBlockCall
<1>5. CASE call' # Idle
  <2>1. /\ call'.pcb = p /\ call'.data = data /\ call'.n = Capacity(p)
        /\ pcbs[p].state \in {"Established", "CloseWait"}
        /\ \/ call'.pc = "sendwait" /\ Capacity(p) < 1
           \/ call'.pc = "sending" /\ Capacity(p) >= 1
    BY <1>1, <1>2, <1>3, <1>5, SendFromStarving
  <2>2. QueuesOK'
    BY <1>2, <1>3, <2>1 DEF Starving, QueuesOK
  <2>3. SendStarves'
    BY <1>1, <1>3, <2>1 DEF SendStarves, Capacity
  <2>4. AcceptStarves'
    BY <2>1 DEF AcceptStarves
  <2> QED
    BY <2>2, <2>3, <2>4 DEF Starving
<1> QED
  BY <1>4, <1>5

(* send() wakes up after the TERM signal only. *)
LEMMA SendWakesStarving ==
  ASSUME IInv, Starving, SendWakes
  PROVE  Starving'
<1>1. /\ TableOK /\ call.pcb \in Pcbs /\ call.data \in Seq(Bytes)
      /\ phase' = phase /\ phase # "running"
  BY DEF SendWakes, IInv, CallOK, Call, Starving, SendStarves
<1>2. /\ call' = IF Head(chan) THEN SendFrom(call.pcb, call.data) ELSE Idle
      /\ (Head(chan) /\ pcbs[call.pcb].state \in {"Established", "CloseWait"}) =>
           Capacity(call.pcb) >= 0
  BY DEF SendWakes
<1>3. call' = Idle \/ call'.pc \in {"sending", "sendwait"}
  <2>1. CASE Head(chan)
    <3>1. call' = SendFrom(call.pcb, call.data)
      BY <1>2, <2>1
    <3>2. pcbs[call.pcb].state \in {"Established", "CloseWait"} =>
            Capacity(call.pcb) >= 0
      BY <1>2, <2>1, Zenon
    <3>3. \/ SendFrom(call.pcb, call.data) = Idle
          \/ SendFrom(call.pcb, call.data).pc \in {"sending", "sendwait"}
      BY <1>1, <3>2, SendFromStarving
    <3> QED
      BY <3>1, <3>3
  <2>2. CASE ~Head(chan)
    BY <1>2, <2>2
  <2> QED
    BY <2>1, <2>2
<1>4. call'.pc # "accept"
  BY <1>3, IdlePc
<1> QED
  BY <1>1, <1>4 DEF Starving, QueuesOK, SendStarves, AcceptStarves

(* send() queues what it sends behind the rest. *)
LEMMA SendSegmentStarving ==
  ASSUME IInv, Starving, SendSegment
  PROVE  Starving'
<1> DEFINE p == call.pcb
           c == pcbs[p]
           len == Min({Mss, Len(call.data), call.n})
           rest == SubSeq(call.data, len + 1, Len(call.data))
           e == WithData(c, call.data, len)
<1>1. /\ TableOK /\ p \in Pcbs /\ call \in Call /\ call.pc = "sending"
      /\ PcbOK(c) /\ phase' = phase /\ c.sndNext + len <= SeqMax
      /\ call.data \in Seq(Bytes) /\ call.n \in Nat
  BY DEF SendSegment, IInv, CallOK, TableOK, Call
<1>2. /\ pcbs' = [pcbs EXCEPT ![p] = e]
      /\ call' = IF rest = <<>> THEN Idle ELSE [call EXCEPT !.data = rest]
  BY DEF SendSegment, Return
<1>3. /\ call' = Idle \/ /\ call'.pc = "sending" /\ call'.n = call.n
                         /\ call'.pcb = p /\ call'.data # <<>>
      /\ call'.pc \in {"idle", "sending"}
  <2> HIDE DEF rest
  <2>1. call' = Idle \/ /\ call'.pc = "sending" /\ call'.n = call.n
                        /\ call'.pcb = p /\ call'.data # <<>>
    BY <1>1, <1>2 DEF Call
  <2> QED
    BY <2>1, IdlePc
<1>4. SendStarves' /\ AcceptStarves'
  BY <1>3 DEF SendStarves, AcceptStarves
<1>5. CASE phase # "running"
  BY <1>1, <1>4, <1>5 DEF Starving, QueuesOK
<1>6. CASE phase = "running"
  <2>1. /\ call.data # <<>> /\ call.n >= 1 /\ QueueOK(c)
        /\ c.state \in {"Established", "CloseWait"}
    BY <1>1, <1>6 DEF Starving, QueuesOK
  <2>2. len \in Nat /\ len >= 1
    <3>1. Len(call.data) \in Nat /\ Len(call.data) >= 1
      BY <1>1, <2>1, LenProperties, EmptySeq
    <3>2. Mss \in Nat /\ Mss >= 1
      BY TrafficAssumption
    <3>3. len \in {Mss, Len(call.data), call.n} /\ len \in Nat
      BY <1>1, <3>1, <3>2, MinOfThree
    <3> HIDE DEF len
    <3> QED
      BY <2>1, <3>1, <3>2, <3>3
  <2>3. QueueOK(e) /\ e.state = c.state
    <3> HIDE DEF len, c
    <3> QED
      BY <1>1, <2>1, <2>2, DataQueue
  <2> HIDE DEF e, rest
  <2>4. \A q \in Pcbs : QueueOK(pcbs'[q])
    BY <1>1, <1>2, <1>6, <2>3, OneQueue DEF Starving
  <2>5. pcbs'[p].state \in {"Established", "CloseWait"}
    BY <1>1, <1>2, <2>1, <2>3 DEF TableOK
  <2>6. QueuesOK'
    BY <1>3, <2>1, <2>4, <2>5, IdlePc DEF QueuesOK
  <2> QED
    BY <1>4, <2>6 DEF Starving
<1> QED
  BY <1>5, <1>6

-----------------------------------------------------------------------------
(* Every step *)

(* Every call the application makes. *)
LEMMA CallsStarving ==
  ASSUME IInv, Starving, Calls
  PROVE  Starving'
<1>1. CASE CallPanics
  BY <1>1, StillStep DEF CallPanics, Panic
<1>2. ASSUME NEW local \in Locals,
             \/ PassiveOpen(local)
             \/ \E remote \in Remotes : ActiveOpen(local, remote)
      PROVE  Starving'
  BY <1>2, OpensStarving
<1>3. ASSUME NEW p \in handles,
             \/ Accept(p)
             \/ \E data \in Payloads : SendStarts(p, data)
             \/ \E size \in Sizes : ReceiveStarts(p, size)
      PROVE  Starving'
  BY <1>3, AcceptStarving, SendStartsStarving, ReceivesStarving
<1>4. ASSUME \/ SocketOpen
             \/ \E p \in handles : \/ Listen(p) \/ Close(p)
                                   \/ \E local \in Locals : Bind(p, local)
                                   \/ \E remote \in Remotes : Connect(p, remote)
      PROVE  Starving'
  BY <1>4, SocketCallsStarving
<1> QED
  BY <1>1, <1>2, <1>3, <1>4 DEF Calls

(* Every step of the specification. *)
LEMMA NextStarving ==
  ASSUME IInv, Starving, [Next]_vars
  PROVE  Starving'
<1>1. CASE UNCHANGED vars
  BY <1>1, StillStep DEF vars
<1>2. CASE CallSteps
  <2>1. CASE TransferPanics
    BY <2>1, StillStep DEF TransferPanics, Panic
  <2> QED
    BY <1>2, <2>1, OpenWakesStarving, AcceptWakesStarving,
       SendSegmentStarving, SendWakesStarving, ReceivesStarving DEF CallSteps
<1>3. CASE Retransmit \/ RetryIntervalPasses \/ TimeoutPasses \/ CloseSockets
  BY <1>3, TimeStarving
<1>4. CASE InputPanics
  BY <1>4, StillStep DEF InputPanics, Panic
<1> QED
  BY <1>1, <1>2, <1>3, <1>4, SegmentsStarving, CallsStarving DEF Next

-----------------------------------------------------------------------------
(* Theorems *)

(* The queues and the sleeping calls, together with TcpProofs' invariant. *)
THEOREM QueueInvariance == Spec => [](IInv /\ Starving)
<1>1. Init => IInv /\ Starving
  BY InitOK, InitStarving
<1>2. (IInv /\ Starving) /\ [Next]_vars => (IInv /\ Starving)'
  BY NextOK, NextStarving
<1> QED
  BY <1>1, <1>2, PTL DEF Spec

(* The retransmission queue of a connection that rfc793_open() set up holds *)
(* its own segments in the order of their sequence numbers, whatever was    *)
(* acknowledged, retransmitted, reset or reopened before: what              *)
(* clean_data_queue() takes for granted.                                    *)
THEOREM QueuesOrdered == Spec => []QueueOrdered
<1>1. Starving => QueueOrdered
  BY DEF Starving, QueuesOK, QueueOK, Ordered, QueueOrdered
<1> QED
  BY <1>1, QueueInvariance, PTL

(* A send() that waits for the window is not woken before the TERM signal,  *)
(* for any window, segments and number of blocks.                           *)
THEOREM SendNeverWoken == Spec => []SendStarves
<1>1. Starving => SendStarves
  BY DEF Starving
<1> QED
  BY <1>1, QueueInvariance, PTL

(* accept() has at least as many connections in the backlog as wakeups in   *)
(* its channel, so it never sees the empty backlog on which it returns.     *)
THEOREM AcceptNeverReturns == Spec => []AcceptStarves
<1>1. Starving => AcceptStarves
  BY DEF Starving
<1> QED
  BY <1>1, QueueInvariance, PTL
=============================================================================
