-------------------------- MODULE TcpImplProofs --------------------------
(***************************************************************************)
(* Module Tcp implements module TcpLifecycle, for any number of blocks and  *)
(* any traffic: every step of the program maps to a step of the diagram.    *)
(* What the mapping needs beyond TcpProofs' invariant is what connect()     *)
(* finds when it wakes up.                                                  *)
(***************************************************************************)
EXTENDS TcpImpl, TcpQueueProofs

(* connect() is a socket's call, and only the TERM signal, which frees the  *)
(* block, sends it a token.                                                 *)
ConnectMode ==
  call.pc = "connect" =>
    /\ pcbs[call.pcb].mode = "Socket"
    /\ chan # <<>> => pcbs[call.pcb].state = "Free"

-----------------------------------------------------------------------------
(* The three kinds of steps of the diagram *)

(* The program's start is the diagram's. *)
LEMMA InitMaps ==
  ASSUME Init
  PROVE  Lifecycle!Init /\ ConnectMode
<1>1. \A p \in Pcbs : pcbs[p].state = "Free" /\ pcbs[p].mode = "NotSet"
  BY DEF Init, NewPcb
<1>2. [p \in Pcbs |-> pcbs[p].state] = [p \in Pcbs |-> "Free"]
  BY <1>1
<1>3. [p \in Pcbs |-> pcbs[p].mode = "Socket"] = [p \in Pcbs |-> FALSE]
  BY <1>1, Zenon
<1>4. (phase = "running") = TRUE
  BY DEF Init
<1>5. call.pc = "idle"
  BY DEF Init, Idle
<1> QED
  BY <1>2, <1>3, <1>4, <1>5 DEF Lifecycle!Init, ConnectMode

(* Blocks are released, or nothing happens, or the process ends. *)
LEMMA Releases ==
  ASSUME \A q \in Pcbs : /\ pcbs'[q].state \in {pcbs[q].state, "Free"}
                         /\ pcbs'[q].mode = pcbs[q].mode,
         phase' = "running" => phase = "running"
  PROVE  Lifecycle!Next
<1> DEFINE S == {q \in Pcbs : pcbs'[q].state = "Free"}
<1>1. [q \in Pcbs |-> pcbs'[q].state] =
        [q \in Pcbs |-> IF q \in S THEN "Free" ELSE [r \in Pcbs |-> pcbs[r].state][q]]
  OBVIOUS
<1>2. \E T \in SUBSET Pcbs :
        [q \in Pcbs |-> pcbs'[q].state] =
          [q \in Pcbs |-> IF q \in T THEN "Free"
                          ELSE [r \in Pcbs |-> pcbs[r].state][q]]
  BY <1>1
<1>3. [q \in Pcbs |-> pcbs'[q].mode = "Socket"] =
        [q \in Pcbs |-> pcbs[q].mode = "Socket"]
  BY Zenon
<1>4. CASE phase = "running" /\ phase' # "running"
  <2>1. (phase' = "running") = FALSE
    BY <1>4
  <2> QED
    BY <1>2, <1>3, <1>4, <2>1 DEF Lifecycle!Next, Lifecycle!End
<1>5. CASE (phase = "running") = (phase' = "running")
  BY <1>2, <1>3, <1>5 DEF Lifecycle!Next, Lifecycle!Drop
<1> QED
  BY <1>4, <1>5

(* One block moves. *)
LEMMA Moves ==
  ASSUME NEW p \in Pcbs, NEW s, pcbs'[p].state = s,
         \A q \in Pcbs \ {p} : pcbs'[q].state = pcbs[q].state
  PROVE  [q \in Pcbs |-> pcbs'[q].state] =
           [[q \in Pcbs |-> pcbs[q].state] EXCEPT ![p] = s]
OBVIOUS

(* The modes stay. *)
LEMMA ModesStay ==
  ASSUME \A q \in Pcbs : pcbs'[q].mode = pcbs[q].mode
  PROVE  [q \in Pcbs |-> pcbs'[q].mode = "Socket"] =
           [q \in Pcbs |-> pcbs[q].mode = "Socket"]
BY Zenon

(* One block gets a mode. *)
LEMMA ModeSet ==
  ASSUME NEW p \in Pcbs,
         \A q \in Pcbs \ {p} : pcbs'[q].mode = pcbs[q].mode
  PROVE  /\ pcbs'[p].mode = "Socket" =>
              [q \in Pcbs |-> pcbs'[q].mode = "Socket"] =
                [[q \in Pcbs |-> pcbs[q].mode = "Socket"] EXCEPT ![p] = TRUE]
         /\ pcbs'[p].mode # "Socket" =>
              [q \in Pcbs |-> pcbs'[q].mode = "Socket"] =
                [[q \in Pcbs |-> pcbs[q].mode = "Socket"] EXCEPT ![p] = FALSE]
<1> DEFINE f == [q \in Pcbs |-> pcbs[q].mode = "Socket"]
           g == [q \in Pcbs |-> pcbs'[q].mode = "Socket"]
<1>1. ASSUME NEW q \in Pcbs, q # p
      PROVE  g[q] = f[q]
  BY <1>1, Zenon
<1>2. g[p] = (pcbs'[p].mode = "Socket")
  OBVIOUS
<1>3. /\ f = [q \in Pcbs |-> f[q]] /\ g = [q \in Pcbs |-> g[q]]
  OBVIOUS
<1> HIDE DEF f, g
<1>4. ASSUME NEW b, g[p] = b
      PROVE  g = [f EXCEPT ![p] = b]
  BY <1>1, <1>3, <1>4
<1>5. pcbs'[p].mode = "Socket" => g[p] = TRUE
  BY <1>2
<1>6. pcbs'[p].mode # "Socket" => g[p] = FALSE
  BY <1>2
<1> QED
  BY <1>4, <1>5, <1>6 DEF f, g

(* A segment moves a block along an edge. *)
LEMMA Arrives ==
  ASSUME NEW p \in Pcbs, phase = "running", UNCHANGED phase,
         \A q \in Pcbs \ {p} : pcbs'[q].state = pcbs[q].state,
         \A q \in Pcbs : pcbs'[q].mode = pcbs[q].mode,
         NEW s \in Lifecycle!Stages, pcbs'[p].state = s,
         <<pcbs[p].state, s>> \in Lifecycle!Arrivals
  PROVE  Lifecycle!Next
<1>1. Lifecycle!Move(p, s)
  BY Moves DEF Lifecycle!Move
<1>2. [q \in Pcbs |-> pcbs[q].state][p] = pcbs[p].state
  OBVIOUS
<1> QED
  BY <1>1, <1>2, ModesStay DEF Lifecycle!Next, Lifecycle!Arrive

(* A free block is taken, or a socket's block taken over. *)
LEMMA Takes ==
  ASSUME NEW p \in Pcbs, UNCHANGED phase,
         \A q \in Pcbs \ {p} : /\ pcbs'[q].state = pcbs[q].state
                               /\ pcbs'[q].mode = pcbs[q].mode,
         pcbs[p].state = "Free",
         \/ pcbs'[p].state \in {"Listen", "SynSent"} /\ pcbs'[p].mode # "Socket"
         \/ pcbs'[p].state = "Closed" /\ pcbs'[p].mode = "Socket"
  PROVE  Lifecycle!Next
<1>1. \A s : pcbs'[p].state = s => Lifecycle!Move(p, s)
  BY Moves DEF Lifecycle!Move
<1>2. [q \in Pcbs |-> pcbs[q].state][p] = "Free"
  OBVIOUS
<1>3. Lifecycle!Take(p)
  <2>1. CASE pcbs'[p].state \in {"Listen", "SynSent"} /\ pcbs'[p].mode # "Socket"
    <3>1. \E s \in {"Listen", "SynSent"} : Lifecycle!Move(p, s)
      BY <1>1, <2>1
    <3> QED
      BY <1>2, <2>1, <3>1, ModeSet DEF Lifecycle!Take
  <2>2. CASE pcbs'[p].state = "Closed" /\ pcbs'[p].mode = "Socket"
    <3>1. Lifecycle!Move(p, "Closed")
      BY <1>1, <2>2
    <3> QED
      BY <1>2, <2>2, <3>1, ModeSet DEF Lifecycle!Take
  <2> QED
    BY <2>1, <2>2
<1> QED
  BY <1>3 DEF Lifecycle!Next

(* A socket's block is taken over, or closed after it was released. *)
LEMMA Reuses ==
  ASSUME NEW p \in Pcbs, UNCHANGED phase, pcbs[p].mode = "Socket",
         \A q \in Pcbs \ {p} : pcbs'[q].state = pcbs[q].state,
         \A q \in Pcbs : pcbs'[q].mode = pcbs[q].mode,
         \/ pcbs'[p].state \in {"Listen", "SynSent"}
         \/ pcbs[p].state = "Free" /\ pcbs'[p].state = "Closed"
  PROVE  Lifecycle!Next
<1>1. \A s : pcbs'[p].state = s => Lifecycle!Move(p, s)
  BY Moves DEF Lifecycle!Move
<1>2. /\ [q \in Pcbs |-> pcbs[q].state][p] = pcbs[p].state
      /\ [q \in Pcbs |-> pcbs[q].mode = "Socket"][p]
  OBVIOUS
<1>3. Lifecycle!Reuse(p)
  <2>1. CASE pcbs'[p].state \in {"Listen", "SynSent"}
    <3>1. \E s \in {"Listen", "SynSent"} : Lifecycle!Move(p, s)
      BY <1>1, <2>1
    <3> QED
      BY <1>2, <3>1, ModesStay DEF Lifecycle!Reuse
  <2>2. CASE pcbs[p].state = "Free" /\ pcbs'[p].state = "Closed"
    <3>1. Lifecycle!Move(p, "Closed")
      BY <1>1, <2>2
    <3> QED
      BY <1>2, <2>2, <3>1, ModesStay DEF Lifecycle!Reuse
  <2> QED
    BY <2>1, <2>2
<1> QED
  BY <1>3 DEF Lifecycle!Next

(* A listening socket stays and a free block takes the connection. *)
LEMMA Spawns ==
  ASSUME NEW p \in Pcbs, NEW c \in Pcbs, c # p,
         phase = "running", UNCHANGED phase,
         \A q \in Pcbs \ {c} : /\ pcbs'[q].state = pcbs[q].state
                               /\ pcbs'[q].mode = pcbs[q].mode,
         pcbs[p].state = "Listen", pcbs[p].mode = "Socket",
         pcbs[c].state = "Free",
         pcbs'[c].state = "SynReceived", pcbs'[c].mode = "Socket"
  PROVE  Lifecycle!Next
<1>1. Lifecycle!Move(c, "SynReceived")
  BY Moves DEF Lifecycle!Move
<1>2. /\ [q \in Pcbs |-> pcbs[q].state][c] = "Free"
      /\ [q \in Pcbs |-> pcbs[q].state][p] = "Listen"
      /\ [q \in Pcbs |-> pcbs[q].mode = "Socket"][p]
      /\ p \in Pcbs \ {c}
  OBVIOUS
<1>3. Lifecycle!Spawn(c)
  BY <1>1, <1>2, ModeSet DEF Lifecycle!Spawn
<1> QED
  BY <1>3 DEF Lifecycle!Next

-----------------------------------------------------------------------------
(* Steps of the program *)

(* A step that leaves the table alone. *)
LEMMA TableStays ==
  ASSUME UNCHANGED pcbs, phase' \in {phase, "panic"}
  PROVE  Lifecycle!Next
BY Releases

(* A step that changes one block, but neither its state nor its mode; or    *)
(* that releases it.                                                        *)
LEMMA BlockStays ==
  ASSUME TableOK, NEW p \in Pcbs, NEW d, pcbs' = [pcbs EXCEPT ![p] = d],
         d.state \in {pcbs[p].state, "Free"}, d.mode = pcbs[p].mode,
         UNCHANGED phase
  PROVE  Lifecycle!Next
<1>1. \A q \in Pcbs : /\ pcbs'[q].state \in {pcbs[q].state, "Free"}
                      /\ pcbs'[q].mode = pcbs[q].mode
  BY DEF TableOK
<1> QED
  BY <1>1, Releases

(* What a release leaves. *)
LEMMA ReleaseFields ==
  ASSUME NEW c \in Pcb
  PROVE  Release(c).state = "Free" /\ Release(c).mode = c.mode
BY DEF Release, Pcb

(* A SYN out, or in and out. *)
LEMMA SynFields ==
  ASSUME NEW c \in Pcb, NEW iss
  PROVE  /\ \A local, remote :
              /\ ActiveSyn(c, local, remote, iss).state = "SynSent"
              /\ ActiveSyn(c, local, remote, iss).mode = c.mode
         /\ \A seg : /\ PassiveSyn(c, seg, iss).state = "SynReceived"
                     /\ PassiveSyn(c, seg, iss).mode = c.mode
BY DEF ActiveSyn, PassiveSyn, WithSyn, AddDataQueue, Pcb

(* segment_arrives in LISTEN. *)
LEMMA ListenSynMaps ==
  ASSUME IInv, NEW seg \in Segments, NEW p \in Pcbs, ListenSyn(seg, p)
  PROVE  Lifecycle!Next
<1> DEFINE b(c) == IF pcbs[p].mode = "Socket"
                   THEN [pcbs[c] EXCEPT !.mode = "Socket", !.parent = p]
                   ELSE pcbs[c]
<1>1. /\ TableOK /\ phase = "running" /\ UNCHANGED phase
      /\ pcbs[p].state = "Listen"
  BY DEF IInv, ListenSyn, ArrivesAt, SignalsTaken, ListenTakesSyn
<1>2. PICK iss \in InitialSeqs, c \in Pcbs :
        /\ IF pcbs[p].mode = "Socket" THEN NewEntry(c) ELSE c = p
        /\ pcbs' = [pcbs EXCEPT ![c] = PassiveSyn(b(c), seg, iss)]
  BY DEF ListenSyn
<1>3. b(c) \in Pcb /\ (pcbs[p].mode = "Socket" => b(c).mode = "Socket")
  BY <1>1 DEF TableOK, Pcb
<1> DEFINE d == PassiveSyn(b(c), seg, iss)
<1>4. d.state = "SynReceived" /\ d.mode = b(c).mode
  <2> HIDE DEF b
  <2> QED
    BY <1>3, SynFields
<1>5. pcbs' = [pcbs EXCEPT ![c] = d]
  BY <1>2
<1> HIDE DEF d
<1>6. /\ \A q \in Pcbs \ {c} : pcbs'[q] = pcbs[q]
      /\ pcbs'[c] = d
  BY <1>1, <1>5 DEF TableOK
<1>7. CASE pcbs[p].mode = "Socket"
  <2>1. pcbs[c].state = "Free"
    BY <1>2, <1>7 DEF NewEntry
  <2> HIDE DEF b
  <2> QED
    BY <1>1, <1>3, <1>4, <1>6, <1>7, <2>1, Spawns
<1>8. CASE pcbs[p].mode # "Socket"
  <2>1. c = p /\ d.mode = pcbs[p].mode
    BY <1>2, <1>4, <1>8
  <2>2. /\ \A q \in Pcbs \ {p} : pcbs'[q].state = pcbs[q].state
        /\ \A q \in Pcbs : pcbs'[q].mode = pcbs[q].mode
        /\ pcbs'[p].state = "SynReceived"
    BY <1>4, <1>6, <2>1
  <2>3. /\ "SynReceived" \in Lifecycle!Stages
        /\ <<pcbs[p].state, "SynReceived">> \in Lifecycle!Arrivals
    BY <1>1 DEF Lifecycle!Stages, Lifecycle!Arrivals
  <2> QED
    BY <1>1, <2>2, <2>3, Arrives
<1> QED
  BY <1>7, <1>8

(* The peer's SYN in SYN-SENT keeps the mode. *)
LEMMA SynSentFields ==
  ASSUME NEW c \in Pcb, NEW seg \in Segment
  PROVE  LET d == SynSentSyn(c, seg)
         IN  d.mode = c.mode /\ d.state \in {"Established", "SynReceived"}
<1> DEFINE q == [c EXCEPT !.rcvNext = seg.seq + 1]
           u == [q EXCEPT !.sndUna = seg.ack]
           a == IF GoodSynSentAck(c, seg) THEN CleanDataQueue(u) ELSE q
           d == SynSentSyn(c, seg)
<1>1. a.mode = c.mode /\ DOMAIN a = DOMAIN c /\ a = [f \in DOMAIN c |-> a[f]]
  BY DEF CleanDataQueue, Pcb
<1>2. d = IF a.sndUna > a.iss
          THEN [a EXCEPT !.state = "Established", !.sndWnd = seg.window,
                         !.wl1 = seg.seq, !.wl2 = seg.ack]
          ELSE [AddDataQueue(a, c.iss, {"SYN", "ACK"}, <<>>)
                  EXCEPT !.state = "SynReceived"]
  BY DEF SynSentSyn
<1>3. DOMAIN c = {"state", "mode", "local", "remote", "iss", "sndNext", "sndUna",
                  "sndWnd", "wl1", "wl2", "rcvNext", "rcvWnd", "buf", "queue",
                  "parent", "backlog"}
  BY DEF Pcb
<1> HIDE DEF a, d
<1>4. d.mode = c.mode /\ d.state \in {"Established", "SynReceived"}
  BY <1>1, <1>2, <1>3 DEF AddDataQueue
<1> QED
  BY <1>4 DEF d

(* segment_arrives in SYN-SENT. *)
LEMMA SynSentMaps ==
  ASSUME IInv, NEW seg \in Segments, NEW p \in Pcbs, SynSentArrives(seg, p)
  PROVE  Lifecycle!Next
<1> DEFINE d == SynSentSyn(pcbs[p], seg)
<1>1. /\ TableOK /\ phase = "running" /\ UNCHANGED phase
      /\ pcbs[p].state = "SynSent" /\ pcbs' = [pcbs EXCEPT ![p] = d]
      /\ pcbs[p] \in Pcb /\ seg \in Segment
  BY SegmentType DEF IInv, TableOK, SynSentArrives, ArrivesAt, SignalsTaken,
     SynSentTakesSyn
<1>2. d.mode = pcbs[p].mode /\ d.state \in {"Established", "SynReceived"}
  BY <1>1, SynSentFields
<1> HIDE DEF d
<1>3. /\ \A q \in Pcbs \ {p} : pcbs'[q].state = pcbs[q].state
      /\ \A q \in Pcbs : pcbs'[q].mode = pcbs[q].mode
      /\ pcbs'[p].state \in {"Established", "SynReceived"}
  BY <1>1, <1>2 DEF TableOK
<1>4. /\ {"Established", "SynReceived"} \subseteq Lifecycle!Stages
      /\ \A s \in {"Established", "SynReceived"} :
           <<pcbs[p].state, s>> \in Lifecycle!Arrivals
  BY <1>1 DEF Lifecycle!Stages, Lifecycle!Arrivals
<1> QED
  BY <1>1, <1>3, <1>4, Arrives

(* The ACK, text and FIN stages. *)
LEMMA ProcessMaps ==
  ASSUME IInv, NEW seg \in Segments, NEW p \in Pcbs, Process(seg, p)
  PROVE  Lifecycle!Next
<1> DEFINE b == pcbs[p]
           d == AfterFin(b, seg)
           announced == b.state = "SynReceived" /\ b.parent # NoPcb
           s(q) == IF q = p THEN d ELSE pcbs[q]
<1>1. /\ TableOK /\ phase = "running" /\ UNCHANGED phase
      /\ b \in Pcb /\ PcbOK(b) /\ seg \in Segment /\ Processed(b, seg)
      /\ ~ProcessingOverflows(b, seg)
      /\ pcbs' = [q \in Pcbs |-> IF announced /\ q = b.parent
                                 THEN [s(q) EXCEPT !.backlog = Append(@, p)]
                                 ELSE s(q)]
  BY SegmentType DEF IInv, TableOK, PcbOK, Process, ArrivesAt, SignalsTaken,
     Overflows
<1>2. /\ d.mode = b.mode
      /\ b.state \in {"Free", "CloseWait", "SynReceived", "Established"}
      /\ b.state \in {"Free", "CloseWait"} => d.state = b.state
      /\ b.state \in {"SynReceived", "Established"} =>
           d.state \in {"Established", "CloseWait"}
  BY <1>1, AfterFinKept DEF Kept
<1>3. d \in Pcb
  BY <1>1, AfterFinOK DEF PcbOK
<1> HIDE DEF d, announced
<1>4. \A q \in Pcbs : /\ pcbs'[q].state = s(q).state
                      /\ pcbs'[q].mode = s(q).mode
  <2>1. \A q \in Pcbs : s(q) \in Pcb
    BY <1>1, <1>3 DEF TableOK
  <2> HIDE DEF s
  <2>2. \A x \in Pcb : /\ [x EXCEPT !.backlog = Append(@, p)].state = x.state
                       /\ [x EXCEPT !.backlog = Append(@, p)].mode = x.mode
    BY DEF Pcb
  <2> QED
    BY <1>1, <2>1, <2>2
<1>5. /\ \A q \in Pcbs \ {p} : pcbs'[q].state = pcbs[q].state
      /\ \A q \in Pcbs : pcbs'[q].mode = pcbs[q].mode
      /\ pcbs'[p].state = d.state
  BY <1>2, <1>4
<1>6. CASE d.state = b.state
  BY <1>1, <1>5, <1>6, Releases
<1>7. CASE d.state # b.state
  <2>1. d.state \in Lifecycle!Stages /\ <<b.state, d.state>> \in Lifecycle!Arrivals
    BY <1>2, <1>7 DEF Lifecycle!Stages, Lifecycle!Arrivals
  <2> QED
    BY <1>1, <1>5, <2>1, Arrives
<1> QED
  BY <1>6, <1>7

(* Every segment. *)
LEMMA SegmentsMap ==
  ASSUME IInv, SegmentArrives
  PROVE  Lifecycle!Next
<1>1. PICK seg \in Segments :
        \/ Refuse(seg)
        \/ ArrivalPanics(seg)
        \/ \E p \in Pcbs :
             \/ RefuseAck(seg, p) \/ ListenSyn(seg, p)
             \/ SynSentReset(seg, p) \/ SynSentArrives(seg, p)
             \/ Unacceptable(seg, p) \/ Reset(seg, p)
             \/ AckAhead(seg, p) \/ Process(seg, p)
  BY DEF SegmentArrives
<1>2. CASE Refuse(seg) \/ ArrivalPanics(seg)
  BY <1>2, TableStays DEF Refuse, ArrivalPanics, Panic
<1>3. ASSUME NEW p \in Pcbs,
             RefuseAck(seg, p) \/ Unacceptable(seg, p) \/ AckAhead(seg, p)
      PROVE  Lifecycle!Next
  BY <1>3, TableStays DEF RefuseAck, Unacceptable, AckAhead
<1>4. ASSUME NEW p \in Pcbs, SynSentReset(seg, p) \/ Reset(seg, p)
      PROVE  Lifecycle!Next
  <2>1. /\ TableOK /\ UNCHANGED phase /\ pcbs[p] \in Pcb
        /\ pcbs' = [pcbs EXCEPT ![p] = Release(pcbs[p])]
    BY <1>4 DEF IInv, TableOK, SynSentReset, Reset
  <2> QED
    BY <2>1, ReleaseFields, BlockStays
<1> QED
  BY <1>1, <1>2, <1>3, <1>4, ListenSynMaps, SynSentMaps, ProcessMaps

(* retransmit(), time and the TERM signal release blocks or change queues. *)
LEMMA TimeMaps ==
  ASSUME IInv,
         Retransmit \/ RetryIntervalPasses \/ TimeoutPasses \/ CloseSockets
  PROVE  Lifecycle!Next
<1>1. \A p \in Pcbs : pcbs[p] \in Pcb
  BY DEF IInv, TableOK
<1>2. phase' = "running" => phase = "running"
  BY DEF Retransmit, RetryIntervalPasses, TimeoutPasses, Age, CloseSockets
<1>3. CASE CloseSockets
  <2>1. \A p \in Pcbs : pcbs'[p] = Release(pcbs[p])
    BY <1>3 DEF CloseSockets
  <2> QED
    BY <1>1, <1>2, <2>1, ReleaseFields, Releases
<1>4. CASE Retransmit
  <2>1. \A p \in Pcbs : pcbs'[p] = AfterRetransmit(pcbs[p])
    BY <1>4 DEF Retransmit
  <2>2. ASSUME NEW c \in Pcb
        PROVE  /\ AfterRetransmit(c).state \in {c.state, "Free"}
               /\ AfterRetransmit(c).mode = c.mode
    <3>1. /\ [c EXCEPT !.queue = <<>>].state = c.state
          /\ [c EXCEPT !.queue = <<>>].mode = c.mode
      BY DEF Pcb
    <3>2. AfterRetransmit(c) \in {c, Release(c), [c EXCEPT !.queue = <<>>]}
      BY DEF AfterRetransmit
    <3> QED
      BY <3>1, <3>2, ReleaseFields
  <2> QED
    BY <1>1, <1>2, <2>1, <2>2, Releases
<1>5. ASSUME NEW ages, Age(ages)
      PROVE  Lifecycle!Next
  <2>1. \A p \in Pcbs : pcbs'[p] = Aged(pcbs[p], ages)
    BY <1>5 DEF Age
  <2>2. \A c \in Pcb : Aged(c, ages).state = c.state /\ Aged(c, ages).mode = c.mode
    BY DEF Aged, Pcb
  <2> QED
    BY <1>1, <1>2, <2>1, <2>2, Releases
<1> QED
  BY <1>3, <1>4, <1>5 DEF RetryIntervalPasses, TimeoutPasses

(* rfc793_open and open take a free block. *)
LEMMA OpensMap ==
  ASSUME IInv,
         \/ SocketOpen
         \/ \E local \in Locals :
              PassiveOpen(local) \/ \E remote \in Remotes : ActiveOpen(local, remote)
  PROVE  Lifecycle!Next
<1>1. TableOK /\ UNCHANGED phase
  BY DEF IInv, SocketOpen, PassiveOpen, ActiveOpen
<1>2. ASSUME NEW p \in Pcbs, NEW d, pcbs' = [pcbs EXCEPT ![p] = d], NewEntry(p),
             \/ d.state \in {"Listen", "SynSent"} /\ d.mode = "Rfc793"
             \/ d.state = "Closed" /\ d.mode = "Socket"
      PROVE  Lifecycle!Next
  <2>1. /\ pcbs[p].state = "Free" /\ pcbs'[p] = d
        /\ \A q \in Pcbs \ {p} : pcbs'[q] = pcbs[q]
    BY <1>1, <1>2 DEF NewEntry, TableOK
  <2> QED
    BY <1>1, <1>2, <2>1, Takes
<1>3. CASE SocketOpen
  <2>1. PICK p \in Pcbs :
          /\ NewEntry(p)
          /\ pcbs' = [pcbs EXCEPT ![p].state = "Closed", ![p].mode = "Socket"]
    BY <1>3 DEF SocketOpen
  <2> DEFINE d == [pcbs[p] EXCEPT !.state = "Closed", !.mode = "Socket"]
  <2>2. /\ pcbs' = [pcbs EXCEPT ![p] = d]
        /\ d.state = "Closed" /\ d.mode = "Socket"
    BY <1>1, <2>1 DEF TableOK, Pcb
  <2> HIDE DEF d
  <2> QED
    BY <1>2, <2>1, <2>2
<1>4. ASSUME NEW local, PassiveOpen(local)
      PROVE  Lifecycle!Next
  <2>1. PICK p \in Pcbs :
          /\ NewEntry(p)
          /\ pcbs' = [pcbs EXCEPT ![p].mode = "Rfc793", ![p].local = local,
                                  ![p].state = "Listen"]
    BY <1>4 DEF PassiveOpen
  <2> DEFINE d == [pcbs[p] EXCEPT !.mode = "Rfc793", !.local = local,
                                  !.state = "Listen"]
  <2>2. /\ pcbs' = [pcbs EXCEPT ![p] = d]
        /\ d.state = "Listen" /\ d.mode = "Rfc793"
    BY <1>1, <2>1 DEF TableOK, Pcb
  <2> HIDE DEF d
  <2> QED
    BY <1>2, <2>1, <2>2
<1>5. ASSUME NEW local, NEW remote, ActiveOpen(local, remote)
      PROVE  Lifecycle!Next
  <2> DEFINE c(p) == [pcbs[p] EXCEPT !.mode = "Rfc793"]
  <2>1. PICK p \in Pcbs, iss \in InitialSeqs :
          /\ NewEntry(p)
          /\ pcbs' = [pcbs EXCEPT ![p] = ActiveSyn(c(p), local, remote, iss)]
    BY <1>5 DEF ActiveOpen
  <2>2. c(p) \in Pcb /\ c(p).mode = "Rfc793"
    BY <1>1 DEF TableOK, Pcb
  <2> HIDE DEF c
  <2> DEFINE d == ActiveSyn(c(p), local, remote, iss)
  <2>3. d.state = "SynSent" /\ d.mode = "Rfc793"
    BY <2>2, SynFields
  <2>4. pcbs' = [pcbs EXCEPT ![p] = d]
    BY <2>1
  <2> HIDE DEF d
  <2> QED
    BY <1>2, <2>1, <2>3, <2>4
<1> QED
  BY <1>3, <1>4, <1>5

(* listen and connect, on a socket in whatever state. *)
LEMMA ReusesMap ==
  ASSUME IInv, NEW p \in handles,
         Listen(p) \/ \E remote \in Remotes : Connect(p, remote)
  PROVE  Lifecycle!Next
<1>1. /\ TableOK /\ UNCHANGED phase /\ p \in Pcbs /\ pcbs[p] \in Pcb
      /\ pcbs[p].mode = "Socket"
  BY DEF IInv, TableOK, CallOK, Listen, Connect
<1>2. ASSUME NEW d, pcbs' = [pcbs EXCEPT ![p] = d],
             d.state \in {"Listen", "SynSent"}, d.mode = "Socket"
      PROVE  Lifecycle!Next
  <2>1. pcbs'[p] = d /\ \A q \in Pcbs \ {p} : pcbs'[q] = pcbs[q]
    BY <1>1, <1>2 DEF TableOK
  <2>2. /\ \A q \in Pcbs \ {p} : pcbs'[q].state = pcbs[q].state
        /\ \A q \in Pcbs : pcbs'[q].mode = pcbs[q].mode
        /\ pcbs'[p].state \in {"Listen", "SynSent"}
    BY <1>1, <1>2, <2>1
  <2> QED
    BY <1>1, <2>2, Reuses
<1>3. CASE Listen(p)
  <2> DEFINE d == [pcbs[p] EXCEPT !.state = "Listen"]
  <2>1. /\ pcbs' = [pcbs EXCEPT ![p] = d] /\ d.state = "Listen"
        /\ d.mode = "Socket"
    BY <1>1, <1>3 DEF Listen, TableOK, Pcb
  <2> HIDE DEF d
  <2> QED
    BY <1>2, <2>1
<1>4. ASSUME NEW remote, Connect(p, remote)
      PROVE  Lifecycle!Next
  <2>1. PICK local, iss :
          pcbs' = [pcbs EXCEPT ![p] = ActiveSyn(pcbs[p], local, remote, iss)]
    BY <1>4 DEF Connect
  <2> DEFINE d == ActiveSyn(pcbs[p], local, remote, iss)
  <2>2. d.state = "SynSent" /\ d.mode = "Socket"
    BY <1>1, SynFields
  <2>3. pcbs' = [pcbs EXCEPT ![p] = d]
    BY <2>1
  <2> HIDE DEF d
  <2> QED
    BY <1>2, <2>2, <2>3
<1> QED
  BY <1>3, <1>4

(* The calls that change a field of the block, or nothing. *)
LEMMA FieldsMap ==
  ASSUME IInv,
         \/ \E p \in handles :
              \/ \E local \in Locals : Bind(p, local)
              \/ Accept(p) \/ Close(p)
              \/ \E data \in Payloads : SendStarts(p, data)
              \/ \E size \in Sizes : ReceiveStarts(p, size)
         \/ AcceptWakes \/ SendSegment \/ SendWakes
         \/ ReceiveWakes \/ ReceiveCopies
  PROVE  Lifecycle!Next
<1>1. /\ TableOK /\ handles \subseteq Pcbs /\ UNCHANGED phase
      /\ \A p \in Pcbs : pcbs[p] \in Pcb
  BY DEF IInv, TableOK, CallOK, Bind, Accept, Close, SendStarts,
     ReceiveStarts, AcceptWakes, SendSegment, SendWakes, ReceiveWakes,
     ReceiveCopies
<1>2. ASSUME NEW p \in Pcbs, NEW d, pcbs' = [pcbs EXCEPT ![p] = d],
             d.state \in {pcbs[p].state, "Free"}, d.mode = pcbs[p].mode
      PROVE  Lifecycle!Next
  BY <1>1, <1>2, BlockStays
<1>3. CASE UNCHANGED pcbs
  BY <1>1, <1>3, TableStays
<1>4. ASSUME NEW p \in handles,
             \/ \E local \in Locals : Bind(p, local)
             \/ Accept(p)
      PROVE  Lifecycle!Next
  <2>1. \/ \E x : pcbs' = [pcbs EXCEPT ![p].local = x]
        \/ \E x : pcbs' = [pcbs EXCEPT ![p].backlog = x]
    BY <1>4 DEF Bind, Accept
  <2>2. \E d : /\ pcbs' = [pcbs EXCEPT ![p] = d]
               /\ d.state = pcbs[p].state /\ d.mode = pcbs[p].mode
    BY <1>1, <2>1 DEF TableOK, Pcb
  <2> QED
    BY <1>1, <1>2, <2>2
<1>5. ASSUME NEW p \in handles, Close(p)
      PROVE  Lifecycle!Next
  <2>1. pcbs' = [pcbs EXCEPT ![p] = Release(pcbs[p])] /\ p \in Pcbs
    BY <1>1, <1>5 DEF Close
  <2> QED
    BY <1>1, <1>2, <2>1, ReleaseFields
<1>6. CASE AcceptWakes
  <2>1. \/ UNCHANGED pcbs
        \/ \E x : pcbs' = [pcbs EXCEPT ![call.pcb].backlog = x]
    BY <1>6 DEF AcceptWakes
  <2>2. call.pcb \in Pcbs
    BY <1>6 DEF IInv, CallOK, AcceptWakes
  <2>3. ASSUME NEW x, pcbs' = [pcbs EXCEPT ![call.pcb].backlog = x]
        PROVE  \E d : /\ pcbs' = [pcbs EXCEPT ![call.pcb] = d]
                      /\ d.state = pcbs[call.pcb].state
                      /\ d.mode = pcbs[call.pcb].mode
    <3> DEFINE d == [pcbs[call.pcb] EXCEPT !.backlog = x]
    <3>1. /\ pcbs' = [pcbs EXCEPT ![call.pcb] = d]
          /\ d.state = pcbs[call.pcb].state /\ d.mode = pcbs[call.pcb].mode
      BY <1>1, <2>2, <2>3 DEF TableOK, Pcb
    <3> HIDE DEF d
    <3> QED
      BY <3>1
  <2> QED
    BY <1>2, <1>3, <2>1, <2>2, <2>3
<1>7. CASE SendSegment
  <2> DEFINE c == pcbs[call.pcb]
             len == Min({Mss, Len(call.data), call.n})
             d == WithData(c, call.data, len)
  <2>1. call.pcb \in Pcbs /\ pcbs' = [pcbs EXCEPT ![call.pcb] = d]
    BY <1>7 DEF IInv, CallOK, SendSegment
  <2>2. c \in Pcb
    BY <1>1, <2>1
  <2> HIDE DEF c, len
  <2>3. d.state = c.state /\ d.mode = c.mode
    BY <2>2 DEF WithData, AddDataQueue, Pcb
  <2> HIDE DEF d
  <2> QED
    BY <1>2, <2>1, <2>3 DEF c
<1>8. CASE ReceiveCopies
  <2>1. PICK buf, wnd : pcbs' = [pcbs EXCEPT ![call.pcb].buf = buf,
                                             ![call.pcb].rcvWnd = wnd]
    BY <1>8 DEF ReceiveCopies
  <2>2. call.pcb \in Pcbs
    BY <1>8 DEF IInv, CallOK, ReceiveCopies
  <2>3. \E d : /\ pcbs' = [pcbs EXCEPT ![call.pcb] = d]
               /\ d.state = pcbs[call.pcb].state
               /\ d.mode = pcbs[call.pcb].mode
    <3> DEFINE d == [pcbs[call.pcb] EXCEPT !.buf = buf, !.rcvWnd = wnd]
    <3>1. /\ pcbs' = [pcbs EXCEPT ![call.pcb] = d]
          /\ d.state = pcbs[call.pcb].state /\ d.mode = pcbs[call.pcb].mode
      BY <1>1, <2>1, <2>2 DEF TableOK, Pcb
    <3> HIDE DEF d
    <3> QED
      BY <3>1
  <2> QED
    BY <1>2, <2>2, <2>3
<1>9. ASSUME \/ \E p \in handles :
                   \/ \E data \in Payloads : SendStarts(p, data)
                   \/ \E size \in Sizes : ReceiveStarts(p, size)
             \/ SendWakes \/ ReceiveWakes
      PROVE  UNCHANGED pcbs
  BY <1>9 DEF SendStarts, ReceiveStarts, SendWakes, ReceiveWakes
<1> QED
  BY <1>3, <1>4, <1>5, <1>6, <1>7, <1>8, <1>9

(* rfc793_open and connect wake up. *)
LEMMA WakesMap ==
  ASSUME IInv, ConnectMode, OpenWakes \/ ConnectWakes
  PROVE  Lifecycle!Next
<1> DEFINE p == call.pcb
<1>1. /\ TableOK /\ UNCHANGED phase /\ p \in Pcbs /\ pcbs[p] \in Pcb
  BY DEF IInv, TableOK, CallOK, OpenWakes, ConnectWakes
<1>2. CASE OpenWakes
  <2>1. UNCHANGED pcbs \/ pcbs' = [pcbs EXCEPT ![p] = Release(pcbs[p])]
    BY <1>2 DEF OpenWakes
  <2> QED
    BY <1>1, <2>1, TableStays, ReleaseFields, BlockStays
<1>3. CASE ConnectWakes
  <2>1. pcbs[p].mode = "Socket" /\ pcbs[p].state = "Free"
    BY <1>3 DEF ConnectMode, ConnectWakes
  <2>2. pcbs' = [pcbs EXCEPT ![p].state = "Closed"]
    <3>1. pcbs' = IF Head(chan) /\ pcbs[p].state \in {"Established", "SynReceived"}
                  THEN pcbs ELSE [pcbs EXCEPT ![p].state = "Closed"]
      BY <1>3 DEF ConnectWakes
    <3>2. pcbs[p].state \notin {"Established", "SynReceived"}
      BY <2>1
    <3> QED
      BY <3>1, <3>2, Zenon
  <2>3. /\ pcbs'[p].state = "Closed" /\ pcbs'[p].mode = pcbs[p].mode
        /\ \A q \in Pcbs \ {p} : pcbs'[q] = pcbs[q]
    BY <1>1, <2>2 DEF TableOK, Pcb
  <2>4. /\ \A q \in Pcbs \ {p} : pcbs'[q].state = pcbs[q].state
        /\ \A q \in Pcbs : pcbs'[q].mode = pcbs[q].mode
    BY <2>3
  <2> QED
    BY <1>1, <2>1, <2>3, <2>4, Reuses
<1> QED
  BY <1>2, <1>3

(* Every step of the program is a step of the diagram. *)
LEMMA StepMaps ==
  ASSUME IInv, ConnectMode, [Next]_vars
  PROVE  Lifecycle!Next
<1>1. CASE UNCHANGED vars
  BY <1>1, TableStays DEF vars
<1>2. CASE Calls
  <2>1. CASE CallPanics
    BY <2>1, TableStays DEF CallPanics, Panic
  <2>2. ASSUME \/ SocketOpen
               \/ \E local \in Locals :
                    \/ PassiveOpen(local)
                    \/ \E remote \in Remotes : ActiveOpen(local, remote)
        PROVE  Lifecycle!Next
    BY <2>2, OpensMap
  <2>3. ASSUME NEW p \in handles,
               Listen(p) \/ \E remote \in Remotes : Connect(p, remote)
        PROVE  Lifecycle!Next
    BY <2>3, ReusesMap
  <2>4. ASSUME \E p \in handles :
                 \/ \E local \in Locals : Bind(p, local)
                 \/ Accept(p) \/ Close(p)
                 \/ \E data \in Payloads : SendStarts(p, data)
                 \/ \E size \in Sizes : ReceiveStarts(p, size)
        PROVE  Lifecycle!Next
    BY <2>4, FieldsMap
  <2> QED
    BY <1>2, <2>1, <2>2, <2>3, <2>4 DEF Calls
<1>3. CASE CallSteps
  <2>1. CASE TransferPanics
    BY <2>1, TableStays DEF TransferPanics, Panic
  <2> QED
    BY <1>3, <2>1, FieldsMap, WakesMap DEF CallSteps
<1>4. CASE Retransmit \/ RetryIntervalPasses \/ TimeoutPasses \/ CloseSockets
  BY <1>4, TimeMaps
<1>5. CASE InputPanics
  BY <1>5, TableStays DEF InputPanics, Panic
<1> QED
  BY <1>1, <1>2, <1>3, <1>4, <1>5, SegmentsMap DEF Next

-----------------------------------------------------------------------------
(* connect() *)

(* Only connect() itself begins a connect. *)
LEMMA NoOtherConnect ==
  ASSUME IInv, [Next]_vars, call.pc # "connect",
         ~\E p \in handles : \E remote \in Remotes : Connect(p, remote)
  PROVE  call'.pc # "connect"
<1>1. CASE UNCHANGED call
  BY <1>1
<1>2. CASE call' = Idle
  BY <1>2, IdlePc
<1>3. ASSUME NEW pc, NEW p, call' = Waiting(pc, p), pc # "connect"
      PROVE  call'.pc # "connect"
  BY <1>3 DEF Waiting, Idle
<1>4. ASSUME NEW p, NEW data, call' = SendFrom(p, data)
      PROVE  call'.pc # "connect"
  <2> DEFINE pc == IF Capacity(p) < 1 THEN "sendwait" ELSE "sending"
  <2>1. pc # "connect"
    OBVIOUS
  <2>2. \/ call' = Idle
        \/ call' = [Waiting(pc, p) EXCEPT !.data = data, !.n = Capacity(p)]
    BY <1>4 DEF SendFrom
  <2> HIDE DEF pc
  <2>3. [Waiting(pc, p) EXCEPT !.data = data, !.n = Capacity(p)].pc = pc
    BY DEF Waiting, Idle
  <2> QED
    BY <1>2, <2>1, <2>2, <2>3
<1>5. ASSUME NEW p, NEW size, NEW woken, call' = ReceiveFrom(p, size, woken)
      PROVE  call'.pc # "connect"
  BY <1>5, ReceiveFromPc
<1>6. CASE SegmentArrives
  <2>1. ASSUME NEW seg, Refuse(seg) \/ ArrivalPanics(seg)
        PROVE  UNCHANGED call
    BY <2>1 DEF Refuse, ArrivalPanics, Panic
  <2>2. ASSUME NEW seg, NEW p,
               \/ RefuseAck(seg, p) \/ SynSentReset(seg, p)
               \/ Unacceptable(seg, p) \/ Reset(seg, p) \/ AckAhead(seg, p)
        PROVE  UNCHANGED call
    BY <2>2 DEF RefuseAck, SynSentReset, Unacceptable, Reset, AckAhead
  <2>3. ASSUME NEW seg, NEW p,
               ListenSyn(seg, p) \/ SynSentArrives(seg, p) \/ Process(seg, p)
        PROVE  UNCHANGED call
    BY <2>3 DEF ListenSyn, SynSentArrives, Process
  <2> QED
    BY <1>1, <1>6, <2>1, <2>2, <2>3 DEF SegmentArrives
<1>7. CASE \/ Retransmit \/ RetryIntervalPasses \/ TimeoutPasses \/ CloseSockets
           \/ InputPanics \/ UNCHANGED vars
  BY <1>1, <1>7 DEF Retransmit, RetryIntervalPasses, TimeoutPasses, Age,
     CloseSockets, InputPanics, Panic, vars
<1>8. CASE CallSteps
  <2>1. CASE OpenWakes \/ ReceiveCopies \/ TransferPanics
    <3>1. UNCHANGED call \/ call' = Idle
      BY <2>1 DEF OpenWakes, ReceiveCopies, TransferPanics, Panic, Return
    <3> QED
      BY <1>1, <1>2, <3>1
  <2>2. CASE ConnectWakes
    BY <2>2 DEF ConnectWakes
  <2>3. CASE AcceptWakes
    <3>1. \/ call' = Idle
          \/ \E got, next : call' = [call EXCEPT !.got = got, !.next = next]
      BY <2>3 DEF AcceptWakes, Return
    <3>2. call \in Call
      BY DEF IInv, CallOK
    <3>3. \A got, next : [call EXCEPT !.got = got, !.next = next].pc = call.pc
      BY <3>2 DEF Call
    <3> QED
      BY <1>2, <3>1, <3>3
  <2>4. CASE SendSegment
    <3>1. call' = Idle \/ \E rest : call' = [call EXCEPT !.data = rest]
      BY <2>4 DEF SendSegment, Return
    <3>2. call \in Call
      BY DEF IInv, CallOK
    <3>3. \A rest : [call EXCEPT !.data = rest].pc = call.pc
      BY <3>2 DEF Call
    <3> QED
      BY <1>2, <3>1, <3>3
  <2>5. CASE SendWakes
    <3>1. call' = IF Head(chan) THEN SendFrom(call.pcb, call.data) ELSE Idle
      BY <2>5 DEF SendWakes
    <3>2. call' = SendFrom(call.pcb, call.data) \/ call' = Idle
      BY <3>1, Zenon
    <3> QED
      BY <1>2, <1>4, <3>2
  <2>6. CASE ReceiveWakes
    <3>1. call' = IF Head(chan) THEN ReceiveFrom(call.pcb, call.n, TRUE) ELSE Idle
      BY <2>6 DEF ReceiveWakes
    <3>2. call' = ReceiveFrom(call.pcb, call.n, TRUE) \/ call' = Idle
      BY <3>1, Zenon
    <3> QED
      BY <1>2, <1>5, <3>2
  <2> QED
    BY <1>8, <2>1, <2>2, <2>3, <2>4, <2>5, <2>6 DEF CallSteps
<1>9. CASE Calls
  <2>1. CASE CallPanics \/ SocketOpen
    BY <1>1, <2>1 DEF CallPanics, Panic, SocketOpen
  <2>2. ASSUME NEW local,
               \/ PassiveOpen(local) \/ \E remote : ActiveOpen(local, remote)
        PROVE  call'.pc # "connect"
    <3>1. \E p : call' = Waiting("open", p)
      BY <2>2 DEF PassiveOpen, ActiveOpen
    <3> QED
      BY <1>3, <3>1
  <2>3. ASSUME NEW p, Listen(p) \/ Close(p) \/ \E local : Bind(p, local)
        PROVE  call'.pc # "connect"
    BY <1>1, <2>3 DEF Listen, Close, Bind
  <2>4. ASSUME NEW p, Accept(p)
        PROVE  call'.pc # "connect"
    <3>1. \E next : call' = [Waiting("accept", p) EXCEPT !.next = next]
      BY <2>4 DEF Accept
    <3>2. \A next : [Waiting("accept", p) EXCEPT !.next = next].pc = "accept"
      BY DEF Waiting, Idle
    <3> QED
      BY <3>1, <3>2
  <2>5. ASSUME NEW p, NEW data, SendStarts(p, data)
        PROVE  call'.pc # "connect"
    BY <1>4, <2>5 DEF SendStarts
  <2>6. ASSUME NEW p, NEW size, ReceiveStarts(p, size)
        PROVE  call'.pc # "connect"
    <3>1. call' = ReceiveFrom(p, size, FALSE)
      BY <2>6 DEF ReceiveStarts
    <3> QED
      BY <1>5, <3>1
  <2> QED
    BY <1>9, <2>1, <2>2, <2>3, <2>4, <2>5, <2>6 DEF Calls
<1> QED
  BY <1>6, <1>7, <1>8, <1>9 DEF Next

(* Every step keeps what connect() relies on. *)
LEMMA NextConnectMode ==
  ASSUME IInv, ConnectMode, [Next]_vars
  PROVE  ConnectMode'
<1>1. CASE call.pc # "connect"
  <2>1. ASSUME NEW p \in handles, NEW remote \in Remotes, Connect(p, remote)
        PROVE  ConnectMode'
    <3>1. /\ TableOK /\ p \in Pcbs /\ pcbs[p] \in Pcb /\ pcbs[p].mode = "Socket"
          /\ chan = <<>> /\ chan' = chan
          /\ call' = Waiting("connect", p)
      BY <2>1, CallFacts DEF Connect, TableOK
    <3>2. call'.pcb = p
      BY <3>1 DEF Waiting, Idle
    <3>3. PICK local, iss :
            pcbs' = [pcbs EXCEPT ![p] = ActiveSyn(pcbs[p], local, remote, iss)]
      BY <2>1 DEF Connect
    <3> DEFINE d == ActiveSyn(pcbs[p], local, remote, iss)
    <3>4. d.mode = "Socket"
      BY <3>1, SynFields
    <3>5. pcbs'[p] = d
      BY <3>1, <3>3 DEF TableOK
    <3> HIDE DEF d
    <3> QED
      BY <3>1, <3>2, <3>4, <3>5 DEF ConnectMode
  <2>2. CASE ~\E p \in handles : \E remote \in Remotes : Connect(p, remote)
    BY <1>1, <2>2, NoOtherConnect DEF ConnectMode
  <2> QED
    BY <2>1, <2>2
<1>2. CASE call.pc = "connect"
  <2>1. /\ call.pcb \in Pcbs /\ pcbs[call.pcb] \in Pcb /\ TableOK
    BY <1>2 DEF IInv, CallOK, TableOK
  <2>2. /\ ~SegmentArrives /\ ~InputPanics /\ ~Retransmit /\ ~Calls
        /\ CallSteps => ConnectWakes
    <3>1. ~SegmentArrives /\ ~InputPanics
      BY <1>2 DEF SegmentArrives, InputPanics, Refuse, ArrivalPanics, RefuseAck, ListenSyn,
         SynSentReset, SynSentArrives, Unacceptable, Reset, AckAhead, Process,
         ArrivesAt, SignalsTaken, DeviceHeld
    <3>2. ~Retransmit
      BY <1>2 DEF Retransmit, DeviceHeld
    <3>3. ~Calls
      BY <1>2 DEF Calls, CallPanics, PassiveOpen, ActiveOpen, Bind, SocketOpen,
         Listen, Accept, Close, Connect, SendStarts, ReceiveStarts, Calling
    <3>4. CallSteps => ConnectWakes
      BY <1>2 DEF CallSteps, OpenWakes, AcceptWakes, SendSegment, SendWakes,
         ReceiveWakes, ReceiveCopies, TransferPanics, Calling
    <3> QED
      BY <3>1, <3>2, <3>3, <3>4
  <2>3. CASE UNCHANGED vars
    BY <2>3 DEF vars, ConnectMode
  <2>4. CASE ConnectWakes
    <3>1. pcbs[call.pcb].state = "Free"
      BY <2>4, <1>2 DEF ConnectMode, ConnectWakes
    <3>2. call' = IF Head(chan) /\ pcbs[call.pcb].state = "SynReceived"
                  THEN call ELSE Idle
      BY <2>4 DEF ConnectWakes
    <3>3. pcbs[call.pcb].state # "SynReceived"
      BY <3>1
    <3>4. call' = Idle
      BY <3>2, <3>3, Zenon
    <3> QED
      BY <3>4, IdlePc DEF ConnectMode
  <2>5. CASE CloseSockets
    <3>1. pcbs'[call.pcb] = Release(pcbs[call.pcb]) /\ call' = call
      BY <2>1, <2>5 DEF CloseSockets
    <3>2. pcbs'[call.pcb].state = "Free" /\ pcbs'[call.pcb].mode = pcbs[call.pcb].mode
      BY <2>1, <3>1, ReleaseFields
    <3> QED
      BY <1>2, <3>1, <3>2 DEF ConnectMode
  <2>6. ASSUME NEW ages, Age(ages)
        PROVE  ConnectMode'
    <3>1. pcbs'[call.pcb] = Aged(pcbs[call.pcb], ages) /\ UNCHANGED <<call, chan>>
      BY <2>1, <2>6 DEF Age
    <3>2. /\ pcbs'[call.pcb].state = pcbs[call.pcb].state
          /\ pcbs'[call.pcb].mode = pcbs[call.pcb].mode
      BY <2>1, <3>1 DEF Aged, Pcb
    <3> QED
      BY <3>1, <3>2 DEF ConnectMode
  <2> QED
    BY <2>2, <2>3, <2>4, <2>5, <2>6 DEF Next, RetryIntervalPasses, TimeoutPasses
<1> QED
  BY <1>1, <1>2

-----------------------------------------------------------------------------
(* Refinement *)

(* The TCP of tcp.rs walks the diagram of TcpLifecycle, for any number of   *)
(* blocks and any segments: what segment_arrives(), the calls, retransmit() *)
(* and close_sockets() do to the state of a block is one of its edges.      *)
THEOREM ImplementsLifecycle == Spec => FollowsLifecycle
<1>1. Init => Lifecycle!Init /\ ConnectMode
  BY InitMaps
<1>2. IInv /\ ConnectMode /\ [Next]_vars => ConnectMode'
  BY NextConnectMode
<1>3. IInv /\ ConnectMode /\ [Next]_vars => [Lifecycle!Next]_(Lifecycle!vars)
  BY StepMaps
<1> QED
  BY <1>1, <1>2, <1>3, Invariance, PTL
     DEF Spec, FollowsLifecycle, Lifecycle!Spec
=============================================================================
