--------------------------- MODULE ThreadsProofs ---------------------------
(***************************************************************************)
(* Proofs about module Threads: its type invariant with the exclusion of    *)
(* the mutexes, that a deadlock needs a thread which takes pcbs before      *)
(* devices, and the ways in which the process can hang.                     *)
(***************************************************************************)
EXTENDS Threads, TLAPS, SequenceTheorems

Places == DOMAIN Sections \union Unlocked
Held(section, n) == {Order(section)[i] : i \in 1..n}

(* Where each thread may be, and which half of the application it runs. *)
MainAt == {"signals", "irq", "protocol", "tell", "close", "join", "over", "dead"}
RtxAt == {"sleep", "retransmit", "ended", "dead"}
TcpAt == {"open", "openwait", "judge", "send", "sendstore", "sendread",
          "sendwait", "sendput", "recv", "recvwait", "recvread", "recvcopy",
          "spin"}
UdpAt == {"uopen", "usend", "ustore", "uwait", "upop"}
AppAt == TcpAt \union UdpAt \union {"check", "ended", "dead"}

(* The mutexes: a thread has a first part of those of its section, and no   *)
(* two threads have the same one.                                           *)
LockOK ==
  /\ pc \in [Threads -> Places]
  /\ got \in [Threads -> Nat]
  /\ \A t \in Threads : got[t] <= Len(Order(pc[t]))
  /\ \A t, u \in Threads : t # u => Holds(t) \intersect Holds(u) = {}
  /\ poisoned \subseteq Mutexes

PcOK ==
  /\ pc["main"] \in MainAt /\ pc["rtx"] \in RtxAt /\ pc["app"] \in AppAt
  /\ pc["app"] \in TcpAt => Tcp
  /\ pc["app"] \in UdpAt => ~Tcp

(* The UDP send command counts: it has a socket before it sends, and it     *)
(* sends twice.                                                             *)
CountOK ==
  /\ sent \in 0..2 /\ left \in 0..MaxPuts
  /\ ~Tcp /\ left = 0 => sent = 0
  /\ pc["app"] = "uopen" => left = 0
  /\ pc["app"] = "usend" => sent < 2 /\ left # 0

(* Packets stop at MaxChan tokens.  One more may come with the last of      *)
(* them, one when the retransmission thread gives the block up, which it    *)
(* does once in the block's life, and one from close_sockets.               *)
ChanOK ==
  /\ chan \in Seq(BOOLEAN)
  /\ Len(chan) <= MaxChan + 1
       + (IF conn = "Free" THEN 1 ELSE 0)
       + (IF pc["main"] \in {"join", "over", "dead"} THEN 1 ELSE 0)

FlagsOK ==
  /\ command \in Commands /\ told \subseteq {"app", "rtx"}
  /\ conn \in Block!Stages /\ data \in BOOLEAN
  /\ sock \in BOOLEAN /\ token \in BOOLEAN /\ missed \in BOOLEAN

IInv == LockOK /\ PcOK /\ CountOK /\ ChanOK /\ FlagsOK

(* The sections of send() that begin with two mutexes in hand. *)
SendKeeps == {"sendstore", "sendread", "sendwait", "sendput"}

(* What close_sockets has done for the end: before it both threads have     *)
(* the message; after it the block is free until the application opens it   *)
(* anew, so that no call falls asleep on a connection, and the call it      *)
(* found has a token or does not sleep.                                     *)
EndOK ==
  /\ pc["app"] = "spin" => conn = "Free"
  /\ pc["app"] \in SendKeeps => got["app"] \in {2, 3}
  /\ pc["main"] \in {"close", "join"} => "app" \in told
  /\ pc["main"] = "join" /\ Tcp => conn \in {"Free", "SynSent", "Listen"}
  /\ pc["main"] = "join" /\ pc["app"] \in {"recvwait", "sendwait"} => chan # <<>>
  /\ pc["main"] = "join" /\ ~missed =>
       /\ pc["app"] \notin {"open", "uopen", "usend", "ustore"}
       /\ pc["app"] \in {"openwait", "uwait"} => chan # <<>>

(* The mutexes of each section, in the order in which it takes them. *)
LEMMA OrderOf ==
  /\ Order("irq") = <<"devices", "protocols">>
  /\ Order("protocol") = <<"devices", "protocols", "contexts", "pcbs">>
  /\ \A s \in {"close", "judge", "recv", "recvread", "recvcopy", "uopen",
               "ustore", "upop"} : Order(s) = <<"pcbs">>
  /\ \A s \in {"retransmit", "open"} :
       Order(s) = <<"pcbs", "devices", "contexts">>
  /\ \A s \in {"send", "sendwait"} : Order(s) = <<"devices", "contexts">>
  /\ \A s \in {"sendstore", "sendread", "sendput", "usend"} :
       Order(s) = <<"devices", "contexts", "pcbs">>
BY DEF Order, Sections, HandleProtocolOrder

(* All places a thread can be in; the unlocked ones take no mutex. *)
LEMMA PlacesAre ==
  /\ Places = {"irq", "protocol", "close", "retransmit", "open", "judge",
               "send", "sendstore", "sendread", "sendwait", "sendput", "recv",
               "recvread", "recvcopy", "uopen", "usend", "ustore", "upop"}
              \union Unlocked
  /\ \A s \in Unlocked : Order(s) = <<>>
BY DEF Places, Sections, Order, Unlocked
-----------------------------------------------------------------------------
(* The orders *)

Wanted(section, n) ==
  {Order(section)[i] : i \in {n + 1} \intersect DOMAIN Order(section)}

(* The orders take devices before protocols and contexts, everywhere, and   *)
(* no mutex twice.                                                          *)
LEMMA DevicesFirst ==
  ASSUME NEW s \in Places, NEW n \in Nat, n <= Len(Order(s))
  PROVE  /\ Held(s, n) \subseteq Mutexes /\ Wanted(s, n) \subseteq Mutexes
         /\ {"contexts", "protocols"} \intersect (Held(s, n) \union Wanted(s, n)) # {}
              => "devices" \in Held(s, n)
         /\ Held(s, n) \intersect Wanted(s, n) = {}
         /\ \A m \in Wanted(s, n) : Wanted(s, n) = {m}
<1>1. CASE s \in Unlocked
  BY <1>1, PlacesAre DEF Held, Wanted, Mutexes
<1>2. CASE s = "protocol"
  <2>1. Order(s) = <<"devices", "protocols", "contexts", "pcbs">>
    BY <1>2, OrderOf
  <2>2. n \in 0..4
    BY <2>1
  <2> QED
    BY <2>1, <2>2 DEF Held, Wanted, Mutexes
<1>3. CASE s = "irq"
  <2>1. Order(s) = <<"devices", "protocols">>
    BY <1>3, OrderOf
  <2>2. n \in 0..2
    BY <2>1
  <2> QED
    BY <2>1, <2>2 DEF Held, Wanted, Mutexes
<1>4. CASE s \in {"close", "judge", "recv", "recvread", "recvcopy", "uopen",
                  "ustore", "upop"}
  <2>1. Order(s) = <<"pcbs">>
    BY <1>4, OrderOf
  <2>2. n \in 0..1
    BY <2>1
  <2> QED
    BY <2>1, <2>2 DEF Held, Wanted, Mutexes
<1>5. CASE s \in {"retransmit", "open"}
  <2>1. Order(s) = <<"pcbs", "devices", "contexts">>
    BY <1>5, OrderOf
  <2>2. n \in 0..3
    BY <2>1
  <2> QED
    BY <2>1, <2>2 DEF Held, Wanted, Mutexes
<1>6. CASE s \in {"send", "sendwait"}
  <2>1. Order(s) = <<"devices", "contexts">>
    BY <1>6, OrderOf
  <2>2. n \in 0..2
    BY <2>1
  <2> QED
    BY <2>1, <2>2 DEF Held, Wanted, Mutexes
<1>7. CASE s \in {"sendstore", "sendread", "sendput", "usend"}
  <2>1. Order(s) = <<"devices", "contexts", "pcbs">>
    BY <1>7, OrderOf
  <2>2. n \in 0..3
    BY <2>1
  <2> QED
    BY <2>1, <2>2 DEF Held, Wanted, Mutexes
<1> QED
  BY <1>1, <1>2, <1>3, <1>4, <1>5, <1>6, <1>7, PlacesAre

(* The same for the threads. *)
LEMMA ThreadsOrdered ==
  ASSUME LockOK, NEW t \in Threads
  PROVE  /\ Holds(t) \subseteq Mutexes /\ Wants(t) \subseteq Mutexes
         /\ {"contexts", "protocols"} \intersect (Holds(t) \union Wants(t)) # {}
              => "devices" \in Holds(t)
         /\ Holds(t) \intersect Wants(t) = {}
         /\ \A m \in Wants(t) : Wants(t) = {m}
<1>1. Holds(t) = Held(pc[t], got[t]) /\ Wants(t) = Wanted(pc[t], got[t])
  BY DEF Holds, Held, Wants, Wanted
<1>2. pc[t] \in Places /\ got[t] \in Nat /\ got[t] <= Len(Order(pc[t]))
  BY DEF LockOK
<1> QED
  BY <1>1, <1>2, DevicesFirst

(* When the mutexes exclude each other and the orders are those of the      *)
(* code, threads that wait for each other have one that holds pcbs and      *)
(* wants devices.                                                           *)
LEMMA ReversalNeeded ==
  ASSUME LockOK
  PROVE  DeadlockNeedsReversal
<1> SUFFICES ASSUME NEW set \in SUBSET Threads, Deadlocked(set),
                    \A t \in set : ~("pcbs" \in Holds(t) /\ Wants(t) = {"devices"})
             PROVE  FALSE
  BY DEF DeadlockNeedsReversal
<1>1. ASSUME NEW t \in set
      PROVE  \E u \in set, m \in Mutexes : Wants(t) = {m} /\ m \in Holds(u) /\ u # t
  <2>1. PICK u \in set : Wants(t) \intersect Holds(u) # {}
    BY <1>1 DEF Deadlocked
  <2>2. PICK m \in Mutexes : m \in Wants(t) /\ m \in Holds(u)
    BY <2>1, ThreadsOrdered
  <2> QED
    BY <2>2, ThreadsOrdered
<1>2. \A t, u \in set : t # u => Holds(t) \intersect Holds(u) = {}
  BY DEF LockOK
(* A thread that wants contexts or protocols has devices; so has the one    *)
(* that holds what it wants.                                                *)
<1>3. ASSUME NEW t \in set
      PROVE  Wants(t) = {"devices"} \/ Wants(t) = {"pcbs"}
  <2>1. PICK u \in set, m \in Mutexes : Wants(t) = {m} /\ m \in Holds(u) /\ u # t
    BY <1>1
  <2>2. ASSUME m \in {"contexts", "protocols"}
        PROVE  FALSE
    <3>1. "devices" \in Holds(t)
      BY <2>1, <2>2, ThreadsOrdered
    <3>2. "devices" \in Holds(u)
      BY <2>1, <2>2, ThreadsOrdered
    <3> QED
      BY <1>2, <2>1, <3>1, <3>2
  <2> QED
    BY <2>1, <2>2 DEF Mutexes
(* Whoever wants pcbs waits for a thread that holds it, which then wants    *)
(* devices.                                                                 *)
<1>4. ASSUME NEW t \in set
      PROVE  Wants(t) # {"pcbs"}
  <2> SUFFICES ASSUME Wants(t) = {"pcbs"}
               PROVE  FALSE
    OBVIOUS
  <2>1. PICK u \in set : "pcbs" \in Holds(u)
    BY <1>1
  <2>2. Wants(u) = {"devices"} \/ "pcbs" \in Wants(u)
    BY <1>3
  <2> QED
    BY <2>1, <2>2, ThreadsOrdered
(* So all want devices, and the one that holds it wants something else. *)
<1>5. PICK t \in set : TRUE
  BY DEF Deadlocked
<1>6. PICK u \in set : "devices" \in Holds(u)
  BY <1>1, <1>3, <1>4, <1>5
<1> QED
  BY <1>3, <1>4, <1>6, ThreadsOrdered
-----------------------------------------------------------------------------
(* The mutexes are kept apart *)

(* A thread goes on and keeps no mutex that it did not have. *)
LEMMA GoingOn ==
  ASSUME LockOK, NEW t \in Threads, NEW s \in Places, NEW k \in Nat,
         k <= Len(Order(s)), Held(s, k) \subseteq Holds(t),
         GoHolding(t, s, k), poisoned' \subseteq Mutexes
  PROVE  LockOK'
<1>1. /\ pc' \in [Threads -> Places] /\ got' \in [Threads -> Nat]
      /\ pc'[t] = s /\ got'[t] = k
      /\ \A u \in Threads \ {t} : pc'[u] = pc[u] /\ got'[u] = got[u]
  BY DEF LockOK, GoHolding
<1>2. \A u \in Threads : got'[u] <= Len(Order(pc'[u]))
  BY <1>1 DEF LockOK
<1>3. Holds(t)' = Held(s, k)
  BY <1>1 DEF Holds, Held
<1>4. \A u \in Threads \ {t} : Holds(u)' = Holds(u)
  BY <1>1 DEF Holds
<1>5. \A u, v \in Threads : u # v => Holds(u)' \intersect Holds(v)' = {}
  BY <1>3, <1>4 DEF LockOK
<1> QED
  BY <1>1, <1>2, <1>5 DEF LockOK

(* It gives everything back, or it dies. *)
LEMMA GoingFree ==
  ASSUME LockOK, NEW t \in Threads, NEW s \in Places, Go(t, s)
  PROVE  LockOK'
<1>1. 0 <= Len(Order(s)) /\ Held(s, 0) = {}
  BY PlacesAre, OrderOf DEF Held, Unlocked
<1> QED
  BY <1>1, GoingOn DEF Go, LockOK

(* A panic: the thread lets go of everything and poisons what it had. *)
LEMMA Dying ==
  ASSUME LockOK, NEW t \in Threads, Dies(t)
  PROVE  LockOK'
<1>1. 0 <= Len(Order("dead")) /\ Held("dead", 0) = {} /\ "dead" \in Places
  BY PlacesAre, EmptySeq DEF Held, Unlocked
<1>2. poisoned' \subseteq Mutexes
  BY ThreadsOrdered DEF Dies, LockOK
<1> QED
  BY <1>1, <1>2, GoingOn DEF Dies

(* It takes a mutex that no thread has. *)
LEMMA AcquireLocks ==
  ASSUME LockOK, NEW t \in Threads, Acquire(t)
  PROVE  LockOK'
<1>1. PICK m \in Wants(t) :
        /\ Free(m)
        /\ IF m \in poisoned THEN Dies(t)
           ELSE got' = [got EXCEPT ![t] = @ + 1] /\ UNCHANGED <<pc, poisoned>>
  BY DEF Acquire
<1>2. CASE m \in poisoned
  BY <1>1, <1>2, Dying
<1>3. CASE m \notin poisoned
  <2>1. /\ got' = [got EXCEPT ![t] = @ + 1] /\ UNCHANGED <<pc, poisoned>>
        /\ got' \in [Threads -> Nat] /\ got'[t] = got[t] + 1
        /\ \A u \in Threads \ {t} : got'[u] = got[u]
    BY <1>1, <1>3 DEF LockOK
  <2>2. got[t] + 1 \in DOMAIN Order(pc[t]) /\ m = Order(pc[t])[got[t] + 1]
    BY <1>1 DEF Wants
  <2>3. pc[t] \in Places /\ got[t] \in Nat
    BY DEF LockOK
  <2>4. DOMAIN Order(pc[t]) = 1..Len(Order(pc[t])) /\ Len(Order(pc[t])) \in Nat
    BY <2>3, OrderOf, PlacesAre
  <2>5. \A u \in Threads : got'[u] <= Len(Order(pc'[u]))
    BY <2>1, <2>2, <2>3, <2>4 DEF LockOK
  <2>6. 1..(got[t] + 1) = (1..got[t]) \union {got[t] + 1}
    BY <2>3
  <2>7. Holds(t)' = Holds(t) \union {m}
    BY <2>1, <2>2, <2>6 DEF Holds
  <2>8. \A u \in Threads \ {t} : Holds(u)' = Holds(u) /\ m \notin Holds(u)
    BY <1>1, <2>1 DEF Holds, Free
  <2>9. \A u, v \in Threads : u # v => Holds(u)' \intersect Holds(v)' = {}
    BY <2>7, <2>8 DEF LockOK
  <2> QED
    BY <2>1, <2>5, <2>9 DEF LockOK
<1> QED
  BY <1>2, <1>3
-----------------------------------------------------------------------------
(* The main thread *)

Closed == {"join", "over", "dead"}

(* The main thread moves and leaves the rest alone. *)
LEMMA MainMoves ==
  ASSUME IInv, NEW s \in MainAt, Go("main", s) \/ Dies("main"),
         pc["main"] \in Closed => s \in Closed,
         UNCHANGED <<command, tcpVars, appVars>>,
         told' \subseteq {"app", "rtx"}, missed' \in BOOLEAN
  PROVE  IInv'
<1>1. LockOK'
  BY GoingFree, Dying, PlacesAre DEF IInv, MainAt, Unlocked, Threads
<1>2. /\ pc'["main"] \in {s, "dead"}
      /\ pc'["app"] = pc["app"] /\ pc'["rtx"] = pc["rtx"]
  BY DEF IInv, LockOK, Go, Dies, GoHolding, Threads
<1>3. PcOK'
  BY <1>2 DEF IInv, PcOK, MainAt, Tcp
<1>4. CountOK'
  BY <1>2 DEF IInv, CountOK, Tcp, appVars
<1>5. ChanOK'
  BY <1>2, LenProperties, ChanAssumption DEF IInv, ChanOK, tcpVars, Closed
<1>6. FlagsOK'
  BY DEF IInv, FlagsOK, tcpVars, appVars, Block!Stages
<1> QED
  BY <1>1, <1>3, <1>4, <1>5, <1>6 DEF IInv

(* The signal loop, but for packets and close_sockets(). *)
LEMMA MainStepsOK ==
  ASSUME IInv,
         \/ \E section \in {"irq", "protocol", "tell"} : Signal(section)
         \/ HandleIrq
         \/ HandledProtocol
         \/ Tell
         \/ Join
  PROVE  IInv'
<1> USE DEF MainAt, Closed
<1>1. missed \in BOOLEAN /\ told \subseteq {"app", "rtx"}
  BY DEF IInv, FlagsOK
<1>2. ASSUME NEW section \in {"irq", "protocol", "tell"}, Signal(section)
      PROVE  IInv'
  BY <1>1, <1>2, MainMoves DEF Signal, In, endVars
<1>3. CASE HandleIrq
  BY <1>1, <1>3, MainMoves DEF HandleIrq, In, endVars
<1>4. CASE HandledProtocol
  BY <1>1, <1>4, MainMoves DEF HandledProtocol, In, endVars
<1>5. CASE Tell
  <2>1. told' \subseteq {"app", "rtx"}
    BY <1>5 DEF Tell
  <2> QED
    BY <1>1, <1>5, <2>1, MainMoves DEF Tell, In
<1>6. CASE Join
  BY <1>1, <1>6, MainMoves DEF Join, In, endVars
<1> QED
  BY <1>2, <1>3, <1>4, <1>5, <1>6

(* A sequence of at most two tokens, or none. *)
LEMMA TokensType ==
  ASSUME NEW s \in Seq(BOOLEAN)
  PROVE  /\ Tokens(s) \in Seq(BOOLEAN)
         /\ Len(Tokens(s)) <= Len(s)
<1>1. Len(s) \in Nat
  BY LenProperties
<1>2. CASE Listening
  BY <1>1, <1>2 DEF Tokens
<1>3. CASE ~Listening
  BY <1>1, <1>3, EmptySeq DEF Tokens
<1> QED
  BY <1>2, <1>3

(* A channel grows by at most the tokens that are sent. *)
LEMMA MoreTokens ==
  ASSUME NEW c \in Seq(BOOLEAN), NEW s \in Seq(BOOLEAN)
  PROVE  /\ c \o Tokens(s) \in Seq(BOOLEAN)
         /\ Len(c \o Tokens(s)) \in Len(c)..(Len(c) + Len(s))
<1>1. Tokens(s) \in Seq(BOOLEAN) /\ Len(Tokens(s)) <= Len(s)
  BY TokensType
<1>2. /\ c \o Tokens(s) \in Seq(BOOLEAN)
      /\ Len(c \o Tokens(s)) = Len(c) + Len(Tokens(s))
  BY <1>1, ConcatProperties
<1>3. Len(c) \in Nat /\ Len(s) \in Nat /\ Len(Tokens(s)) \in Nat
  BY <1>1, LenProperties
<1> QED
  BY <1>1, <1>2, <1>3
(* The tokens of one, or two, of the code's sends. *)
LEMMA TokenSeqs ==
  /\ <<>> \in Seq(BOOLEAN) /\ Len(<<>>) = 0
  /\ \A b \in BOOLEAN : <<b>> \in Seq(BOOLEAN) /\ Len(<<b>>) = 1
  /\ <<TRUE, TRUE>> \in Seq(BOOLEAN) /\ Len(<<TRUE, TRUE>>) = 2
  /\ <<TRUE>> \in Seq(BOOLEAN) /\ Len(<<TRUE>>) = 1
  /\ <<FALSE>> \in Seq(BOOLEAN) /\ Len(<<FALSE>>) = 1
  OBVIOUS

(* A segment moves the connection along an edge, brings data, or ends it;   *)
(* it sends at most two tokens.                                             *)
LEMMA SegmentOK ==
  ASSUME IInv, Segment
  PROVE  /\ conn' \in Block!Stages /\ data' \in BOOLEAN
         /\ chan' \in Seq(BOOLEAN) /\ Len(chan') <= Len(chan) + 2
<1>1. chan \in Seq(BOOLEAN) /\ Len(chan) \in Nat /\ data \in BOOLEAN
      /\ conn \in Block!Stages
  BY LenProperties DEF IInv, ChanOK, FlagsOK
<1>2. ASSUME NEW s \in Block!Stages,
             <<conn, s>> \in Block!Arrivals,
             conn' = s,
             chan' = chan \o Tokens(
               CASE s = "SynReceived" -> <<>>
                 [] s = "Established" -> <<TRUE>>
                 [] s = "CloseWait" ->
                      IF conn = "SynReceived" THEN <<TRUE, TRUE>> ELSE <<TRUE>>),
             data' = (data /\ s # "SynReceived")
      PROVE  /\ conn' \in Block!Stages /\ data' \in BOOLEAN
             /\ chan' \in Seq(BOOLEAN) /\ Len(chan') <= Len(chan) + 2
  <2>1. s = "SynReceived" \/ s = "Established" \/ s = "CloseWait"
    BY <1>2 DEF Block!Arrivals
  <2>2. PICK k \in {<<>>, <<TRUE>>, <<TRUE, TRUE>>} : chan' = chan \o Tokens(k)
    BY <1>2, <2>1
  <2>3. k \in Seq(BOOLEAN) /\ Len(k) \in Nat /\ Len(k) <= 2
    <3>1. CASE k = <<>>
      BY <3>1, TokenSeqs
    <3>2. CASE k = <<TRUE>>
      BY <3>2, TokenSeqs
    <3>3. CASE k = <<TRUE, TRUE>>
      BY <3>3, TokenSeqs
    <3> QED
      BY <2>2, <3>1, <3>2, <3>3
  <2>4. chan' \in Seq(BOOLEAN) /\ Len(chan') \in Len(chan)..(Len(chan) + Len(k))
    BY <1>1, <2>2, <2>3, MoreTokens
  <2>5. Len(chan') <= Len(chan) + 2
    <3>1. \A m, n, x \in Nat : n <= 2 /\ x \in m..(m + n) => x <= m + 2
      OBVIOUS
    <3>2. Len(chan') \in Nat
      BY <2>4, LenProperties
    <3> QED
      BY <1>1, <2>3, <2>4, <3>1, <3>2
  <2>6. data' \in BOOLEAN
    BY <1>2
  <2> QED
    BY <1>2, <2>4, <2>5, <2>6
<1>3. CASE /\ conn = "Established" /\ data' = TRUE
           /\ chan' = chan \o Tokens(<<TRUE>>)
           /\ UNCHANGED conn
  <2>1. chan' \in Seq(BOOLEAN) /\ Len(chan') \in Len(chan)..(Len(chan) + 1)
    BY <1>1, <1>3, TokenSeqs, MoreTokens
  <2> QED
    BY <1>1, <1>3, <2>1
<1>4. CASE Release
  <2>1. chan' \in Seq(BOOLEAN) /\ Len(chan') \in Len(chan)..(Len(chan) + 1)
    BY <1>1, <1>4, TokenSeqs, MoreTokens DEF Release
  <2> QED
    BY <1>1, <1>4, <2>1 DEF Release, Block!Stages
<1> QED
  BY <1>2, <1>3, <1>4 DEF Segment

(* handle_protocol: only the connection, its data and its channel change. *)
LEMMA HandlePacketOK ==
  ASSUME IInv, HandlePacket
  PROVE  IInv'
<1>1. LockOK'
  <2>1. UNCHANGED <<pc, got, poisoned>>
    BY DEF HandlePacket
  <2>2. \A t \in Threads : Holds(t)' = Holds(t)
    BY <2>1 DEF Holds
  <2> QED
    BY <2>1, <2>2 DEF IInv, LockOK
<1>2. PcOK' /\ CountOK'
  BY DEF IInv, PcOK, CountOK, HandlePacket, Tcp, appVars
<1>3. chan \in Seq(BOOLEAN) /\ Len(chan) \in Nat
  BY LenProperties DEF IInv, ChanOK
<1>4. /\ conn' \in Block!Stages /\ data' \in BOOLEAN
      /\ chan' \in Seq(BOOLEAN) /\ Len(chan') <= Len(chan) + 2
  <2>1. CASE Tcp /\ Segment
    BY <2>1, SegmentOK
  <2>2. CASE ~Tcp /\ chan' = Append(chan, TRUE) /\ UNCHANGED <<conn, data>>
    BY <1>3, <2>2, AppendProperties DEF IInv, FlagsOK
  <2> QED
    BY <2>1, <2>2 DEF HandlePacket
<1>5. ChanOK'
  <2>1. Len(chan) < MaxChan /\ Len(chan') \in Nat
    BY <1>4, LenProperties DEF HandlePacket
  <2> QED
    BY <1>3, <1>4, <2>1, ChanAssumption DEF ChanOK
<1>6. FlagsOK'
  BY <1>4 DEF IInv, FlagsOK, HandlePacket, appVars, endVars
<1> QED
  BY <1>1, <1>2, <1>5, <1>6 DEF IInv
(* release() frees the block, with one more token. *)
LEMMA ReleaseFacts ==
  ASSUME IInv, Release
  PROVE  /\ conn' = "Free" /\ data' \in BOOLEAN /\ chan' \in Seq(BOOLEAN)
         /\ Len(chan') <= Len(chan) + 1 /\ Len(chan) \in Nat
<1>1. chan \in Seq(BOOLEAN) /\ Len(chan) \in Nat /\ data \in BOOLEAN
  BY LenProperties DEF IInv, ChanOK, FlagsOK
<1>2. chan' \in Seq(BOOLEAN) /\ Len(chan') \in Len(chan)..(Len(chan) + 1)
  BY <1>1, TokenSeqs, MoreTokens DEF Release
<1> QED
  BY <1>1, <1>2 DEF Release

(* close_sockets adds one token and the main thread goes to its joins. *)
LEMMA CloseSocketsOK ==
  ASSUME IInv, CloseSockets
  PROVE  IInv'
<1>1. /\ pc["main"] = "close"
      /\ Go("main", "join") \/ Dies("main")
      /\ UNCHANGED <<command, appVars, told>>
      /\ missed' \in BOOLEAN
  BY DEF CloseSockets, In
<1>2. LockOK'
  BY <1>1, GoingFree, Dying, PlacesAre DEF IInv, Unlocked, Threads
<1>3. /\ pc'["main"] \in {"join", "dead"}
      /\ pc'["app"] = pc["app"] /\ pc'["rtx"] = pc["rtx"]
  BY <1>1 DEF IInv, LockOK, Go, Dies, GoHolding, Threads
<1>4. PcOK' /\ CountOK'
  BY <1>1, <1>3 DEF IInv, PcOK, CountOK, MainAt, Tcp, appVars
<1>5. chan \in Seq(BOOLEAN) /\ Len(chan) \in Nat
  BY LenProperties DEF IInv, ChanOK
<1>6. /\ conn' \in {conn, "Free"} /\ data' \in BOOLEAN
      /\ chan' \in Seq(BOOLEAN) /\ Len(chan') <= Len(chan) + 1
  <2>1. CASE Release
    BY <2>1, ReleaseFacts
  <2>2. CASE chan' = chan \o Tokens(<<FALSE>>) /\ UNCHANGED <<conn, data>>
    <3>1. chan' \in Seq(BOOLEAN) /\ Len(chan') \in Len(chan)..(Len(chan) + 1)
      BY <1>5, <2>2, TokenSeqs, MoreTokens
    <3> QED
      BY <1>5, <2>2, <3>1 DEF IInv, FlagsOK
  <2>3. CASE UNCHANGED tcpVars
    BY <1>5, <2>3 DEF IInv, FlagsOK, ChanOK, tcpVars
  <2> QED
    BY <2>1, <2>2, <2>3 DEF CloseSockets
<1>7. ChanOK'
  <2>1. Len(chan') \in Nat
    BY <1>6, LenProperties
  <2> QED
    BY <1>1, <1>3, <1>5, <1>6, <2>1, ChanAssumption DEF IInv, ChanOK
<1>8. FlagsOK'
  BY <1>1, <1>6 DEF IInv, FlagsOK, appVars, Block!Stages
<1> QED
  BY <1>2, <1>4, <1>7, <1>8 DEF IInv

-----------------------------------------------------------------------------
(* The retransmission thread *)

(* A turn of the thread; one that gives the block up wakes its call. *)
LEMMA RtxStepsOK ==
  ASSUME IInv, RtxSteps
  PROVE  IInv'
<1>1. /\ \/ \E s \in RtxAt : Go("rtx", s)
         \/ Dies("rtx")
      /\ UNCHANGED <<command, appVars, endVars>>
  BY DEF RtxSteps, RetransmitTurn, Retransmit, RtxAt
<1>2. LockOK'
  BY <1>1, GoingFree, Dying, PlacesAre DEF IInv, Unlocked, Threads, RtxAt
<1>3. /\ pc'["rtx"] \in RtxAt
      /\ pc'["app"] = pc["app"] /\ pc'["main"] = pc["main"]
  BY <1>1 DEF IInv, LockOK, Go, Dies, GoHolding, Threads, RtxAt
<1>4. PcOK' /\ CountOK'
  BY <1>1, <1>3 DEF IInv, PcOK, CountOK, Tcp, appVars
<1>5. CASE UNCHANGED tcpVars
  <2>1. ChanOK' /\ FlagsOK'
    BY <1>1, <1>3, <1>5 DEF IInv, ChanOK, FlagsOK, tcpVars, appVars, endVars
  <2> QED
    BY <1>2, <1>4, <2>1 DEF IInv
<1>6. CASE conn # "Free" /\ Release
  <2>1. /\ conn' = "Free" /\ data' \in BOOLEAN /\ chan' \in Seq(BOOLEAN)
        /\ Len(chan') <= Len(chan) + 1 /\ Len(chan) \in Nat
    BY <1>6, ReleaseFacts
  <2>2. ChanOK'
    <3>1. Len(chan') \in Nat
      BY <2>1, LenProperties
    <3> QED
      BY <1>3, <1>6, <2>1, <3>1, ChanAssumption DEF IInv, ChanOK
  <2>3. FlagsOK'
    BY <1>1, <2>1 DEF IInv, FlagsOK, appVars, endVars, Block!Stages
  <2> QED
    BY <1>2, <1>4, <2>2, <2>3 DEF IInv
<1> QED
  BY <1>5, <1>6 DEF RtxSteps, RetransmitTurn, Retransmit

-----------------------------------------------------------------------------
(* The application thread *)

(* It goes on with no mutex, or with the two that send() keeps. *)
AppGoes(s) ==
  \/ Go("app", s)
  \/ s = "dead" /\ Dies("app")
  \/ /\ GoHolding("app", s, 2) /\ UNCHANGED poisoned
     /\ s \in {"sendstore", "sendread", "sendwait", "sendput"}
     /\ \E from \in {"send", "sendstore", "sendread", "sendwait", "sendput"} :
          In("app", from)

(* All sections of send() begin with the same two mutexes. *)
LEMMA SendOrder ==
  ASSUME NEW s \in {"send", "sendstore", "sendread", "sendwait", "sendput"}
  PROVE  /\ Order(s)[1] = "devices" /\ Order(s)[2] = "contexts"
         /\ Len(Order(s)) \in Nat /\ 2 <= Len(Order(s))
<1>1. CASE s \in {"send", "sendwait"}
  <2>1. Order(s) = <<"devices", "contexts">>
    BY <1>1, OrderOf
  <2> QED
    BY <2>1
<1>2. CASE s \in {"sendstore", "sendread", "sendput"}
  <2>1. Order(s) = <<"devices", "contexts", "pcbs">>
    BY <1>2, OrderOf
  <2> QED
    BY <2>1
<1> QED
  BY <1>1, <1>2

(* A step of the application thread to a place of its own command. *)
LEMMA AppMoves ==
  ASSUME IInv, NEW s \in AppAt, AppGoes(s),
         s \in TcpAt => Tcp, s \in UdpAt => ~Tcp,
         UNCHANGED command
  PROVE  LockOK' /\ PcOK' /\ pc'["app"] = s /\ pc'["main"] = pc["main"]
<1>1. LockOK'
  <2>1. CASE Go("app", s)
    BY <2>1, GoingFree, PlacesAre
       DEF IInv, Unlocked, Threads, AppAt, TcpAt, UdpAt
  <2>2. CASE Dies("app")
    BY <2>2, Dying DEF IInv, Threads
  <2>3. ASSUME NEW from \in {"send", "sendstore", "sendread", "sendwait", "sendput"},
               In("app", from), GoHolding("app", s, 2), UNCHANGED poisoned,
               s \in {"sendstore", "sendread", "sendwait", "sendput"}
        PROVE  LockOK'
    <3>1. /\ Order(s)[1] = "devices" /\ Order(s)[2] = "contexts"
          /\ Order(from)[1] = "devices" /\ Order(from)[2] = "contexts"
          /\ 2 <= Len(Order(s)) /\ 2 <= Len(Order(from))
          /\ Len(Order(from)) \in Nat
      BY <2>3, SendOrder
    <3>2. Held(s, 2) = {"devices", "contexts"}
      BY <3>1 DEF Held
    <3>3. pc["app"] = from /\ got["app"] = Len(Order(from))
      BY <2>3 DEF In
    <3>4. Held(s, 2) \subseteq Holds("app")
      BY <3>1, <3>2, <3>3 DEF Holds
    <3>5. s \in Places
      BY <2>3, PlacesAre
    <3> QED
      BY <2>3, <3>1, <3>4, <3>5, GoingOn DEF IInv, LockOK, Threads
  <2> QED
    BY <2>1, <2>2, <2>3 DEF AppGoes
<1>2. /\ pc'["app"] = s
      /\ pc'["main"] = pc["main"] /\ pc'["rtx"] = pc["rtx"]
  BY DEF AppGoes, IInv, LockOK, Go, Dies, GoHolding, Threads
<1>3. PcOK'
  BY <1>2 DEF IInv, PcOK, Tcp
<1> QED
  BY <1>1, <1>2, <1>3
(* Neither the connection nor the channel gets longer. *)
LEMMA ChannelKept ==
  ASSUME IInv, pc'["main"] = pc["main"],
         \/ UNCHANGED chan
         \/ chan # <<>> /\ chan' = Tail(chan)
         \/ chan' = <<>>,
         conn' \in {conn, "Free"} \/ chan' = <<>>
  PROVE  ChanOK'
<1>1. chan \in Seq(BOOLEAN) /\ Len(chan) \in Nat
  BY LenProperties DEF IInv, ChanOK
<1>2. chan' \in Seq(BOOLEAN) /\ Len(chan') \in Nat /\ Len(chan') <= Len(chan)
  <2>1. CASE UNCHANGED chan
    BY <1>1, <2>1
  <2>2. CASE chan # <<>> /\ chan' = Tail(chan)
    <3>1. chan' \in Seq(BOOLEAN) /\ Len(chan') = Len(chan) - 1
      BY <1>1, <2>2, HeadTailProperties
    <3> QED
      BY <1>1, <3>1, LenProperties
  <2>3. CASE chan' = <<>>
    BY <1>1, <2>3, EmptySeq
  <2> QED
    BY <2>1, <2>2, <2>3
<1>3. chan' = <<>> => Len(chan') = 0
  BY EmptySeq
<1> QED
  BY <1>1, <1>2, <1>3, ChanAssumption DEF IInv, ChanOK

(* The look for the termination message at the top of the loop. *)
LEMMA CheckOK ==
  ASSUME IInv, Check
  PROVE  IInv'
<1>1. PICK s \in AppAt : /\ s = (IF ToldToEnd THEN "ended" ELSE NextTurn)
                         /\ Go("app", s)
  BY DEF Check, AppAt, TcpAt, UdpAt, NextTurn
<1>2. /\ s \in TcpAt => Tcp
      /\ s \in UdpAt => ~Tcp
      /\ s = "uopen" => left = 0
      /\ s = "usend" => sent < 2 /\ left # 0
  BY <1>1 DEF NextTurn, TcpAt, UdpAt, IInv, CountOK
<1>3. UNCHANGED <<command, tcpVars, appVars, endVars>>
  BY DEF Check
<1>4. LockOK' /\ PcOK' /\ pc'["app"] = s /\ pc'["main"] = pc["main"]
  BY <1>1, <1>2, <1>3, AppMoves DEF AppGoes
<1>5. CountOK'
  BY <1>2, <1>3, <1>4 DEF IInv, CountOK, appVars, Tcp
<1>6. ChanOK' /\ FlagsOK'
  BY <1>3, <1>4 DEF IInv, ChanOK, FlagsOK, tcpVars, appVars, endVars
<1> QED
  BY <1>4, <1>5, <1>6 DEF IInv

(* A step of the TCP calls: where it goes, and what it does to the variables *)
(* of the application.                                                       *)
LEMMA TcpStep ==
  ASSUME IInv, pc["app"] \in TcpAt, NEW s \in TcpAt \union {"check", "ended", "dead"},
         AppGoes(s),
         \/ UNCHANGED chan
         \/ chan # <<>> /\ chan' = Tail(chan)
         \/ chan' = <<>>,
         conn' \in {conn, "Free"} \/ chan' = <<>>,
         conn' \in Block!Stages, data' \in BOOLEAN, sock' \in BOOLEAN,
         token' \in BOOLEAN, sent' \in 0..2, left' \in 0..MaxPuts,
         UNCHANGED <<command, endVars>>
  PROVE  IInv'
<1>1. Tcp /\ Tcp'
  BY DEF IInv, PcOK, Tcp
<1>2. LockOK' /\ PcOK' /\ pc'["app"] = s /\ pc'["main"] = pc["main"]
  BY <1>1, AppMoves DEF AppAt, TcpAt, UdpAt
<1>3. CountOK'
  BY <1>1, <1>2 DEF CountOK, TcpAt
<1>4. ChanOK'
  BY <1>2, ChannelKept
<1>5. FlagsOK'
  BY DEF IInv, FlagsOK, endVars
<1> QED
  BY <1>2, <1>3, <1>4, <1>5 DEF IInv
(* The first token of a channel. *)
LEMMA HeadType ==
  ASSUME IInv, chan # <<>>
  PROVE  Head(chan) \in BOOLEAN
BY HeadTailProperties DEF IInv, ChanOK

(* The types of the application's variables, from the invariant. *)
LEMMA TypesOfApp ==
  ASSUME IInv
  PROVE  /\ conn \in Block!Stages /\ data \in BOOLEAN /\ sock \in BOOLEAN
         /\ token \in BOOLEAN /\ sent \in 0..2 /\ left \in 0..MaxPuts
BY DEF IInv, FlagsOK, CountOK

(* rfc793_open *)
LEMMA OpenCallsOK ==
  ASSUME IInv, Open \/ OpenWakes \/ OpenJudges
  PROVE  IInv'
<1> USE TypesOfApp DEF TcpAt, In, appVars, endVars, tcpVars
<1>1. CASE Open
  <2>1. CASE /\ conn' = IF command = "tcp send" THEN "SynSent" ELSE "Listen"
             /\ data' = FALSE /\ chan' = <<>>
             /\ Go("app", "openwait")
    BY <1>1, <2>1, TcpStep DEF Open, AppGoes, Block!Stages
  <2>2. CASE Dies("app") /\ UNCHANGED tcpVars
    BY <1>1, <2>2, TcpStep DEF Open, AppGoes
  <2> QED
    BY <1>1, <2>1, <2>2 DEF Open
<1>2. CASE OpenWakes
  BY <1>2, HeadType, TcpStep DEF OpenWakes, Wakes, AppGoes
<1>3. CASE OpenJudges
  <2>1. PICK s \in {"send", "recv", "ended", "openwait"} : Go("app", s)
    BY <1>3 DEF OpenJudges
  <2>2. /\ conn' \in {conn, "Free"} /\ sock' \in {sock, TRUE}
        /\ UNCHANGED <<command, data, chan, sent, left, token, endVars>>
        /\ pc["app"] = "judge"
    BY <1>3 DEF OpenJudges
  <2> QED
    BY <2>1, <2>2, TcpStep DEF AppGoes, Block!Stages
<1> QED
  BY <1>1, <1>2, <1>3

(* send() *)
LEMMA SendCallsOK ==
  ASSUME IInv, Send \/ SendStores \/ SendReads \/ SendPuts \/ SendWakes
  PROVE  IInv'
<1> USE TypesOfApp DEF TcpAt, appVars, endVars, tcpVars
<1>1. CASE Send
  BY <1>1, TcpStep DEF Send, In, AppGoes
<1>2. CASE SendStores
  BY <1>2, TcpStep DEF SendStores, In, AppGoes
<1>3. CASE SendReads
  <2>1. /\ In("app", "sendread") /\ pc["app"] = "sendread"
        /\ UNCHANGED <<command, tcpVars, sock, token, endVars>>
        /\ sent' \in 0..2 /\ left' \in 0..MaxPuts
    BY <1>3, ChanAssumption DEF SendReads, SendReturns, In
  <2>2. \/ AppGoes("sendwait")
        \/ AppGoes("sendput")
        \/ AppGoes("dead")
        \/ AppGoes("recv")
    BY <1>3, <2>1 DEF SendReads, SendReturns, AppGoes
  <2> QED
    BY <2>1, <2>2, TcpStep
<1>4. CASE SendPuts
  <2>1. /\ In("app", "sendput") /\ pc["app"] = "sendput"
        /\ UNCHANGED <<command, tcpVars, sock, token, endVars>>
        /\ sent' \in 0..2 /\ left' \in 0..MaxPuts
    BY <1>4, ChanAssumption DEF SendPuts, SendReturns, In
  <2>2. \/ AppGoes("sendput")
        \/ AppGoes("dead")
        \/ AppGoes("recv")
    BY <1>4, <2>1 DEF SendPuts, SendReturns, AppGoes
  <2> QED
    BY <2>1, <2>2, TcpStep
<1>5. CASE SendWakes
  <2>1. /\ In("app", "sendwait") /\ pc["app"] = "sendwait"
        /\ chan # <<>> /\ chan' = Tail(chan)
        /\ UNCHANGED <<command, conn, data, sock, left, token, endVars>>
        /\ sent' \in {sent, 1}
    BY <1>5, HeadType DEF SendWakes, Wakes, SendReturns, In
  <2>2. AppGoes("sendread") \/ AppGoes("recv")
    BY <1>5, <2>1 DEF SendWakes, SendReturns, AppGoes
  <2> QED
    BY <2>1, <2>2, TcpStep
<1> QED
  BY <1>1, <1>2, <1>3, <1>4, <1>5

(* receive() *)
LEMMA ReceiveCallsOK ==
  ASSUME IInv, ReceiveStarts \/ ReceiveWakes \/ ReceiveReads \/ ReceiveCopies
  PROVE  IInv'
<1> USE TypesOfApp DEF TcpAt, appVars, endVars, tcpVars, In
<1>1. ReceiveTurn \in {"recvcopy", "recvwait", "check", "spin"}
  BY DEF ReceiveTurn
<1>2. CASE ReceiveStarts
  BY <1>1, <1>2, TcpStep DEF ReceiveStarts, AppGoes
<1>3. CASE ReceiveWakes
  BY <1>3, TcpStep DEF ReceiveWakes, Wakes, AppGoes
<1>4. CASE ReceiveReads
  BY <1>1, <1>4, TcpStep DEF ReceiveReads, AppGoes
<1>5. CASE ReceiveCopies
  <2>1. /\ pc["app"] = "recvcopy" /\ data' \in BOOLEAN
        /\ UNCHANGED <<command, conn, chan, appVars, endVars>>
        /\ AppGoes("check") \/ AppGoes("dead")
    BY <1>5 DEF ReceiveCopies, AppGoes
  <2> QED
    BY <2>1, TcpStep
<1> QED
  BY <1>2, <1>3, <1>4, <1>5

(* The UDP calls *)
LEMMA UdpCallsOK ==
  ASSUME IInv, UdpCalls
  PROVE  IInv'
<1> USE DEF UdpAt, TcpAt, AppAt, appVars, endVars, tcpVars
<1>1. ASSUME NEW s \in {"usend", "ustore", "uwait", "upop", "check", "dead"},
             AppGoes(s), pc["app"] \in UdpAt,
             \/ UNCHANGED chan
             \/ chan # <<>> /\ chan' = Tail(chan)
             \/ chan' = <<>>,
             UNCHANGED <<command, conn, data, token, endVars>>,
             sock' \in BOOLEAN, CountOK'
      PROVE  IInv'
  <2>1. ~Tcp
    BY <1>1 DEF IInv, PcOK
  <2>2. LockOK' /\ PcOK' /\ pc'["app"] = s /\ pc'["main"] = pc["main"]
    BY <1>1, <2>1, AppMoves
  <2>3. ChanOK'
    BY <1>1, <2>2, ChannelKept
  <2>4. FlagsOK'
    BY <1>1 DEF IInv, FlagsOK
  <2> QED
    BY <1>1, <2>2, <2>3, <2>4 DEF IInv
<1>2. /\ sock \in BOOLEAN /\ sent \in 0..2 /\ left \in 0..MaxPuts
      /\ pc["app"] \in UdpAt => ~Tcp
      /\ ~Tcp /\ left = 0 => sent = 0
  BY DEF IInv, FlagsOK, CountOK, PcOK
<1>3. ASSUME NEW s, AppGoes(s)
      PROVE  pc'["app"] = s
  BY <1>3 DEF AppGoes, Go, Dies, GoHolding, IInv, LockOK, Threads
<1>4. CASE UdpOpen
  <2>1. /\ pc["app"] = "uopen" /\ left' = 1 /\ left = 0
        /\ UNCHANGED <<command, tcpVars, sock, sent, token, endVars>>
    BY <1>4 DEF UdpOpen, In, IInv, CountOK
  <2>2. PICK s \in {"usend", "ustore"} : AppGoes(s)
    BY <1>4 DEF UdpOpen, AppGoes
  <2>3. sent' = 0 /\ pc'["app"] = s
    BY <1>2, <1>3, <2>1, <2>2
  <2>4. CountOK'
    BY <2>1, <2>2, <2>3, ChanAssumption DEF CountOK
  <2> QED
    BY <1>1, <1>2, <2>1, <2>2, <2>4
<1>5. CASE UdpSend
  <2>1. /\ pc["app"] = "usend" /\ sent < 2 /\ left # 0
        /\ sent' \in {sent, sent + 1}
        /\ UNCHANGED <<command, tcpVars, sock, left, token, endVars>>
    BY <1>2, <1>5 DEF UdpSend, In, IInv, CountOK
  <2>2. PICK s \in {"check", "dead"} : AppGoes(s)
    BY <1>5 DEF UdpSend, AppGoes
  <2>3. left' \in 0..MaxPuts /\ left' # 0 /\ sent' \in 0..2 /\ pc'["app"] = s
    BY <1>2, <1>3, <2>1, <2>2
  <2>4. CountOK'
    BY <2>2, <2>3 DEF CountOK
  <2> QED
    BY <1>1, <1>2, <2>1, <2>2, <2>4
<1>6. CASE UdpStores \/ UdpWakes \/ UdpPops
  <2>1. /\ UNCHANGED <<command, conn, data, token, endVars, sent, left>>
        /\ sock' \in BOOLEAN /\ pc["app"] \in UdpAt
        /\ \/ UNCHANGED chan
           \/ chan # <<>> /\ chan' = Tail(chan)
           \/ chan' = <<>>
    BY <1>2, <1>6 DEF UdpStores, UdpWakes, UdpPops, Wakes, In
  <2>2. PICK s \in {"uwait", "upop", "check"} : AppGoes(s)
    BY <1>6 DEF UdpStores, UdpWakes, UdpPops, AppGoes
  <2>3. CountOK'
    BY <1>2, <1>3, <2>1, <2>2 DEF CountOK, Tcp
  <2> QED
    BY <1>1, <2>1, <2>2, <2>3
<1> QED
  BY <1>4, <1>5, <1>6 DEF UdpCalls
-----------------------------------------------------------------------------

(* The first state: nobody holds anything. *)
LEMMA InitOK ==
  ASSUME Init
  PROVE  IInv
<1>1. \A t \in Threads : pc[t] \in Unlocked /\ got[t] = 0
  BY DEF Init, Threads, Unlocked
<1>2. LockOK
  <2>1. pc \in [Threads -> Places] /\ got \in [Threads -> Nat]
    BY <1>1, PlacesAre DEF Init, Threads, Unlocked
  <2>2. \A t \in Threads : Holds(t) = {}
    BY <1>1 DEF Holds
  <2>3. \A t \in Threads : got[t] <= Len(Order(pc[t]))
    BY <1>1, PlacesAre, EmptySeq
  <2> QED
    BY <2>1, <2>2, <2>3 DEF LockOK, Init
<1>3. PcOK
  BY DEF Init, PcOK, MainAt, RtxAt, AppAt, TcpAt, UdpAt
<1>4. CountOK
  BY ChanAssumption DEF Init, CountOK
<1>5. ChanOK
  <2>1. chan \in Seq(BOOLEAN) /\ Len(chan) = 0
    BY EmptySeq DEF Init
  <2> QED
    BY <2>1, ChanAssumption DEF ChanOK
<1>6. FlagsOK
  BY DEF Init, FlagsOK, Block!Stages
<1> QED
  BY <1>2, <1>3, <1>4, <1>5, <1>6 DEF IInv

(* A thread that finds the mutex poisoned dies, otherwise it stays where it *)
(* is.                                                                      *)
LEMMA AcquireOK ==
  ASSUME IInv, NEW t \in Threads, Acquire(t)
  PROVE  IInv'
<1>1. LockOK'
  BY AcquireLocks DEF IInv
<1>2. UNCHANGED <<command, tcpVars, appVars, endVars>>
  BY DEF Acquire
<1>3. pc' = pc \/ pc' = [pc EXCEPT ![t] = "dead"]
  BY DEF Acquire, Dies, GoHolding
<1>4. \A u \in Threads : pc'[u] \in {pc[u], "dead"}
  BY <1>3 DEF IInv, LockOK
<1>5. PcOK'
  BY <1>2, <1>4 DEF IInv, PcOK, MainAt, RtxAt, AppAt, TcpAt, UdpAt, Tcp, Threads
<1>6. CountOK'
  BY <1>2, <1>4 DEF IInv, CountOK, appVars, Tcp, Threads
<1>7. ChanOK'
  <2>1. pc["main"] \in {"join", "over", "dead"} => pc'["main"] \in {"join", "over", "dead"}
    BY <1>4 DEF Threads
  <2>2. Len(chan) \in Nat
    BY LenProperties DEF IInv, ChanOK
  <2> QED
    BY <1>2, <2>1, <2>2, ChanAssumption DEF IInv, ChanOK, tcpVars
<1>8. FlagsOK'
  BY <1>2 DEF IInv, FlagsOK, tcpVars, appVars, endVars
<1> QED
  BY <1>1, <1>5, <1>6, <1>7, <1>8 DEF IInv

(* Every step of every thread preserves the inductive invariant. *)
LEMMA NextOK ==
  ASSUME IInv, [Next]_vars
  PROVE  IInv'
<1>1. CASE UNCHANGED vars
  <2>1. \A t \in Threads : Holds(t)' = Holds(t)
    BY <1>1 DEF vars, Holds
  <2>2. LockOK'
    BY <1>1, <2>1 DEF vars, IInv, LockOK
  <2>3. PcOK' /\ CountOK' /\ ChanOK' /\ FlagsOK'
    BY <1>1 DEF vars, IInv, PcOK, CountOK, ChanOK, FlagsOK, Tcp
  <2> QED
    BY <2>2, <2>3 DEF IInv
<1>2. ASSUME NEW t \in Threads, Steps(t)
      PROVE  IInv'
  <2>1. CASE t = "main"
    <3>1. HandleIrq \/ HandledProtocol \/ Tell \/ CloseSockets \/ Join
      BY <1>2, <2>1 DEF Steps, MainSteps, Ending
    <3> QED
      BY <3>1, MainStepsOK, CloseSocketsOK
  <2>2. CASE t = "app"
    <3>1. AppSteps
      BY <1>2, <2>2 DEF Steps
    <3> QED
      BY <3>1, CheckOK, OpenCallsOK, SendCallsOK, ReceiveCallsOK, UdpCallsOK
         DEF AppSteps, TcpCalls
  <2>3. CASE t = "rtx"
    BY <1>2, <2>3, RtxStepsOK DEF Steps
  <2> QED
    BY <2>1, <2>2, <2>3 DEF Threads
<1> QED
  BY <1>1, <1>2, AcquireOK, HandlePacketOK, MainStepsOK DEF Next

-----------------------------------------------------------------------------
(* The end *)

(* A step of the main thread other than Tell and close_sockets. *)
LEMMA MainKeepsEnd ==
  ASSUME IInv, EndOK, NEW s \in MainAt \ {"close", "join"},
         Go("main", s) \/ Dies("main"), UNCHANGED tcpVars
  PROVE  EndOK'
<1>1. /\ pc'["main"] \notin {"close", "join"}
      /\ pc'["app"] = pc["app"] /\ got'["app"] = got["app"]
  BY DEF IInv, LockOK, Go, Dies, GoHolding, Threads
<1> QED
  BY <1>1 DEF EndOK, tcpVars

(* The signal loop and the joins; Tell gives the message before the main    *)
(* thread goes on to close the sockets.                                     *)
LEMMA MainStepsEnd ==
  ASSUME IInv, EndOK,
         \/ \E section \in {"irq", "protocol", "tell"} : Signal(section)
         \/ HandleIrq
         \/ HandledProtocol
         \/ Tell
         \/ Join
  PROVE  EndOK'
<1> USE DEF MainAt
<1>1. CASE \E section \in {"irq", "protocol", "tell"} : Signal(section)
  BY <1>1, MainKeepsEnd DEF Signal
<1>2. CASE HandleIrq
  BY <1>2, MainKeepsEnd DEF HandleIrq
<1>3. CASE HandledProtocol
  BY <1>3, MainKeepsEnd DEF HandledProtocol
<1>4. CASE Tell
  <2>1. CASE Go("main", "close") /\ told' = {"app", "rtx"}
    <3>1. /\ pc'["main"] = "close"
          /\ pc'["app"] = pc["app"] /\ got'["app"] = got["app"]
      BY <2>1 DEF IInv, LockOK, Go, GoHolding, Threads
    <3> QED
      BY <1>4, <2>1, <3>1 DEF EndOK, Tell, tcpVars
  <2>2. CASE Dies("main")
    BY <1>4, <2>2, MainKeepsEnd DEF Tell
  <2> QED
    BY <1>4, <2>1, <2>2 DEF Tell
<1>5. CASE Join
  BY <1>5, MainKeepsEnd DEF Join
<1> QED
  BY <1>1, <1>2, <1>3, <1>4, <1>5

(* A token for a call that listens. *)
LEMMA TokenArrives ==
  ASSUME NEW c \in Seq(BOOLEAN)
  PROVE  /\ c # <<>> => c \o Tokens(<<FALSE>>) # <<>>
         /\ Listening => c \o Tokens(<<FALSE>>) # <<>>
<1>1. /\ Len(c) \in Nat
      /\ c # <<>> => Len(c) # 0
  BY LenProperties, EmptySeq
<1>2. CASE Listening
  <2>1. Tokens(<<FALSE>>) = <<FALSE>>
    BY <1>2 DEF Tokens
  <2>2. Len(c \o Tokens(<<FALSE>>)) = Len(c) + 1
    BY <2>1, TokenSeqs, ConcatProperties
  <2> QED
    BY <1>1, <2>2, EmptySeq
<1>3. CASE ~Listening
  <2>1. Tokens(<<FALSE>>) = <<>>
    BY <1>3 DEF Tokens
  <2>2. Len(c \o Tokens(<<FALSE>>)) = Len(c)
    BY <1>1, <2>1, TokenSeqs, ConcatProperties
  <2> QED
    BY <1>1, <1>3, <2>2, EmptySeq
<1> QED
  BY <1>2, <1>3

(* close_sockets frees the block; a call that sleeps listens, and gets its  *)
(* token.                                                                   *)
LEMMA CloseSocketsEnd ==
  ASSUME IInv, EndOK, CloseSockets
  PROVE  EndOK'
<1>1. /\ pc["main"] = "close" /\ "app" \in told
      /\ UNCHANGED <<command, told>> /\ missed' = ~Listening
  BY DEF CloseSockets, In, EndOK
<1>2. CASE Dies("main") /\ UNCHANGED tcpVars
  BY <1>2, MainKeepsEnd DEF MainAt
<1>3. CASE /\ Go("main", "join")
           /\ Tcp => conn' = "Free"
           /\ conn' \in {conn, "Free"}
           /\ chan' = chan \o Tokens(<<FALSE>>)
  <2>1. /\ pc'["main"] = "join"
        /\ pc'["app"] = pc["app"] /\ got'["app"] = got["app"]
    BY <1>3 DEF IInv, LockOK, Go, GoHolding, Threads
  <2>2. Listening => chan' # <<>>
    BY <1>3, TokenArrives DEF IInv, ChanOK
  <2>3. pc["app"] \in {"openwait", "recvwait", "sendwait", "uwait"} => Listening
    BY DEF Listening
  <2>4. pc["app"] \in {"open", "uopen", "usend", "ustore"} => ~Listening
    BY DEF Listening
  <2>5. Tcp' <=> Tcp
    BY <1>1 DEF Tcp
  <2> QED
    BY <1>1, <1>3, <2>1, <2>2, <2>3, <2>4, <2>5 DEF EndOK
<1> QED
  BY <1>2, <1>3 DEF CloseSockets, Release

(* A packet comes before the end, and finds nothing at a free block. *)
LEMMA HandlePacketEnd ==
  ASSUME IInv, EndOK, HandlePacket
  PROVE  EndOK'
<1>1. pc["main"] = "protocol" /\ UNCHANGED <<pc, got>>
  BY DEF HandlePacket, In
<1>2. conn = "Free" => conn' = "Free"
  BY DEF HandlePacket, Segment, Release, Block!Arrivals
<1> QED
  BY <1>1, <1>2 DEF EndOK

(* The retransmission thread frees a block, which only adds a token. *)
LEMMA RtxStepsEnd ==
  ASSUME IInv, EndOK, RtxSteps
  PROVE  EndOK'
<1>1. /\ \/ \E s \in RtxAt : Go("rtx", s)
         \/ Dies("rtx")
      /\ UNCHANGED <<command, appVars, endVars>>
  BY DEF RtxSteps, RetransmitTurn, Retransmit, RtxAt
<1>2. /\ pc'["app"] = pc["app"] /\ got'["app"] = got["app"]
      /\ pc'["main"] = pc["main"]
  BY <1>1 DEF IInv, LockOK, Go, Dies, GoHolding, Threads
<1>3. /\ conn' \in {conn, "Free"}
      /\ chan # <<>> => chan' # <<>>
  <2>1. CASE UNCHANGED tcpVars
    BY <2>1 DEF tcpVars
  <2>2. CASE Release
    BY <2>2, TokenArrives DEF Release, IInv, ChanOK
  <2> QED
    BY <2>1, <2>2 DEF RtxSteps, RetransmitTurn, Retransmit
<1> QED
  BY <1>1, <1>2, <1>3 DEF EndOK, Tcp, endVars

(* A thread takes a mutex, or dies of a poisoned one. *)
LEMMA AcquireEnd ==
  ASSUME IInv, EndOK, NEW t \in Threads, Acquire(t)
  PROVE  EndOK'
<1>1. UNCHANGED <<command, tcpVars, endVars>>
  BY DEF Acquire
<1>2. /\ pc'["main"] \in {pc["main"], "dead"}
      /\ pc'["app"] \in {pc["app"], "dead"}
      /\ pc'["app"] = "dead" \/ got'["app"] \in {got["app"], got["app"] + 1}
  BY DEF Acquire, Dies, GoHolding, IInv, LockOK, Threads
<1>3. pc'["app"] \in SendKeeps => got'["app"] <= 3
  <2>1. got'["app"] <= Len(Order(pc'["app"]))
    BY AcquireLocks DEF IInv, LockOK, Threads
  <2>2. ASSUME NEW s \in SendKeeps
        PROVE  Len(Order(s)) \in {2, 3}
    <3>1. \/ Order(s) = <<"devices", "contexts">>
          \/ Order(s) = <<"devices", "contexts", "pcbs">>
      BY OrderOf DEF SendKeeps
    <3> QED
      BY <3>1
  <2>3. got'["app"] \in Nat
    BY AcquireLocks DEF IInv, LockOK, Threads
  <2>4. \A n \in Nat : n <= 2 \/ n <= 3 => n <= 3
    OBVIOUS
  <2> QED
    BY <2>1, <2>2, <2>3, <2>4
<1>4. pc'["app"] \in SendKeeps => got'["app"] \in {2, 3}
  BY <1>2, <1>3 DEF EndOK, SendKeeps
<1>5. pc'["app"] = "spin" => conn' = "Free"
  BY <1>1, <1>2 DEF EndOK, tcpVars
<1> QED
  BY <1>1, <1>2, <1>4, <1>5 DEF EndOK, Tcp, tcpVars, endVars

(* A step of the application: after close_sockets it falls asleep only if   *)
(* that call was not there for close_sockets to see.                        *)
LEMMA AppKeepsEnd ==
  ASSUME IInv, EndOK, NEW s \in AppAt, NEW k \in Nat,
         GoHolding("app", s, k), UNCHANGED <<command, endVars>>,
         s \in SendKeeps => k = 2,
         s = "spin" => conn' = "Free",
         pc["main"] = "join" =>
           /\ conn' \in {conn, "Free", "SynSent", "Listen"}
           /\ s \notin {"recvwait", "sendwait"}
           /\ ~missed => s \notin {"open", "uopen", "usend", "ustore",
                                   "openwait", "uwait"}
  PROVE  EndOK'
<1>1. pc'["app"] = s /\ got'["app"] = k /\ pc'["main"] = pc["main"]
  BY DEF IInv, LockOK, GoHolding, Threads
<1> QED
  BY <1>1 DEF EndOK, Tcp, endVars

(* The look for the message: after Tell it finds it. *)
LEMMA CheckEnd ==
  ASSUME IInv, EndOK, Check
  PROVE  EndOK'
<1>1. PICK s \in AppAt : /\ s = (IF ToldToEnd THEN "ended" ELSE NextTurn)
                         /\ GoHolding("app", s, 0)
  BY DEF Check, Go, AppAt, TcpAt, UdpAt, NextTurn
<1>2. s \notin SendKeeps \union {"spin"}
  BY <1>1 DEF NextTurn, SendKeeps
<1>3. pc["main"] = "join" => s = "ended"
  BY <1>1 DEF EndOK, ToldToEnd
<1>4. UNCHANGED <<command, conn, endVars>>
  BY DEF Check, tcpVars
<1> QED
  BY <1>1, <1>2, <1>3, <1>4, AppKeepsEnd

(* While the main thread joins, no connection is up. *)
LEMMA NoneUp ==
  ASSUME IInv, EndOK, pc["app"] \in TcpAt, pc["main"] = "join"
  PROVE  conn \in {"Free", "SynSent", "Listen"}
BY DEF IInv, PcOK, EndOK

(* rfc793_open goes back to sleep on a half open connection only. *)
LEMMA OpenCallsEnd ==
  ASSUME IInv, EndOK, Open \/ OpenWakes \/ OpenJudges
  PROVE  EndOK'
<1> USE DEF TcpAt, AppAt, SendKeeps, In, Go, Dies, tcpVars
<1>1. CASE Open
  <2>1. pc["app"] = "open" /\ UNCHANGED <<command, endVars>>
    BY <1>1 DEF Open
  <2>2. pc["main"] = "join" => missed
    BY <2>1 DEF EndOK
  <2>3. conn' \in {conn, "SynSent", "Listen"}
    BY <1>1 DEF Open
  <2>4. GoHolding("app", "openwait", 0) \/ GoHolding("app", "dead", 0)
    BY <1>1 DEF Open
  <2> QED
    BY <2>1, <2>2, <2>3, <2>4, AppKeepsEnd
<1>2. CASE OpenWakes
  BY <1>2, AppKeepsEnd DEF OpenWakes
<1>3. CASE OpenJudges
  <2>1. /\ pc["app"] = "judge" /\ UNCHANGED <<command, endVars>>
        /\ conn' \in {conn, "Free"}
    BY <1>3 DEF OpenJudges
  <2>2. PICK s \in {"send", "recv", "ended", "openwait"} :
          /\ GoHolding("app", s, 0)
          /\ s = "openwait" => conn = "SynReceived"
    BY <1>3 DEF OpenJudges
  <2>3. pc["main"] = "join" => s # "openwait"
    BY <2>1, <2>2, NoneUp
  <2> QED
    BY <2>1, <2>2, <2>3, AppKeepsEnd
<1> QED
  BY <1>1, <1>2, <1>3

(* send() sleeps on an open connection only. *)
LEMMA SendCallsEnd ==
  ASSUME IInv, EndOK, Send \/ SendStores \/ SendReads \/ SendPuts \/ SendWakes
  PROVE  EndOK'
<1>1. /\ pc["app"] \in TcpAt
      /\ UNCHANGED <<command, conn, endVars>>
  BY DEF Send, SendStores, SendReads, SendPuts, SendWakes, Wakes, In, TcpAt,
         tcpVars
<1>2. \/ \E s \in {"sendstore", "sendread", "sendput"} : GoHolding("app", s, 2)
      \/ \E s \in {"recv", "dead"} : GoHolding("app", s, 0)
      \/ /\ GoHolding("app", "sendwait", 2)
         /\ conn \in {"Established", "CloseWait"}
  BY DEF Send, SendStores, SendReads, SendPuts, SendWakes, SendReturns, Go, Dies
<1>3. CASE \E s \in {"sendstore", "sendread", "sendput"} : GoHolding("app", s, 2)
  BY <1>1, <1>3, AppKeepsEnd DEF AppAt, TcpAt, SendKeeps
<1>4. CASE \E s \in {"recv", "dead"} : GoHolding("app", s, 0)
  BY <1>1, <1>4, AppKeepsEnd DEF AppAt, TcpAt, SendKeeps
<1>5. CASE /\ GoHolding("app", "sendwait", 2)
           /\ conn \in {"Established", "CloseWait"}
  <2>1. pc["main"] # "join"
    BY <1>1, <1>5, NoneUp
  <2> QED
    BY <1>1, <1>5, <2>1, AppKeepsEnd DEF AppAt, TcpAt, SendKeeps
<1> QED
  BY <1>2, <1>3, <1>4, <1>5

(* receive() sleeps on an open connection only, and loops on a free one. *)
LEMMA ReceiveCallsEnd ==
  ASSUME IInv, EndOK,
         ReceiveStarts \/ ReceiveWakes \/ ReceiveReads \/ ReceiveCopies
  PROVE  EndOK'
<1>1. /\ pc["app"] \in TcpAt
      /\ UNCHANGED <<command, conn, endVars>>
  BY DEF ReceiveStarts, ReceiveWakes, ReceiveReads, ReceiveCopies, Wakes, In,
         TcpAt, tcpVars
<1>2. /\ ReceiveTurn \in {"recvcopy", "recvwait", "check", "spin"}
      /\ ReceiveTurn = "recvwait" => conn = "Established"
      /\ ReceiveTurn = "spin" => conn = "Free"
  BY DEF ReceiveTurn, IInv, FlagsOK, Block!Stages
<1>3. PICK s \in {ReceiveTurn, "recvread", "check", "dead"} :
        GoHolding("app", s, 0)
  BY DEF ReceiveStarts, ReceiveWakes, ReceiveReads, ReceiveCopies, Go, Dies
<1>4. pc["main"] = "join" => s # "recvwait"
  BY <1>1, <1>2, <1>3, NoneUp
<1>5. s \in {"recvcopy", "recvwait", "check", "spin", "recvread", "dead"}
  BY <1>2, <1>3
<1>6. s = "spin" => conn = "Free"
  BY <1>2, <1>3
<1> QED
  BY <1>1, <1>3, <1>4, <1>5, <1>6, AppKeepsEnd DEF AppAt, TcpAt, SendKeeps

(* A receive_from that close_sockets has not seen is one it has missed. *)
LEMMA UdpCallsEnd ==
  ASSUME IInv, EndOK, UdpCalls
  PROVE  EndOK'
<1>1. UNCHANGED <<command, conn, endVars>>
  BY DEF UdpCalls, UdpOpen, UdpSend, UdpStores, UdpWakes, UdpPops, tcpVars
<1>2. \/ /\ pc["app"] \in {"uopen", "usend", "ustore"}
         /\ \E s \in {"usend", "ustore", "uwait", "check", "dead"} :
              GoHolding("app", s, 0)
      \/ \E s \in {"upop", "check"} : GoHolding("app", s, 0)
  BY DEF UdpCalls, UdpOpen, UdpSend, UdpStores, UdpWakes, UdpPops, Wakes, In,
         Go, Dies
<1>3. pc["main"] = "join" /\ pc["app"] \in {"uopen", "usend", "ustore"} => missed
  BY DEF EndOK
<1> QED
  BY <1>1, <1>2, <1>3, AppKeepsEnd DEF AppAt, UdpAt, SendKeeps

(* Every step of every thread preserves what close_sockets has done. *)
LEMMA NextEnd ==
  ASSUME IInv, EndOK, [Next]_vars
  PROVE  EndOK'
<1>1. CASE UNCHANGED vars
  BY <1>1 DEF vars, EndOK, Tcp
<1>2. ASSUME NEW t \in Threads, Steps(t)
      PROVE  EndOK'
  <2>1. CASE t = "main"
    <3>1. HandleIrq \/ HandledProtocol \/ Tell \/ CloseSockets \/ Join
      BY <1>2, <2>1 DEF Steps, MainSteps, Ending
    <3> QED
      BY <3>1, MainStepsEnd, CloseSocketsEnd
  <2>2. CASE t = "app"
    <3>1. AppSteps
      BY <1>2, <2>2 DEF Steps
    <3> QED
      BY <3>1, CheckEnd, OpenCallsEnd, SendCallsEnd, ReceiveCallsEnd, UdpCallsEnd
         DEF AppSteps, TcpCalls
  <2>3. CASE t = "rtx"
    BY <1>2, <2>3, RtxStepsEnd DEF Steps
  <2> QED
    BY <2>1, <2>2, <2>3 DEF Threads
<1> QED
  BY <1>1, <1>2, AcquireEnd, HandlePacketEnd, MainStepsEnd DEF Next
-----------------------------------------------------------------------------
(* Who waits for whom *)

Blocked == {t \in Threads : \E m \in Wants(t) : ~Free(m)}

(* A thread that has stopped and waits for no mutex is in an unlocked       *)
(* place and holds none, or it is send() asleep with its two.               *)
LEMMA StoppedHolds ==
  ASSUME IInv, EndOK, NEW t \in Threads, Stopped(t), t \notin Blocked
  PROVE  \/ Holds(t) = {}
         \/ t = "app" /\ pc["app"] = "sendwait"
<1>1. ASSUME pc[t] \in Unlocked
      PROVE  Holds(t) = {}
  <2>1. got[t] \in Nat /\ got[t] <= Len(Order(pc[t]))
    BY DEF IInv, LockOK
  <2>2. Len(Order(pc[t])) = 0
    BY <1>1, PlacesAre, EmptySeq
  <2>3. 1..got[t] = {}
    BY <2>1, <2>2
  <2> QED
    BY <2>3 DEF Holds
<1>2. pc[t] \in Unlocked \/ pc[t] = "sendwait"
  BY DEF Stopped, Blocked, Unlocked
<1>3. pc[t] = "sendwait" => t = "app"
  BY DEF IInv, PcOK, MainAt, RtxAt, Threads
<1> QED
  BY <1>1, <1>2, <1>3

(* When all have stopped and one of them waits for a mutex, a thread holds  *)
(* pcbs and wants devices, or send() sleeps with the devices that a thread  *)
(* wants.                                                                   *)
LEMMA BlockedReversed ==
  ASSUME IInv, EndOK, Stuck, Blocked # {}
  PROVE  \E t \in Threads :
           Wants(t) = {"devices"} /\ ("pcbs" \in Holds(t) \/ pc["app"] = "sendwait")
<1>1. CASE Deadlocked(Blocked)
  <2>1. Blocked \in SUBSET Threads
    BY DEF Blocked
  <2>2. \E t \in Blocked : "pcbs" \in Holds(t) /\ Wants(t) = {"devices"}
    BY <1>1, <2>1, ReversalNeeded DEF DeadlockNeedsReversal, IInv
  <2> QED
    BY <2>1, <2>2
<1>2. CASE ~Deadlocked(Blocked)
  <2>1. PICK t \in Blocked : \A u \in Blocked : Wants(t) \intersect Holds(u) = {}
    BY <1>2 DEF Deadlocked
  <2>2. PICK m \in Wants(t), u \in Threads : m \in Holds(u)
    BY <2>1 DEF Blocked, Free
  <2>3. u \notin Blocked
    BY <2>1, <2>2
  <2>4. u = "app" /\ pc["app"] = "sendwait"
    BY <2>2, <2>3, StoppedHolds DEF Stuck
  <2>5. t \in Threads /\ t # u
    BY <2>1, <2>3 DEF Blocked
  <2>6. Order("sendwait") = <<"devices", "contexts">>
    BY OrderOf
  <2>7. got["app"] = 2
    <3>1. got["app"] <= Len(Order("sendwait"))
      BY <2>4 DEF IInv, LockOK, Threads
    <3>2. got["app"] \in {2, 3}
      BY <2>4 DEF EndOK, SendKeeps
    <3>3. Len(Order("sendwait")) = 2
      BY <2>6
    <3>4. ~(3 <= 2)
      OBVIOUS
    <3> QED
      BY <3>1, <3>2, <3>3, <3>4, Zenon
  <2>8. Holds("app") = {"devices", "contexts"}
    <3>1. 1..2 = {1, 2}
      OBVIOUS
    <3> QED
      BY <2>4, <2>6, <2>7, <3>1 DEF Holds
  <2>9. m # "contexts"
    <3> SUFFICES ASSUME m = "contexts"
                 PROVE  FALSE
      OBVIOUS
    <3>1. "devices" \in Holds(t)
      BY <2>2, <2>5, ThreadsOrdered DEF IInv
    <3> QED
      BY <2>4, <2>5, <2>8, <3>1 DEF IInv, LockOK, Threads
  <2>10. Wants(t) = {"devices"}
    BY <2>2, <2>4, <2>5, <2>8, <2>9, ThreadsOrdered DEF IInv
  <2> QED
    BY <2>4, <2>5, <2>10
<1> QED
  BY <1>1, <1>2

(* When all have stopped and none waits for a mutex, the main thread waits  *)
(* in its joins for the application, which loops in receive() or sleeps on  *)
(* an empty channel.                                                        *)
LEMMA UnblockedJoins ==
  ASSUME IInv, EndOK, Stuck, Blocked = {}, ~Over, pc["main"] # "signals"
  PROVE  /\ pc["main"] = "join"
         /\ \/ pc["app"] = "spin"
            \/ /\ pc["app"] \in {"openwait", "sendwait", "recvwait", "uwait"}
               /\ chan = <<>>
<1>1. /\ pc["main"] \in MainAt /\ pc["rtx"] \in RtxAt /\ pc["app"] \in AppAt
  BY DEF IInv, PcOK
<1>2. \A t \in Threads : Stopped(t) /\ ~(\E m \in Wants(t) : ~Free(m))
  BY DEF Stuck, Blocked
<1>3. pc["main"] = "join" /\ pc["app"] # "dead" /\ (Alive("app") \/ Alive("rtx"))
  BY <1>1, <1>2 DEF Stopped, MainAt, Over, Threads
<1>4. ~Alive("rtx")
  BY <1>1, <1>2 DEF Stopped, RtxAt, Alive, Threads
<1> QED
  BY <1>1, <1>2, <1>3, <1>4 DEF Stopped, Alive, AppAt, TcpAt, UdpAt, Threads

-----------------------------------------------------------------------------
(* Theorems *)

(* The inductive invariant holds in every reachable state. *)
THEOREM Invariance == Spec => []IInv
<1>1. Init => IInv
  BY InitOK
<1>2. IInv /\ [Next]_vars => IInv'
  BY NextOK
<1> QED
  BY <1>1, <1>2, PTL DEF Spec

(* The types of the threads' state; in particular the mutexes exclude each  *)
(* other although send() keeps some across its critical sections, and the   *)
(* channel stays within three tokens of the bound on packets.               *)
THEOREM TypeCorrect == Spec => []TypeOK
<1>1. IInv => TypeOK
  <2> SUFFICES ASSUME IInv
               PROVE  TypeOK
    OBVIOUS
  <2>1. /\ pc \in [Threads -> DOMAIN Sections \union Unlocked]
        /\ \A t, u \in Threads : t # u => Holds(t) \intersect Holds(u) = {}
        /\ poisoned \subseteq Mutexes
    BY DEF IInv, LockOK, Places
  <2>2. ASSUME NEW t \in Threads
        PROVE  got[t] \in 0..Len(Order(pc[t]))
    <3>1. pc[t] \in Places /\ got[t] \in Nat /\ got[t] <= Len(Order(pc[t]))
      BY DEF IInv, LockOK
    <3>2. Len(Order(pc[t])) \in Nat
      BY <3>1, OrderOf, PlacesAre, EmptySeq
    <3> QED
      BY <3>1, <3>2
  <2>3. chan \in Seq(BOOLEAN) /\ Len(chan) <= MaxChan + 3
    BY LenProperties, ChanAssumption DEF IInv, ChanOK
  <2> QED
    BY <2>1, <2>2, <2>3 DEF TypeOK, IInv, FlagsOK, CountOK
<1> QED
  BY <1>1, Invariance, PTL

(* Whatever the command and the interleaving, threads that wait for each    *)
(* other's mutexes have one that holds pcbs and wants devices: the order of *)
(* rfc793_open and of the retransmission thread is the only one that can    *)
(* deadlock.                                                                *)
THEOREM DeadlocksNeedReversal == Spec => []DeadlockNeedsReversal
<1>1. IInv => DeadlockNeedsReversal
  BY ReversalNeeded DEF IInv
<1> QED
  BY <1>1, Invariance, PTL
(* What close_sockets does for the threads it leaves behind. *)
THEOREM EndInvariance == Spec => []EndOK
<1>1. Init => EndOK
  BY DEF Init, EndOK, SendKeeps
<1>2. IInv /\ EndOK /\ [Next]_vars => EndOK'
  BY NextEnd
<1> QED
  BY <1>1, <1>2, Invariance, PTL DEF Spec

(* Whatever the command, the interleaving and the bound on tokens, a hang   *)
(* outside the signal loop is one of three: receive() looping on a freed    *)
(* block, a call that close_sockets came too early for, or a thread that    *)
(* waits for devices while pcbs is in its hands or send() sleeps.           *)
THEOREM HangsKnown == Spec => []HangsAreKnown
<1>1. IInv /\ EndOK => HangsAreKnown
  <2> SUFFICES ASSUME IInv, EndOK, ~Over, pc["main"] # "signals", Stuck
               PROVE  \/ pc["main"] = "join" /\ pc["app"] = "spin" /\ conn = "Free"
                      \/ /\ pc["main"] = "join" /\ missed
                         /\ pc["app"] \in {"openwait", "uwait"}
                      \/ \E t \in Threads :
                           /\ Wants(t) = {"devices"}
                           /\ "pcbs" \in Holds(t) \/ pc["app"] = "sendwait"
    BY DEF HangsAreKnown
  <2>1. CASE Blocked # {}
    BY <2>1, BlockedReversed
  <2>2. CASE Blocked = {}
    <3>1. /\ pc["main"] = "join"
          /\ \/ pc["app"] = "spin"
             \/ /\ pc["app"] \in {"openwait", "sendwait", "recvwait", "uwait"}
                /\ chan = <<>>
      BY <2>2, UnblockedJoins
    <3>2. missed \in BOOLEAN
      BY DEF IInv, FlagsOK
    <3> QED
      BY <3>1, <3>2 DEF EndOK
  <2> QED
    BY <2>1, <2>2
<1> QED
  BY <1>1, Invariance, EndInvariance, PTL
=============================================================================
