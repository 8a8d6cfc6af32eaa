------------------------------ MODULE Threads ------------------------------
(***************************************************************************)
(* The threads of the program at the granularity of its mutexes: the main   *)
(* thread of main.rs, which handles the signals, the application thread of  *)
(* one of the four commands of app.rs, and the retransmission thread.       *)
(*                                                                          *)
(* devices, protocols, contexts and pcbs are Mutexes: a thread takes them   *)
(* one by one in the order of the code, and lock().unwrap() panics when     *)
(* another thread has panicked with the mutex in its hands.  Of TCP there   *)
(* is one control block, in the states of module TcpLifecycle; modules Tcp, *)
(* Udp and Net say what happens inside a critical section.                  *)
(***************************************************************************)
EXTENDS Integers, Sequences, FiniteSets

CONSTANTS
  Commands,  \* of the four subcommands, those that are run
  MaxChan,   \* bound on the tokens in a channel
  MaxPuts    \* bound on the segments of one send()

ASSUME CommandAssumption ==
  Commands \subseteq {"tcp send", "tcp receive", "udp send", "udp receive"}
ASSUME ChanAssumption == MaxChan \in Nat /\ MaxPuts \in Nat \ {0}

VARIABLES
  pc,        \* the section of code each thread is in
  got,       \* how many mutexes of that section it has taken
  poisoned,  \* the mutexes that a panicking thread has held
  command,   \* the subcommand
  conn,      \* the state of the TCP control block
  data,      \* its receive window is smaller than the buffer
  chan,      \* the channel of the call the application is in
  sock,      \* sock_opt is set (in UDP: a receive has left its sender)
  sent,      \* request_sent, sent_count
  left,      \* segments that send() has still to put out
  token,     \* what rfc793_open has received
  told,      \* the threads that have the message to end
  missed     \* close_sockets found no call that waits for its token

vars == <<pc, got, poisoned, command, conn, data, chan, sock, sent, left,
          token, told, missed>>
endVars == <<told, missed>>
tcpVars == <<conn, data, chan>>
appVars == <<sock, sent, left, token>>

Threads == {"main", "app", "rtx"}
Mutexes == {"devices", "protocols", "contexts", "pcbs"}

(* Mutant: handle_protocol begins with the contexts. *)
ContextsFirst == <<"contexts", "devices", "protocols", "pcbs">>

HandleProtocolOrder == <<"devices", "protocols", "contexts", "pcbs">>

(* The mutexes of a section in the order in which they are taken.  send()   *)
(* takes pcbs several times under the devices and contexts of its caller    *)
(* and sleeps with those two.                                               *)
Sections ==
  [irq |-> <<"devices", "protocols">>,
   protocol |-> HandleProtocolOrder,
   close |-> <<"pcbs">>,
   retransmit |-> <<"pcbs", "devices", "contexts">>,
   open |-> <<"pcbs", "devices", "contexts">>,
   judge |-> <<"pcbs">>,
   send |-> <<"devices", "contexts">>,
   sendstore |-> <<"devices", "contexts", "pcbs">>,
   sendread |-> <<"devices", "contexts", "pcbs">>,
   sendwait |-> <<"devices", "contexts">>,
   sendput |-> <<"devices", "contexts", "pcbs">>,
   recv |-> <<"pcbs">>,
   recvread |-> <<"pcbs">>,
   recvcopy |-> <<"pcbs">>,
   uopen |-> <<"pcbs">>,
   usend |-> <<"devices", "contexts", "pcbs">>,
   ustore |-> <<"pcbs">>,
   upop |-> <<"pcbs">>]
Unlocked == {"signals", "tell", "join", "sleep", "check", "openwait",
             "recvwait", "uwait", "spin", "ended", "dead", "over"}
Order(section) ==
  IF section \in DOMAIN Sections THEN Sections[section] ELSE <<>>

Holds(t) == {Order(pc[t])[i] : i \in 1..got[t]}
Wants(t) == {Order(pc[t])[i] : i \in {got[t] + 1} \intersect DOMAIN Order(pc[t])}
Free(mutex) == \A t \in Threads : mutex \notin Holds(t)

Tcp == command \in {"tcp send", "tcp receive"}

Init ==
  /\ pc = [main |-> "signals", app |-> "check", rtx |-> "sleep"]
  /\ got = [t \in Threads |-> 0]
  /\ poisoned = {} /\ told = {}
  /\ command \in Commands
  /\ conn = "Free" /\ data = FALSE /\ chan = <<>>
  /\ sock = FALSE /\ sent = 0 /\ left = 0 /\ token = FALSE
  /\ missed = FALSE

(* The main thread returns from main() or panics. *)
Over == pc["main"] \in {"over", "dead"}

-----------------------------------------------------------------------------
(* Moving on *)

(* t goes on to a section of which it holds the first keep mutexes. *)
GoHolding(t, section, keep) ==
  /\ pc' = [pc EXCEPT ![t] = section]
  /\ got' = [got EXCEPT ![t] = keep]
Go(t, section) == GoHolding(t, section, 0) /\ UNCHANGED poisoned

Dies(t) ==
  /\ GoHolding(t, "dead", 0)
  /\ poisoned' = poisoned \union Holds(t)

(* t is in a section and has all its mutexes. *)
In(t, section) ==
  /\ ~Over /\ pc[t] = section
  /\ got[t] = Len(Order(section))

Acquire(t) ==
  /\ ~Over
  /\ \E mutex \in Wants(t) :
       /\ Free(mutex)
       /\ IF mutex \in poisoned THEN Dies(t)
          ELSE /\ got' = [got EXCEPT ![t] = @ + 1]
               /\ UNCHANGED <<pc, poisoned>>
  /\ UNCHANGED <<command, tcpVars, appVars, endVars>>

(* Between the critical section that stores its sender and its return, a    *)
(* call gets the tokens sent through the block.                             *)
Listening ==
  pc["app"] \in {"openwait", "judge", "sendread", "sendwait", "sendput",
                 "recvwait", "recvread", "recvcopy", "uwait", "upop"}
Tokens(tokens) == IF Listening THEN tokens ELSE <<>>

(* Mutant: the block is freed without a word to its call. *)
ReleaseSilently == conn' = "Free" /\ UNCHANGED <<data, chan>>

Release ==
  /\ conn' = "Free"
  /\ chan' = chan \o Tokens(<<FALSE>>)
  /\ UNCHANGED data

-----------------------------------------------------------------------------
(* The main thread: signals *)

Block == INSTANCE TcpLifecycle WITH
  Blocks <- {0}, st <- [p \in {0} |-> conn], sock <- [p \in {0} |-> FALSE],
  up <- pc["main"] \notin {"tell", "close", "join", "over", "dead"}

Signal(section) ==
  /\ In("main", "signals")
  /\ Go("main", section)
  /\ UNCHANGED <<command, tcpVars, appVars, endVars>>

(* handle_irq reads a frame, or panics on a short one. *)
HandleIrq ==
  /\ In("main", "irq")
  /\ Go("main", "signals") \/ Dies("main")
  /\ UNCHANGED <<command, tcpVars, appVars, endVars>>

(* What a segment does to the connection, and the tokens it sends. *)
Segment ==
  \/ \E s \in Block!Stages :
       /\ <<conn, s>> \in Block!Arrivals
       /\ conn' = s
       /\ chan' = chan \o Tokens(
            CASE s = "SynReceived" -> <<>>
              [] s = "Established" -> <<TRUE>>
              [] s = "CloseWait" ->
                   IF conn = "SynReceived" THEN <<TRUE, TRUE>> ELSE <<TRUE>>)
       /\ data' = (data /\ s # "SynReceived")
  \/ /\ conn = "Established" /\ data' = TRUE
     /\ chan' = chan \o Tokens(<<TRUE>>)
     /\ UNCHANGED conn
  \/ conn \notin {"Free", "Listen"} /\ Release

(* handle_protocol: packets one after the other, all mutexes held.  Each    *)
(* may end the process.                                                     *)
HandlePacket ==
  /\ In("main", "protocol") /\ Len(chan) < MaxChan
  /\ \/ Tcp /\ Segment
     \/ ~Tcp /\ Listening /\ chan' = Append(chan, TRUE) /\ UNCHANGED <<conn, data>>
  /\ UNCHANGED <<pc, got, poisoned, command, appVars, endVars>>

HandledProtocol ==
  /\ In("main", "protocol")
  /\ Go("main", "signals") \/ Dies("main")
  /\ UNCHANGED <<command, tcpVars, appVars, endVars>>

-----------------------------------------------------------------------------
(* The main thread: the end *)

Alive(t) == pc[t] \notin {"ended", "dead"}

(* send(()).unwrap() fails when the thread's receiver is gone. *)
Tell ==
  /\ In("main", "tell")
  /\ IF Alive("app") /\ Alive("rtx")
     THEN Go("main", "close") /\ told' = {"app", "rtx"}
     ELSE Dies("main") /\ told' = {"app"} \ {t \in Threads : ~Alive(t)}
  /\ UNCHANGED <<command, tcpVars, appVars, missed>>

(* The UDP blocks come first; a sender whose receiver is gone panics. *)
CloseSockets ==
  /\ In("main", "close")
  /\ \/ /\ Tcp /\ Release
        /\ Go("main", "join")
     \/ /\ ~Tcp /\ (sock => Listening)
        /\ chan' = chan \o Tokens(<<FALSE>>)
        /\ Go("main", "join")
        /\ UNCHANGED <<conn, data>>
     \/ /\ ~Tcp /\ sock /\ ~Listening
        /\ Dies("main")
        /\ UNCHANGED tcpVars
  /\ missed' = ~Listening
  /\ UNCHANGED <<command, appVars, told>>

(* join().unwrap(), of the application first. *)
Join ==
  /\ In("main", "join")
  /\ \/ pc["app"] = "ended" /\ pc["rtx"] = "ended" /\ Go("main", "over")
     \/ pc["app"] = "dead" /\ Dies("main")
     \/ pc["app"] = "ended" /\ pc["rtx"] = "dead" /\ Dies("main")
  /\ UNCHANGED <<command, tcpVars, appVars, endVars>>

-----------------------------------------------------------------------------
(* The retransmission thread *)

RetransmitTurn ==
  /\ In("rtx", "sleep")
  /\ Go("rtx", IF "rtx" \in told THEN "ended" ELSE "retransmit")
  /\ UNCHANGED <<command, tcpVars, appVars, endVars>>

(* A segment that has waited too long releases the block. *)
Retransmit ==
  /\ In("rtx", "retransmit")
  /\ \/ Go("rtx", "sleep") /\ UNCHANGED tcpVars
     \/ /\ Tcp /\ conn \notin {"Free", "Listen"} /\ Release
        /\ Go("rtx", "sleep")
     \/ Dies("rtx") /\ UNCHANGED tcpVars
  /\ UNCHANGED <<command, appVars, endVars>>

-----------------------------------------------------------------------------
(* The application thread *)

(* Mutant: the message is looked for only before there is a socket. *)
ToldUnopened == "app" \in told /\ ~sock

ToldToEnd == "app" \in told

(* Mutant: the datagram is sent three times. *)
ThirdSend ==
  CASE Tcp /\ ~sock -> "open"
    [] Tcp /\ sock -> IF command = "tcp send" /\ sent = 0 THEN "send" ELSE "recv"
    [] ~Tcp /\ left = 0 -> "uopen"
    [] OTHER -> IF command = "udp send" /\ sent <= 2 THEN "usend" ELSE "ustore"

NextTurn ==
  CASE Tcp /\ ~sock -> "open"
    [] Tcp /\ sock -> IF command = "tcp send" /\ sent = 0 THEN "send" ELSE "recv"
    [] ~Tcp /\ left = 0 -> "uopen"
    [] OTHER -> IF command = "udp send" /\ sent < 2 THEN "usend" ELSE "ustore"

Check ==
  /\ In("app", "check")
  /\ Go("app", IF ToldToEnd THEN "ended" ELSE NextTurn)
  /\ UNCHANGED <<command, tcpVars, appVars, endVars>>

(* rfc793_open.  ip::output may refuse the SYN. *)
Open ==
  /\ In("app", "open")
  /\ \/ /\ conn' = IF command = "tcp send" THEN "SynSent" ELSE "Listen"
        /\ data' = FALSE /\ chan' = <<>>
        /\ Go("app", "openwait")
     \/ /\ command = "tcp send" /\ Dies("app")
        /\ UNCHANGED tcpVars
  /\ UNCHANGED <<command, appVars, endVars>>

(* recv() in a section that sleeps on the channel. *)
Wakes(section) == In("app", section) /\ chan # <<>> /\ chan' = Tail(chan)

OpenWakes ==
  /\ Wakes("openwait") /\ token' = Head(chan)
  /\ Go("app", "judge")
  /\ UNCHANGED <<command, conn, data, sock, sent, left, endVars>>

(* The send command goes on without a socket, the receive command ends. *)
OpenJudges ==
  /\ In("app", "judge")
  /\ \/ /\ conn = "Established"
        /\ sock' = TRUE
        /\ Go("app", IF command = "tcp send" THEN "send" ELSE "recv")
        /\ UNCHANGED conn
     \/ /\ conn # "Established" /\ (token => conn # "SynReceived")
        /\ conn' = "Free"
        /\ Go("app", IF command = "tcp send" THEN "send" ELSE "ended")
        /\ UNCHANGED sock
     \/ /\ conn = "SynReceived" /\ token
        /\ Go("app", "openwait")
        /\ UNCHANGED <<conn, sock>>
  /\ UNCHANGED <<command, data, chan, sent, left, token, endVars>>

(* sock_opt.unwrap() with the devices and contexts in hand. *)
Send ==
  /\ In("app", "send")
  /\ IF sock THEN GoHolding("app", "sendstore", 2) /\ UNCHANGED poisoned
     ELSE Dies("app")
  /\ UNCHANGED <<command, tcpVars, appVars, endVars>>

SendStores ==
  /\ In("app", "sendstore")
  /\ chan' = <<>>
  /\ GoHolding("app", "sendread", 2)
  /\ UNCHANGED <<poisoned, command, conn, data, appVars, endVars>>

SendReturns == Go("app", "recv") /\ sent' = 1

(* The window may be full, or there is room; the state is not read again.   *)
(* More in flight than the window holds is a panic.  send() returns when    *)
(* there is no connection, or nothing to send.                              *)
SendReads ==
  /\ In("app", "sendread")
  /\ \/ /\ conn \in {"Established", "CloseWait"}
        /\ \/ GoHolding("app", "sendwait", 2) /\ UNCHANGED <<left, poisoned>>
           \/ /\ left' \in 1..MaxPuts
              /\ GoHolding("app", "sendput", 2) /\ UNCHANGED poisoned
           \/ Dies("app") /\ UNCHANGED left
        /\ UNCHANGED sent
     \/ SendReturns /\ UNCHANGED left
  /\ UNCHANGED <<command, tcpVars, sock, token, endVars>>

(* A segment that does not fit into the frame is a panic. *)
SendPuts ==
  /\ In("app", "sendput")
  /\ \/ /\ left > 1 /\ left' = left - 1
        /\ GoHolding("app", "sendput", 2)
        /\ UNCHANGED <<sent, poisoned>>
     \/ left = 1 /\ left' = 0 /\ SendReturns
     \/ Dies("app") /\ UNCHANGED <<sent, left>>
  /\ UNCHANGED <<command, tcpVars, sock, token, endVars>>

SendWakes ==
  /\ Wakes("sendwait")
  /\ IF Head(chan)
     THEN GoHolding("app", "sendread", 2) /\ UNCHANGED <<sent, poisoned>>
     ELSE SendReturns
  /\ UNCHANGED <<command, conn, data, sock, left, token, endVars>>

(* What receive() does with the state and window it has read; a block that  *)
(* is free keeps it busy without looking again.                             *)
ReceiveTurn ==
  CASE conn = "Established" -> IF data THEN "recvcopy" ELSE "recvwait"
    [] conn = "CloseWait" -> "recvcopy"
    [] conn \in {"Closed", "Listen", "SynSent", "SynReceived"} -> "check"
    [] OTHER -> "spin"

ReceiveStarts ==
  /\ In("app", "recv")
  /\ chan' = <<>>
  /\ Go("app", ReceiveTurn)
  /\ UNCHANGED <<command, conn, data, appVars, endVars>>

ReceiveWakes ==
  /\ Wakes("recvwait")
  /\ Go("app", IF Head(chan) THEN "recvread" ELSE "check")
  /\ UNCHANGED <<command, conn, data, appVars, endVars>>

ReceiveReads ==
  /\ In("app", "recvread")
  /\ Go("app", ReceiveTurn)
  /\ UNCHANGED <<command, tcpVars, appVars, endVars>>

(* Not all that is there need fit into the caller's buffer; a window that   *)
(* grows over its type is a panic.                                          *)
ReceiveCopies ==
  /\ In("app", "recvcopy")
  /\ \/ Go("app", "check") /\ data' \in {FALSE, data}
     \/ Dies("app") /\ UNCHANGED data
  /\ UNCHANGED <<command, conn, chan, appVars, endVars>>

(* The UDP commands; left = 1 says that soc_opt is set. *)
UdpOpen ==
  /\ In("app", "uopen")
  /\ left' = 1
  /\ Go("app", IF command = "udp send" THEN "usend" ELSE "ustore")
  /\ UNCHANGED <<command, tcpVars, sock, sent, token, endVars>>

UdpSend ==
  /\ In("app", "usend")
  /\ \/ Go("app", "check") /\ sent' = sent + 1
     \/ Dies("app") /\ UNCHANGED sent
  /\ UNCHANGED <<command, tcpVars, sock, left, token, endVars>>

UdpStores ==
  /\ In("app", "ustore")
  /\ chan' = <<>> /\ sock' = TRUE
  /\ Go("app", "uwait")
  /\ UNCHANGED <<command, conn, data, sent, left, token, endVars>>

UdpWakes ==
  /\ Wakes("uwait")
  /\ Go("app", IF Head(chan) THEN "upop" ELSE "check")
  /\ UNCHANGED <<command, conn, data, appVars, endVars>>

UdpPops ==
  /\ In("app", "upop")
  /\ Go("app", "check")
  /\ UNCHANGED <<command, tcpVars, appVars, endVars>>

-----------------------------------------------------------------------------

Ending == Tell \/ CloseSockets \/ Join
MainSteps == HandleIrq \/ HandledProtocol \/ Ending
RtxSteps == RetransmitTurn \/ Retransmit
TcpCalls ==
  \/ Open \/ OpenWakes \/ OpenJudges
  \/ Send \/ SendStores \/ SendReads \/ SendPuts \/ SendWakes
  \/ ReceiveStarts \/ ReceiveWakes \/ ReceiveReads \/ ReceiveCopies
UdpCalls == UdpOpen \/ UdpSend \/ UdpStores \/ UdpWakes \/ UdpPops
AppSteps == Check \/ TcpCalls \/ UdpCalls

Steps(t) ==
  CASE t = "main" -> MainSteps
    [] t = "app" -> AppSteps
    [] t = "rtx" -> RtxSteps

Next ==
  \/ \E section \in {"irq", "protocol", "tell"} : Signal(section)
  \/ HandlePacket
  \/ \E t \in Threads : Acquire(t) \/ Steps(t)

(* Every thread that can go on does; signals need not come. *)
Spec == /\ Init /\ [][Next]_vars
        /\ \A t \in Threads : WF_vars(Acquire(t)) /\ WF_vars(Steps(t))

(* A thread that finds a mutex free again and again gets it. *)
FairSpec == Spec /\ \A t \in Threads : SF_vars(Acquire(t))

-----------------------------------------------------------------------------
(* Invariants *)

TypeOK ==
  /\ pc \in [Threads -> DOMAIN Sections \union Unlocked]
  /\ \A t \in Threads : got[t] \in 0..Len(Order(pc[t]))
  /\ \A t, u \in Threads : t # u => Holds(t) \intersect Holds(u) = {}
  /\ poisoned \subseteq Mutexes /\ told \subseteq {"app", "rtx"}
  /\ command \in Commands
  /\ conn \in Block!Stages /\ data \in BOOLEAN
  /\ chan \in Seq(BOOLEAN) /\ Len(chan) <= MaxChan + 3
  /\ sock \in BOOLEAN /\ sent \in 0..2 /\ left \in 0..MaxPuts
  /\ token \in BOOLEAN /\ missed \in BOOLEAN

(* The threads of a set wait for each other's mutexes. *)
Deadlocked(set) ==
  /\ set # {}
  /\ \A t \in set : \E u \in set : Wants(t) \intersect Holds(u) # {}

(* Whatever the command, threads deadlock over the mutexes in one way only: *)
(* one of them, rfc793_open or the retransmission thread, holds pcbs and    *)
(* wants devices.  If these two took pcbs after devices and contexts, as    *)
(* handle_protocol, tcp_send_command and udp_send_command do, no order of   *)
(* events would deadlock.                                                   *)
DeadlockNeedsReversal ==
  \A set \in SUBSET Threads :
    Deadlocked(set) =>
      \E t \in set : "pcbs" \in Holds(t) /\ Wants(t) = {"devices"}

(* A thread does not go on: it waits for a mutex, for a token, for a thread *)
(* that it joins or for a signal, loops in receive(), or is gone.  In every *)
(* other place one of the actions above lets it go on.                      *)
Stopped(t) ==
  \/ \E mutex \in Wants(t) : ~Free(mutex)
  \/ pc[t] \in {"signals", "spin", "ended", "dead", "over"}
  \/ pc[t] \in {"openwait", "sendwait", "recvwait", "uwait"} /\ chan = <<>>
  \/ pc[t] = "join" /\ pc["app"] # "dead" /\ (Alive("app") \/ Alive("rtx"))

Stuck == \A t \in Threads : Stopped(t)

(* The process hangs in three ways only.  After a TERM signal: the          *)
(* application loops in receive() on a block that has been freed, or it was *)
(* between its check for the message and its next call when close_sockets   *)
(* ran, so that nobody wakes that call.  At any time: a thread wants        *)
(* devices and holds pcbs, or send() sleeps with devices.  No call that     *)
(* sleeps is forgotten by close_sockets.                                    *)
HangsAreKnown ==
  ~Over /\ pc["main"] # "signals" /\ Stuck =>
    \/ pc["main"] = "join" /\ pc["app"] = "spin" /\ conn = "Free"
    \/ pc["main"] = "join" /\ pc["app"] \in {"openwait", "uwait"} /\ missed
    \/ \E t \in Threads :
         Wants(t) = {"devices"} /\ ("pcbs" \in Holds(t) \/ pc["app"] = "sendwait")

-----------------------------------------------------------------------------
(* Temporal properties *)

(* A call that sleeps without a mutex and with an empty channel when the    *)
(* application has been told to end does not keep the process from ending:  *)
(* close_sockets gets at the block and wakes it up.                         *)
SleeperEnds ==
  (pc["main"] = "close" /\ pc["app"] \in {"openwait", "recvwait", "uwait"}
     /\ chan = <<>>)
  ~> Over

(* "transmit check interval: 100ms" (tcp_transmit_thread): until the        *)
(* program is told to end, and unless a thread panics, the retransmission   *)
(* thread gets its turn again and again.                                    *)
TransmitRecurs ==
  []<>(\/ In("rtx", "retransmit") \/ \E t \in Threads : pc[t] = "dead"
       \/ pc["main"] \in {"tell", "close", "join", "over"})
=============================================================================
