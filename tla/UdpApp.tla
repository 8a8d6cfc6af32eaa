------------------------------ MODULE UdpApp ------------------------------
(***************************************************************************)
(* The UDP commands of app.rs and the main thread of main.rs: the loop of   *)
(* the application thread around the calls of module Udp, the signal loop   *)
(* and what follows a TERM signal.                                          *)
(***************************************************************************)
EXTENDS Udp

CONSTANTS
  Command,  \* the subcommand: send or receive
  Well,     \* 0.0.0.0 port 7
  Target    \* where the send command sends to

ASSUME CommandAssumption ==
  /\ Command \in {"send", "receive"}
  /\ Well \in Endpoint
  /\ Target \in Endpoint

VARIABLES
  pc,     \* the application thread
  soc,    \* soc_opt
  count,  \* sent_count
  term,   \* app_sender has sent
  main    \* the main thread

appVars == <<pcbs, call, chan, sent, phase, pc, soc, count, term, main>>

AppTypeOK ==
  /\ TypeOK
  /\ pc \in {"check", "open", "turn", "wait", "ended"}
  /\ soc \in Pcbs \union {NoPcb}
  /\ count \in 0..2
  /\ term \in BOOLEAN
  /\ main \in {"signals", "leaving", "told", "closed", "ended"}

AppInit ==
  /\ Init
  /\ pc = "check" /\ soc = NoPcb /\ count = 0
  /\ term = FALSE /\ main = "signals"

-----------------------------------------------------------------------------
(* The application thread *)

Check ==
  /\ pc = "check" /\ phase # "panic"
  /\ pc' = IF term THEN "ended" ELSE IF soc = NoPcb THEN "open" ELSE "turn"
  /\ UNCHANGED <<udpVars, soc, count, term, main>>

(* open and bind under one lock. *)
OpenAndBind ==
  /\ pc = "open" /\ Calling /\ ~Used(Well)
  /\ \E p \in Pcbs :
       /\ FirstFree(p)
       /\ pcbs' = [pcbs EXCEPT ![p].state = "Open", ![p].local = Well]
       /\ soc' = p
  /\ pc' = "turn" /\ sent' = {}
  /\ UNCHANGED <<call, chan, phase, count, term, main>>

(* Mutant: one datagram more. *)
SendsThree == Command = "send" /\ count < 3

Sends == Command = "send" /\ count < 2

SendTurn ==
  /\ pc = "turn" /\ Sends
  /\ SendTo(soc, Target)
  /\ pc' = "check" /\ count' = count + 1
  /\ UNCHANGED <<soc, term, main>>

ReceiveTurn ==
  /\ pc = "turn" /\ ~Sends
  /\ ReceiveStarts(soc)
  /\ pc' = "wait"
  /\ UNCHANGED <<soc, count, term, main>>

Received ==
  /\ pc = "wait"
  /\ ReceiveReturns
  /\ pc' = "check"
  /\ UNCHANGED <<soc, count, term, main>>

App == Check \/ OpenAndBind \/ SendTurn \/ ReceiveTurn \/ Received

-----------------------------------------------------------------------------
(* The main thread *)

Arrives ==
  /\ main = "signals"
  /\ \E d \in Datagrams : Input(d) \/ InputPanics(d)
  /\ UNCHANGED <<pc, soc, count, term, main>>

(* A TERM signal ends the loop. *)
Term ==
  /\ main = "signals" /\ phase = "running"
  /\ main' = "leaving"
  /\ UNCHANGED <<udpVars, pc, soc, count, term>>

TellApp ==
  /\ main = "leaving" /\ phase = "running"
  /\ term' = TRUE /\ main' = "told"
  /\ UNCHANGED <<udpVars, pc, soc, count>>

Close ==
  /\ main = "told"
  /\ CloseSockets \/ CloseSocketsPanics
  /\ main' = "closed"
  /\ UNCHANGED <<pc, soc, count, term>>

Join ==
  /\ main = "closed" /\ pc = "ended" /\ phase # "panic"
  /\ main' = "ended"
  /\ UNCHANGED <<udpVars, pc, soc, count, term>>

Main == TellApp \/ Close \/ Join

AppNext == App \/ Arrives \/ Term \/ Main

(* The threads are scheduled; datagrams and TERM need not come. *)
AppSpec == AppInit /\ [][AppNext]_appVars /\ WF_appVars(App) /\ WF_appVars(Main)

Over == main = "ended" \/ phase = "panic"

-----------------------------------------------------------------------------
(* Properties *)

(* A TERM signal that finds the application thread asleep in receive_from   *)
(* ends the process: the thread is told before its sockets are closed, so   *)
(* however it wakes up it sees the message.  When it is awake for another   *)
(* reason, close_sockets may panic; that ends the process too.              *)
SleeperEnds == main = "leaving" /\ pc = "wait" ~> Over

(* "Ctrl+C to end." (help of both commands): a TERM signal ends the process *)
(* whenever it comes.                                                       *)
TermEnds == main = "leaving" ~> Over

(* "printing out each segment received" (help of both commands): the        *)
(* receive loop does not sleep over a datagram it has received.             *)
NothingStranded == pc = "wait" /\ chan = <<>> => pcbs[soc].queue = <<>>
=============================================================================
